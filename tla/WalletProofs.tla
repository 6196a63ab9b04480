---------------------------- MODULE WalletProofs ----------------------------
(***************************************************************************)
(* Proofs about what the wallets of the two clients keep and send.         *)
(*                                                                         *)
(* LegacyBinding: the v1.1 pool executes planned calls only,               *)
(* it can pay every note, the relay, the wallets and the pool agree on     *)
(* every call, and the indexer confirms what the pool recorded, for any    *)
(* deployments, notes, policies and senders.                               *)
(*                                                                         *)
(* The public inputs of a v1.1 proof name the deployment, the amounts and  *)
(* the destination; the selector, the bytes and the policy are bound by    *)
(* the two hashes alone.                                                   *)
(*                                                                         *)
(* WalletPanel: the panel's guarantees to a careful user, for any wallets, *)
(* amounts and notes and any number of clicks and reloads.                 *)
(*                                                                         *)
(* A handler works on what it captured when it was clicked, so the         *)
(* invariant says how far that has drifted from the present: while a       *)
(* handler runs, the account and the signature it captured are still the   *)
(* session's, and logs, transactions and recoveries under way are those of *)
(* the handler's own transaction.  The captured vault may be stale; what   *)
(* is kept of it is that it calls nothing spent that is not, and that a    *)
(* note it can split is the session's own.                                 *)
(***************************************************************************)
EXTENDS LegacyBinding, WalletPanel, FiniteInduction

(* What the owners' actions make of a plan. *)
LegacyPlan(p) ==
    /\ p.client \in {"sdk", "web", "contract"}
    /\ p.client \in {"sdk", "web"} =>
          /\ p.selector = WithdrawNoteBounds
          /\ p.out = NoCommitment => p.note = EmptyNote
    /\ p.deployment \in Deployments
    /\ p.out \in Commitments \cup {NoCommitment}

LegacyPlansWellFormed == \A p \in plans : LegacyPlan(p)

(* The tree's and the accounting's types; a commitment that is in the tree *)
(* never gets another amount.                                              *)
LegacyTypeOK ==
    /\ leaves \in Seq(Commitments)
    /\ commitmentAmounts \in [Commitments -> Int]
    /\ {totalDepositedAccounting, totalWithdrawnAccounting, accruedProtocolFees,
        feeSweptAccounting, balance} \subseteq Int

(* What was checked of an executed withdrawal, and what became of its      *)
(* amounts: both commitments are in the tree with the amounts it names.    *)
ExecutedBound(e) ==
    LET inputs == e.call.inputs
    IN  /\ inputs.nullifier = e.call.nullifier
        /\ ExitShape(inputs, e.call.gross, e.note)
        /\ e.note # OversizedNote
        /\ Bindings(inputs, WITHDRAW_SHAPE_V1_1, e.call.selector, BoundAmount(inputs), e.note,
                    e.call.destination, e.call.gross, e.fee, OverloadPolicy(e.call))
        /\ e.fee = FeeOf(e.call.gross)
        /\ inputs.destination = e.call.destination
        /\ inputs.grossAmount = e.call.gross
        /\ inputs.fee = e.fee
        /\ inputs.chainId = Here.chainId /\ inputs.verifyingContract = Here.pool
        /\ e.call.selector = WithdrawPolicy => e.note = EmptyNote
        /\ \E p \in plans : SpendInputs(p) = inputs

ExecutedRecorded(e) ==
    LET inputs == e.call.inputs
    IN  /\ inputs.spentCommitment \in commitments
        /\ commitmentAmounts[inputs.spentCommitment] = inputs.noteAmount
        /\ inputs.newCommitment # NoCommitment =>
              /\ inputs.newCommitment \in commitments
              /\ commitmentAmounts[inputs.newCommitment] = inputs.noteAmount - e.call.gross

WithdrawalsRecorded ==
    \A e \in executed : e.call.selector \in WithdrawSelectors => ExecutedBound(e) /\ ExecutedRecorded(e)

(* The part of LegacyExecutedAsPlanned that is about one plan and call.    *)
Authorises(p, e) ==
    /\ p.deployment = Here
    /\ p.selector = e.call.selector
    /\ SpendInputs(p) = e.call.inputs
    /\ <<PlanNullifier(p), p.note>> = <<e.call.nullifier, e.note>>
    /\ p.out \in {e.call.newCommitment, e.call.inputs.newCommitment}
    /\ <<p.destination, p.gross, p.fee>> = <<e.call.destination, e.call.gross, e.fee>>
    /\ p.policy.relayer # NoRelayer => e.sender = p.policy.relayer
    /\ p.policy.deadlineOrZero # 0 => e.time <= p.policy.deadlineOrZero
    /\ e.call.selector \in WithdrawSelectors =>
          /\ e.fee <= p.policy.maxFeeAmount
          /\ e.call.gross - e.fee >= p.policy.minNetAmount

Authorised(e) == \E p \in plans : Authorises(p, e)

LEMMA PlannedRestated == LegacyExecutedAsPlanned <=> \A e \in executed : Authorised(e)
BY Zenon DEF LegacyExecutedAsPlanned, Authorised, Authorises

-----------------------------------------------------------------------------
(* The hashes.                                                             *)

(* A hash of an encrypted note determines what was hashed. *)
LEMMA NoteHashInjective ==
    ASSUME NEW d1, NEW s1, NEW f1, NEW n1, NEW c1, NEW a1, NEW b1,
           NEW d2, NEW s2, NEW f2, NEW n2, NEW c2, NEW a2, NEW b2,
           LegacyNoteHash(d1, s1, f1, n1, c1, a1, b1) = LegacyNoteHash(d2, s2, f2, n2, c2, a2, b2)
    PROVE  /\ d1.chainId = d2.chainId /\ d1.pool = d2.pool
           /\ s1 = s2 /\ f1 = f2 /\ n1 = n2 /\ c1 = c2 /\ a1 = a2 /\ b1 = b2
BY DEF LegacyNoteHash

(* A hash of a proof context determines the call and its policy. *)
LEMMA ContextHashInjective ==
    ASSUME NEW d1, NEW s1, NEW f1, NEW r1, NEW n1, NEW a1, NEW g1, NEW w1, NEW h1, NEW p1,
           NEW d2, NEW s2, NEW f2, NEW r2, NEW n2, NEW a2, NEW g2, NEW w2, NEW h2, NEW p2,
           LegacyContextHash(d1, s1, f1, r1, n1, a1, g1, w1, h1, p1)
              = LegacyContextHash(d2, s2, f2, r2, n2, a2, g2, w2, h2, p2)
    PROVE  /\ d1.chainId = d2.chainId /\ d1.pool = d2.pool /\ s1 = s2 /\ f1 = f2
           /\ r1 = r2 /\ n1 = n2 /\ a1 = a2 /\ g1 = g2 /\ w1 = w2 /\ h1 = h2
           /\ p1.relayer = p2.relayer /\ p1.minNetAmount = p2.minNetAmount
           /\ p1.maxFeeAmount = p2.maxFeeAmount /\ p1.deadlineOrZero = p2.deadlineOrZero
BY DEF LegacyContextHash, LegacyPolicyHash

(* The SDK and packages/core hash what the views of the contract hash. *)
LEMMA WalletsAgree ==
    ASSUME NEW p, LegacyPlan(p)
    PROVE  /\ PlanNoteHash(p) = LegacyNoteHash(p.deployment, PlanShape(p), p.selector,
                                   PlanNullifier(p), p.out, PlanAmount(p), p.note)
           /\ PlanContextHash(p) = LegacyContextHash(p.deployment, PlanShape(p), p.selector,
                                   p.root, PlanNullifier(p), p.destination, p.gross, p.fee,
                                   PlanNoteHash(p), p.policy)
<1>1. WithdrawNoteBounds \notin TransferSelectors
    BY DEF WithdrawNoteBounds, TransferSelectors, Transfer, TransferNote, TransferNotePolicy
<1>2. CASE p.client = "sdk"
    BY <1>1, <1>2 DEF LegacyPlan, PlanShape, PlanAmount, PlanNoteHash, PlanContextHash,
       SdkExitNoteHash, SdkChangeNoteHash, SdkNoteHashV1, SdkContextHashV1, SdkRelayerPolicyHash,
       LegacyNoteHash, LegacyContextHash, LegacyPolicyHash
<1>3. CASE p.client = "web"
    BY <1>1, <1>3 DEF LegacyPlan, PlanShape, PlanAmount, PlanNoteHash, PlanContextHash,
       WebExitNoteHash, WebChangeNoteHash, CoreNoteHash, WebContextHashV1, CoreContextHash,
       CorePolicyHash, LegacyNoteHash, LegacyContextHash, LegacyPolicyHash
<1>4. CASE p.client = "contract"
    BY <1>4 DEF PlanNoteHash, PlanContextHash
<1> QED BY <1>2, <1>3, <1>4 DEF LegacyPlan

(* A deployment is its chain and its pool. *)
LEMMA DeploymentIsHere ==
    ASSUME NEW d \in Deployments, d.chainId = Here.chainId, d.pool = Here.pool
    PROVE  d = Here
<1>1. d = [chainId |-> d.chainId, pool |-> d.pool]
    BY LegacyBindingAssumption
<1>2. Here = [chainId |-> Here.chainId, pool |-> Here.pool]
    BY LegacyBindingAssumption
<1> QED BY <1>1, <1>2

(* Public inputs that verify and satisfy the pool's bindings are those of  *)
(* a plan for exactly this call.                                           *)
LEMMA BoundSpendIsPlanned ==
    ASSUME LegacyPlansWellFormed, NEW inputs, VerifyProof(inputs),
           NEW shape, NEW selector, NEW noteAmount, NEW note, NEW destination, NEW gross, NEW fee,
           NEW policy,
           Bindings(inputs, shape, selector, noteAmount, note, destination, gross, fee, policy)
    PROVE  \E p \in plans :
              /\ LegacyPlan(p)
              /\ SpendInputs(p) = inputs
              /\ p.deployment = Here /\ p.selector = selector /\ p.note = note
              /\ p.destination = destination /\ p.gross = gross /\ p.fee = fee
              /\ p.policy.relayer = policy.relayer
              /\ p.policy.minNetAmount = policy.minNetAmount
              /\ p.policy.maxFeeAmount = policy.maxFeeAmount
              /\ p.policy.deadlineOrZero = policy.deadlineOrZero
<1>1. PICK p \in plans : SpendInputs(p) = inputs
    BY DEF VerifyProof
<1>2. LegacyPlan(p)
    BY DEF LegacyPlansWellFormed
<1>3. /\ inputs.encryptedNoteHash = PlanNoteHash(p)
      /\ inputs.proofContextHash = PlanContextHash(p)
    BY <1>1 DEF SpendInputs
<1>4. LegacyNoteHash(p.deployment, PlanShape(p), p.selector, PlanNullifier(p), p.out,
                     PlanAmount(p), p.note)
        = LegacyNoteHash(Here, shape, selector, inputs.nullifier, inputs.newCommitment,
                         noteAmount, note)
    BY <1>2, <1>3, WalletsAgree DEF Bindings
<1>5. LegacyContextHash(p.deployment, PlanShape(p), p.selector, p.root, PlanNullifier(p),
                        p.destination, p.gross, p.fee, PlanNoteHash(p), p.policy)
        = LegacyContextHash(Here, shape, selector, inputs.root, inputs.nullifier, destination,
                            gross, fee,
                            LegacyNoteHash(Here, shape, selector, inputs.nullifier,
                                           inputs.newCommitment, noteAmount, note),
                            policy)
    BY <1>2, <1>3, WalletsAgree DEF Bindings
<1>6. /\ p.deployment.chainId = Here.chainId /\ p.deployment.pool = Here.pool
      /\ p.selector = selector /\ p.note = note
    BY <1>4, NoteHashInjective
<1>7. /\ p.destination = destination /\ p.gross = gross /\ p.fee = fee
      /\ p.policy.relayer = policy.relayer
      /\ p.policy.minNetAmount = policy.minNetAmount
      /\ p.policy.maxFeeAmount = policy.maxFeeAmount
      /\ p.policy.deadlineOrZero = policy.deadlineOrZero
    BY <1>5, ContextHashInjective
<1>8. p.deployment = Here
    BY <1>2, <1>6, DeploymentIsHere DEF LegacyPlan
<1> QED BY <1>1, <1>2, <1>6, <1>7, <1>8

-----------------------------------------------------------------------------
(* Executed calls are planned.                                             *)

(* The fee of nothing is nothing. *)
LEMMA NoFee == FeeOf(0) = 0
<1>1. WITHDRAWAL_FEE_BPS \in Int /\ BPS_DENOMINATOR \in Nat \ {0}
    BY LegacyAssumption
<1>2. 0 * WITHDRAWAL_FEE_BPS = 0
    BY <1>1
<1>3. 0 \div BPS_DENOMINATOR = 0
    BY <1>1
<1> QED BY <1>2, <1>3 DEF FeeOf

(* A withdrawal that the pool accepts is a plan of an owner. *)
LEMMA WithdrawalAuthorised ==
    ASSUME LegacyPlansWellFormed, NEW call, NEW sender, WithdrawAccepted(call, sender)
    PROVE  Authorised(Execution(call, sender))
<1> DEFINE e == Execution(call, sender)
           policy == OverloadPolicy(call)
           note == OverloadNote(call)
<1>1. /\ VerifyProof(call.inputs)
      /\ LegacyWithdrawAccepted(call, policy, note, sender)
    BY DEF WithdrawAccepted
<1>2. /\ e.call = call /\ e.note = note /\ e.fee = FeeOf(call.gross)
      /\ e.sender = sender /\ e.time = timestamp
    BY DEF Execution
<1> HIDE DEF e, policy, note
<1>3. /\ Bindings(call.inputs, WITHDRAW_SHAPE_V1_1, call.selector, BoundAmount(call.inputs), note,
                  call.destination, call.gross, FeeOf(call.gross), policy)
      /\ call.inputs.nullifier = call.nullifier
      /\ LegacyPolicyHolds(policy, sender)
      /\ FeeOf(call.gross) <= policy.maxFeeAmount
      /\ call.gross - FeeOf(call.gross) >= policy.minNetAmount
    BY <1>1 DEF LegacyWithdrawAccepted, LegacyWithdrawInputs, LegacyInputsCommon
<1>4. PICK p \in plans :
              /\ SpendInputs(p) = call.inputs
              /\ p.deployment = Here /\ p.selector = call.selector /\ p.note = note
              /\ p.destination = call.destination /\ p.gross = call.gross
              /\ p.fee = FeeOf(call.gross)
              /\ p.policy.relayer = policy.relayer
              /\ p.policy.minNetAmount = policy.minNetAmount
              /\ p.policy.maxFeeAmount = policy.maxFeeAmount
              /\ p.policy.deadlineOrZero = policy.deadlineOrZero
    BY <1>1, <1>3, BoundSpendIsPlanned
<1>5. PlanNullifier(p) = call.nullifier /\ p.out = call.inputs.newCommitment
    BY <1>3, <1>4 DEF SpendInputs
<1>6. Authorises(p, e)
    BY <1>2, <1>3, <1>4, <1>5 DEF Authorises, LegacyPolicyHolds
<1>7. Authorised(e)
    BY <1>6 DEF Authorised
<1> QED BY <1>7 DEF e

(* A private transfer that the pool accepts is a plan of an owner. *)
LEMMA TransferAuthorised ==
    ASSUME LegacyPlansWellFormed, NEW call, NEW sender, TransferAccepted(call, sender),
           call.destination = ZeroAddress, call.gross = 0
    PROVE  Authorised(Execution(call, sender))
<1> DEFINE e == Execution(call, sender)
           policy == OverloadPolicy(call)
           note == OverloadNote(call)
<1>1. /\ VerifyProof(call.inputs)
      /\ call.selector \in TransferSelectors
      /\ LegacyTransferAccepted(call, policy, note, sender)
    BY DEF TransferAccepted
<1>2. /\ e.call = call /\ e.note = note /\ e.fee = 0
      /\ e.sender = sender /\ e.time = timestamp
    BY NoFee DEF Execution
<1> HIDE DEF e, policy, note
<1>3. /\ Bindings(call.inputs, TRANSFER_SHAPE_V1_1, call.selector, call.inputs.noteAmount, note,
                  ZeroAddress, 0, 0, policy)
      /\ call.inputs.nullifier = call.nullifier
      /\ call.inputs.newCommitment = call.newCommitment
      /\ LegacyPolicyHolds(policy, sender)
    BY <1>1 DEF LegacyTransferAccepted, LegacyTransferInputs, LegacyInputsCommon
<1>4. PICK p \in plans :
              /\ SpendInputs(p) = call.inputs
              /\ p.deployment = Here /\ p.selector = call.selector /\ p.note = note
              /\ p.destination = ZeroAddress /\ p.gross = 0 /\ p.fee = 0
              /\ p.policy.relayer = policy.relayer
              /\ p.policy.deadlineOrZero = policy.deadlineOrZero
    BY <1>1, <1>3, BoundSpendIsPlanned
<1>5. PlanNullifier(p) = call.nullifier /\ p.out = call.inputs.newCommitment
    BY <1>3, <1>4 DEF SpendInputs
<1>6. call.selector \notin WithdrawSelectors
    BY <1>1 DEF TransferSelectors, WithdrawSelectors, Transfer, TransferNote,
       TransferNotePolicy, Withdraw, WithdrawNote, WithdrawBounds, WithdrawNoteBounds,
       WithdrawPolicy, WithdrawNotePolicy
<1>7. Authorises(p, e)
    BY <1>2, <1>3, <1>4, <1>5, <1>6 DEF Authorises, LegacyPolicyHolds
<1>8. Authorised(e)
    BY <1>7 DEF Authorised
<1> QED BY <1>8 DEF e

(* Plans are never withdrawn. *)
LEMMA AuthorisedLasts ==
    ASSUME plans \subseteq plans', NEW e, Authorised(e) PROVE Authorised(e)'
<1>1. PICK p \in plans : Authorises(p, e)
    BY DEF Authorised
<1>2. Authorises(p, e)'
    BY <1>1 DEF Authorises
<1> QED BY <1>1, <1>2 DEF Authorised

(* The calls that are tried name a new commitment of the instance, and a   *)
(* private transfer no destination and no amount.                          *)
LEMMA TransferCallFields ==
    ASSUME NEW selector, NEW call \in TransferCalls(selector)
    PROVE  /\ call.selector = selector /\ call.newCommitment \in Commitments
           /\ call.destination = ZeroAddress /\ call.gross = 0
BY DEF TransferCalls, CallsWith

(* What becomes of the plans. *)
LEMMA LegacyPlansStep ==
    ASSUME LegacyPlansWellFormed, [LegacyNext]_allVars
    PROVE  LegacyPlansWellFormed' /\ plans \subseteq plans'
<1>1. CASE UNCHANGED plans
    BY <1>1 DEF LegacyPlansWellFormed, LegacyPlan
<1>2. ASSUME NEW p, LegacyPlan(p), Prove(p) PROVE LegacyPlansWellFormed' /\ plans \subseteq plans'
    BY <1>2 DEF Prove, LegacyPlansWellFormed, LegacyPlan
<1>3. ASSUME NEW client \in {"sdk", "web"}, NEW leaf, NEW out \in Commitments \cup {NoCommitment},
             NEW gross, NEW destination, NEW bytes, out = NoCommitment => bytes = EmptyNote
      PROVE  LegacyPlan(WalletPlan(client, leaf, out, gross, destination, bytes))
    BY <1>3, LegacyBindingAssumption DEF WalletPlan, LegacyPlan
<1>4. ASSUME NEW leaf, NEW out \in Commitments \cup {NoCommitment}, NEW gross, NEW destination,
             NEW cipher,
             \/ SdkPlans(leaf, out, gross, destination, cipher)
             \/ WebPlans(leaf, out, gross, destination, cipher)
      PROVE  LegacyPlansWellFormed' /\ plans \subseteq plans'
  <2>1. CASE SdkPlans(leaf, out, gross, destination, cipher)
      BY <1>2, <1>3, <2>1 DEF SdkPlans, SdkChangeBytes
  <2>2. CASE WebPlans(leaf, out, gross, destination, cipher)
      BY <1>2, <1>3, <2>2 DEF WebPlans, WebChangeBytes
  <2> QED BY <1>4, <2>1, <2>2
<1>5. ASSUME NEW d \in Deployments, NEW selector, NEW leaf,
             NEW out \in Commitments \cup {NoCommitment}, NEW gross, NEW destination, NEW note,
             NEW policy, OwnerPlans(d, selector, leaf, out, gross, destination, note, policy)
      PROVE  LegacyPlansWellFormed' /\ plans \subseteq plans'
  <2> DEFINE spent == leaves[leaf + 1]
             call == [selector |-> selector, policy |-> policy, note |-> note]
             p == [client |-> "contract", deployment |-> d, selector |-> selector,
                   leaf |-> leaf, root |-> currentRoot, spent |-> spent,
                   noteAmount |-> OpenAmount[spent], out |-> out, destination |-> destination,
                   gross |-> gross, fee |-> FeeOf(gross), note |-> OverloadNote(call),
                   policy |-> OverloadPolicy(call)]
  <2>1. Prove(p)
      BY <1>5 DEF OwnerPlans
  <2>2. LegacyPlan(p)
      BY DEF LegacyPlan
  <2> HIDE DEF p
  <2> QED BY <1>2, <2>1, <2>2
<1>6. CASE OwnersStep
    BY <1>4, <1>5, <1>6 DEF OwnersStep
<1>7. CASE UNCHANGED bindingVars
    BY <1>1, <1>7 DEF bindingVars
<1>8. ASSUME NEW p, NEW inputs, SdkBuilds(p, inputs) \/ WebBuilds(p, inputs)
      PROVE  UNCHANGED plans
    BY <1>8 DEF SdkBuilds, WebBuilds
<1>9. ASSUME NEW call, NEW sender, SubmitTransfer(call, sender) \/ SubmitWithdraw(call, sender)
      PROVE  UNCHANGED plans
    BY <1>9 DEF SubmitTransfer, SubmitWithdraw
<1>10. ASSUME NEW call, NEW deadline, RelayAdmits(call, deadline)
       PROVE  UNCHANGED plans
    BY <1>10 DEF RelayAdmits
<1>11. ASSUME NEW c, NEW value, NEW note, SubmitDeposit(c, value, note) PROVE UNCHANGED bindingVars
    BY <1>11 DEF SubmitDeposit
<1> QED BY <1>1, <1>6, <1>7, <1>8, <1>9, <1>10, <1>11 DEF LegacyNext, allVars

(* How executed grows: by an accepted withdrawal or transfer. *)
LEMMA ExecutedStep ==
    ASSUME [LegacyNext]_allVars
    PROVE  \/ UNCHANGED executed
           \/ \E selector \in TransferSelectors : \E call \in TransferCalls(selector) :
                 \E sender \in Accounts : SubmitTransfer(call, sender)
           \/ \E selector \in WithdrawSelectors : \E call \in WithdrawCalls(selector) :
                 \E sender \in Accounts : SubmitWithdraw(call, sender)
<1>1. CASE OwnersStep
  <2>1. ASSUME NEW p, Prove(p) PROVE UNCHANGED executed
      BY <2>1 DEF Prove
  <2>2. ASSUME NEW leaf, NEW out, NEW gross, NEW destination, NEW cipher,
               \/ SdkPlans(leaf, out, gross, destination, cipher)
               \/ WebPlans(leaf, out, gross, destination, cipher)
        PROVE  UNCHANGED executed
      BY <2>1, <2>2 DEF SdkPlans, WebPlans
  <2>3. ASSUME NEW d, NEW selector, NEW leaf, NEW out, NEW gross, NEW destination, NEW note,
               NEW policy, OwnerPlans(d, selector, leaf, out, gross, destination, note, policy)
        PROVE  UNCHANGED executed
      BY <2>1, <2>3 DEF OwnerPlans
  <2> QED BY <1>1, <2>2, <2>3 DEF OwnersStep
<1>2. CASE UNCHANGED bindingVars
    BY <1>2 DEF bindingVars
<1>3. ASSUME NEW p, NEW inputs, SdkBuilds(p, inputs) \/ WebBuilds(p, inputs)
      PROVE  UNCHANGED executed
    BY <1>3 DEF SdkBuilds, WebBuilds
<1>4. ASSUME NEW call, NEW deadline, RelayAdmits(call, deadline)
      PROVE  UNCHANGED executed
    BY <1>4 DEF RelayAdmits
<1>5. ASSUME NEW c, NEW value, NEW note, SubmitDeposit(c, value, note) PROVE UNCHANGED bindingVars
    BY <1>5 DEF SubmitDeposit
<1> QED BY <1>1, <1>2, <1>3, <1>4, <1>5 DEF LegacyNext, allVars

LEMMA AuthorisedStep ==
    ASSUME LegacyPlansWellFormed, \A e \in executed : Authorised(e), [LegacyNext]_allVars
    PROVE  \A e \in executed' : Authorised(e)'
<1>1. plans \subseteq plans'
    BY LegacyPlansStep
<1>2. \A e : Authorised(e) => Authorised(e)'
    BY <1>1, AuthorisedLasts
<1>3. CASE UNCHANGED executed
    BY <1>2, <1>3
<1>4. ASSUME NEW selector \in TransferSelectors, NEW call \in TransferCalls(selector),
             NEW sender \in Accounts, SubmitTransfer(call, sender)
      PROVE  \A e \in executed' : Authorised(e)'
  <2>1. executed' = executed \cup {Execution(call, sender)} /\ TransferAccepted(call, sender)
      BY <1>4 DEF SubmitTransfer
  <2>2. Authorised(Execution(call, sender))
      BY <2>1, TransferAuthorised, TransferCallFields
  <2> QED BY <1>2, <2>1, <2>2
<1>5. ASSUME NEW call, NEW sender, SubmitWithdraw(call, sender)
      PROVE  \A e \in executed' : Authorised(e)'
  <2>1. executed' = executed \cup {Execution(call, sender)} /\ WithdrawAccepted(call, sender)
      BY <1>5 DEF SubmitWithdraw
  <2>2. Authorised(Execution(call, sender))
      BY <2>1, WithdrawalAuthorised
  <2> QED BY <1>2, <2>1, <2>2
<1> QED BY <1>3, <1>4, <1>5, ExecutedStep

(* Whatever the v1.1 pool executes (_privateTransfer, _withdraw) is        *)
(* exactly what an owner planned and proved for this deployment.           *)
THEOREM LegacyPoolExecutesPlans == LegacySpec => []LegacyExecutedAsPlanned
<1>1. LegacyBindingInit => LegacyPlansWellFormed /\ LegacyExecutedAsPlanned
    BY DEF LegacyBindingInit, LegacyPlansWellFormed, LegacyExecutedAsPlanned
<1>2. LegacyPlansWellFormed /\ LegacyExecutedAsPlanned /\ [LegacyNext]_allVars
      => LegacyPlansWellFormed' /\ LegacyExecutedAsPlanned'
  <2> SUFFICES ASSUME LegacyPlansWellFormed, LegacyExecutedAsPlanned, [LegacyNext]_allVars
               PROVE  LegacyPlansWellFormed' /\ LegacyExecutedAsPlanned'
      OBVIOUS
  <2>1. LegacyPlansWellFormed'
      BY LegacyPlansStep
  <2>2. \A e \in executed' : Authorised(e)'
      BY PlannedRestated, AuthorisedStep
  <2>3. LegacyExecutedAsPlanned'
      BY <2>2, Zenon DEF LegacyExecutedAsPlanned, Authorised, Authorises
  <2> QED BY <2>1, <2>3
<1> QED BY <1>1, <1>2, PTL DEF LegacySpec

-----------------------------------------------------------------------------
(* What the pool recorded stays, and its balance covers its accounting.    *)

(* A fee is less than the amount it is taken from. *)
LEMMA LegacyFeeBound ==
    ASSUME NEW g \in Nat \ {0} PROVE FeeOf(g) \in Nat /\ FeeOf(g) < g
<1> DEFINE D == BPS_DENOMINATOR
           w == WITHDRAWAL_FEE_BPS
           q == (g * w) \div D
<1>1. D \in Nat \ {0} /\ w \in Nat /\ w <= D - 1
    BY LegacyAssumption
<1>2. g * w \in Nat /\ g * w <= g * (D - 1) /\ g * (D - 1) = g * D - g
    BY <1>1
<1>3. q \in Nat /\ q * D <= g * w
    BY <1>1, <1>2
<1>4. q < g
  <2>1. SUFFICES ASSUME q >= g PROVE FALSE
      BY <1>3
  <2>2. q * D >= g * D
      BY <1>1, <1>3, <2>1
  <2>3. g * D - g < g * D
      BY <1>1
  <2> QED BY <1>1, <1>2, <1>3, <2>2, <2>3
<1> QED BY <1>3, <1>4 DEF FeeOf

(* No recorded commitment is lost, and none gets another amount. *)
AmountsStay ==
    \A c \in commitments : c \in commitments' /\ commitmentAmounts'[c] = commitmentAmounts[c]

(* A new leaf is recorded besides those of the tree. *)
LEMMA LeafRecorded ==
    ASSUME leaves \in Seq(Commitments), NEW c \in Commitments, RecordCommitment(c)
    PROVE  leaves' \in Seq(Commitments) /\ commitments' = commitments \cup {c}
<1>1. leaves' = Append(leaves, c)
    BY DEF RecordCommitment
<1>2. leaves' \in Seq(Commitments) /\ Len(leaves') = Len(leaves) + 1 /\ Len(leaves) \in Nat
    BY <1>1
<1>3. DOMAIN leaves = 1..Len(leaves) /\ DOMAIN leaves' = 1..(Len(leaves) + 1)
    BY <1>2
<1>4. leaves'[Len(leaves) + 1] = c /\ \A i \in 1..Len(leaves) : leaves'[i] = leaves[i]
    BY <1>1
<1>5. \A x : x \in commitments' <=> x \in commitments \/ x = c
    BY <1>2, <1>3, <1>4 DEF commitments, Range
<1> QED BY <1>2, <1>5

(* A commitment that is written to is not in the tree yet. *)
LEMMA AmountRecorded ==
    ASSUME LegacyTypeOK, NEW c \in Commitments, c \notin commitments, NEW a \in Int,
           commitmentAmounts' = [commitmentAmounts EXCEPT ![c] = a], RecordCommitment(c)
    PROVE  /\ leaves' \in Seq(Commitments) /\ commitmentAmounts' \in [Commitments -> Int]
           /\ AmountsStay
           /\ c \in commitments' /\ commitmentAmounts'[c] = a
<1>1. leaves' \in Seq(Commitments) /\ commitments' = commitments \cup {c}
    BY LeafRecorded DEF LegacyTypeOK
<1>2. commitmentAmounts \in [Commitments -> Int]
    BY DEF LegacyTypeOK
<1>3. commitmentAmounts' \in [Commitments -> Int] /\ commitmentAmounts'[c] = a
    BY <1>2
<1>4. commitments \subseteq Commitments
    BY DEF LegacyTypeOK, commitments, Range
<1>5. AmountsStay
    BY <1>1, <1>2, <1>4 DEF AmountsStay
<1> QED BY <1>1, <1>3, <1>5

(* The tree and the amounts are left alone. *)
LEMMA NothingRecorded ==
    ASSUME LegacyTypeOK, UNCHANGED <<leaves, commitmentAmounts>>
    PROVE  /\ leaves' \in Seq(Commitments) /\ commitmentAmounts' \in [Commitments -> Int]
           /\ AmountsStay
BY DEF LegacyTypeOK, AmountsStay, commitments

(* The money: what the accounting says of the notes and the unswept fees   *)
(* is in the balance.                                                      *)
MoneyOK ==
    /\ totalDepositedAccounting \in Int /\ totalWithdrawnAccounting \in Int
    /\ accruedProtocolFees \in Int /\ feeSweptAccounting \in Int /\ balance \in Int
    /\ BalanceCovers

LEMMA DepositKeepsRecords ==
    ASSUME LegacyTypeOK, BalanceCovers, NEW c \in Commitments, NEW value \in Denominations, NEW note,
           LegacyDeposit(c, value, note)
    PROVE  LegacyTypeOK' /\ BalanceCovers' /\ AmountsStay
<1>1. value \in Nat /\ value \in Int
    BY LegacyAssumption
<1>2. /\ c \notin commitments
      /\ commitmentAmounts' = [commitmentAmounts EXCEPT ![c] = value]
      /\ RecordCommitment(c)
    BY DEF LegacyDeposit
<1>3. /\ leaves' \in Seq(Commitments) /\ commitmentAmounts' \in [Commitments -> Int]
      /\ AmountsStay
    BY <1>1, <1>2, AmountRecorded
<1>4. MoneyOK'
  <2>1. MoneyOK
      BY DEF LegacyTypeOK, MoneyOK
  <2>2. /\ totalDepositedAccounting' = totalDepositedAccounting + value
        /\ balance' = balance + value
        /\ UNCHANGED <<totalWithdrawnAccounting, accruedProtocolFees, feeSweptAccounting>>
      BY DEF LegacyDeposit
  <2> QED BY <1>1, <2>1, <2>2 DEF MoneyOK, BalanceCovers
<1> QED BY <1>3, <1>4 DEF MoneyOK, LegacyTypeOK

LEMMA TransferKeepsRecords ==
    ASSUME LegacyTypeOK, BalanceCovers, NEW call, NEW policy, NEW note, NEW sender,
           call.newCommitment \in Commitments, LegacyPrivateTransfer(call, policy, note, sender)
    PROVE  LegacyTypeOK' /\ BalanceCovers' /\ AmountsStay
<1> DEFINE inputs == call.inputs
<1>1. /\ inputs.spentCommitment \in commitments
      /\ commitmentAmounts[inputs.spentCommitment] = inputs.noteAmount
      /\ call.newCommitment \notin commitments
    BY DEF LegacyPrivateTransfer, LegacyTransferAccepted, LegacyTransferInputs, SpentCommitmentAmount
<1>2. inputs.noteAmount \in Int
    BY <1>1 DEF LegacyTypeOK, commitments, Range
<1>3. /\ commitmentAmounts' = [commitmentAmounts EXCEPT ![call.newCommitment] = inputs.noteAmount]
      /\ RecordCommitment(call.newCommitment)
      /\ UNCHANGED accounting
    BY DEF LegacyPrivateTransfer
<1>4. /\ leaves' \in Seq(Commitments) /\ commitmentAmounts' \in [Commitments -> Int]
      /\ AmountsStay
    BY <1>1, <1>2, <1>3, AmountRecorded
<1>5. MoneyOK'
    BY <1>3 DEF accounting, MoneyOK, BalanceCovers, LegacyTypeOK
<1> QED BY <1>4, <1>5 DEF MoneyOK, LegacyTypeOK

(* What a withdrawal checked of the commitments and the amounts. *)
LEMMA WithdrawalAmounts ==
    ASSUME NEW call, NEW policy, NEW note, NEW sender,
           LegacyWithdrawAccepted(call, policy, note, sender)
    PROVE  /\ call.inputs.spentCommitment \in commitments
           /\ commitmentAmounts[call.inputs.spentCommitment] = call.inputs.noteAmount
           /\ call.inputs.newCommitment \notin commitments
           /\ call.gross \in Nat \ {0} /\ call.inputs.noteAmount \in Nat \ {0}
BY LegacyAssumption DEF LegacyWithdrawAccepted, LegacyWithdrawInputs, SpentCommitmentAmount, ExitShape

LEMMA WithdrawKeepsRecords ==
    ASSUME LegacyTypeOK, BalanceCovers, NEW call, NEW policy, NEW note, NEW sender,
           call.inputs.newCommitment \in Commitments \cup {NoCommitment},
           LegacyWithdraw(call, policy, note, sender)
    PROVE  /\ LegacyTypeOK' /\ BalanceCovers' /\ AmountsStay
           /\ call.inputs.newCommitment # NoCommitment =>
                 /\ call.inputs.newCommitment \in commitments'
                 /\ commitmentAmounts'[call.inputs.newCommitment]
                        = call.inputs.noteAmount - call.gross
<1> DEFINE inputs == call.inputs
           out == call.inputs.newCommitment
           net == call.gross - FeeOf(call.gross)
<1>1. LegacyWithdrawAccepted(call, policy, note, sender)
    BY DEF LegacyWithdraw
<1>2. /\ out \notin commitments
      /\ call.gross \in Nat \ {0} /\ inputs.noteAmount \in Nat \ {0}
    BY <1>1, WithdrawalAmounts
<1>3. FeeOf(call.gross) \in Nat
    BY <1>2, LegacyFeeBound
<1>4. MoneyOK'
  <2>1. MoneyOK
      BY DEF LegacyTypeOK, MoneyOK
  <2>2. /\ accruedProtocolFees' = accruedProtocolFees + FeeOf(call.gross)
        /\ totalWithdrawnAccounting' = totalWithdrawnAccounting + net
        /\ balance' = balance - net
        /\ UNCHANGED <<totalDepositedAccounting, feeSweptAccounting>>
      BY DEF LegacyWithdraw
  <2>3. net \in Int
      BY <1>2, <1>3
  <2> HIDE DEF net
  <2> QED BY <1>3, <2>1, <2>2, <2>3 DEF MoneyOK, BalanceCovers
<1>5. CASE out = NoCommitment
  <2>1. UNCHANGED <<leaves, commitmentAmounts>>
      BY <1>5 DEF LegacyWithdraw, ChangeRecorded
  <2> QED BY <1>4, <1>5, <2>1, NothingRecorded DEF MoneyOK, LegacyTypeOK
<1>6. CASE out # NoCommitment
  <2>1. /\ commitmentAmounts' = [commitmentAmounts EXCEPT ![out] = inputs.noteAmount - call.gross]
        /\ RecordCommitment(out)
      BY <1>6 DEF LegacyWithdraw, ChangeRecorded
  <2>2. out \in Commitments /\ inputs.noteAmount - call.gross \in Int
      BY <1>2, <1>6
  <2>3. /\ leaves' \in Seq(Commitments) /\ commitmentAmounts' \in [Commitments -> Int]
        /\ AmountsStay
        /\ out \in commitments' /\ commitmentAmounts'[out] = inputs.noteAmount - call.gross
      BY <1>2, <2>1, <2>2, AmountRecorded
  <2> QED BY <1>4, <2>3 DEF MoneyOK, LegacyTypeOK
<1> QED BY <1>5, <1>6

(* The controller, forced ether and time touch neither tree nor amounts.   *)
LEMMA ControllerKeepsRecords ==
    ASSUME LegacyTypeOK, BalanceCovers,
           ControllerStep \/ (\E amount \in 1..MaxDisturbed : ForceEther(amount)) \/ TimePasses
    PROVE  LegacyTypeOK' /\ BalanceCovers' /\ AmountsStay
<1>1. UNCHANGED <<leaves, commitmentAmounts>>
    BY DEF ControllerStep, LegacySweepFees, LegacyRecoverExcess, LegacyPause, ForceEther, TimePasses
<1>2. MoneyOK'
  <2> USE DEF MoneyOK, BalanceCovers, LegacyTypeOK
  <2>1. ASSUME NEW amount \in Int, LegacySweepFees(amount) PROVE MoneyOK'
      BY <2>1 DEF LegacySweepFees
  <2>2. ASSUME NEW amount \in Int, LegacyRecoverExcess(amount) PROVE MoneyOK'
      BY <2>2 DEF LegacyRecoverExcess, ExcessBalance
  <2>3. ASSUME NEW switch, NEW on, LegacyPause(switch, on) PROVE MoneyOK'
      BY <2>3 DEF LegacyPause, accounting
  <2>4. ASSUME NEW amount \in Nat, ForceEther(amount) PROVE MoneyOK'
      BY <2>4 DEF ForceEther
  <2>5. CASE TimePasses
      BY <2>5 DEF TimePasses, accounting
  <2>6. ControllerStep => MoneyOK'
      BY <2>1, <2>2, <2>3 DEF ControllerStep
  <2>7. (\E amount \in 1..MaxDisturbed : ForceEther(amount)) => MoneyOK'
      BY <2>4
  <2> QED BY <2>5, <2>6, <2>7
<1> QED BY <1>1, <1>2, NothingRecorded DEF MoneyOK, LegacyTypeOK

(* Planning a spend touches nothing of the pool. *)
LEMMA OwnersLeavePool == ASSUME OwnersStep PROVE UNCHANGED poolVars
<1>1. ASSUME NEW p, Prove(p) PROVE UNCHANGED poolVars
    BY <1>1 DEF Prove
<1>2. ASSUME NEW leaf, NEW out, NEW gross, NEW destination, NEW cipher,
             \/ SdkPlans(leaf, out, gross, destination, cipher)
             \/ WebPlans(leaf, out, gross, destination, cipher)
      PROVE  UNCHANGED poolVars
    BY <1>1, <1>2 DEF SdkPlans, WebPlans
<1>3. ASSUME NEW d, NEW selector, NEW leaf, NEW out, NEW gross, NEW destination, NEW note,
             NEW policy, OwnerPlans(d, selector, leaf, out, gross, destination, note, policy)
      PROVE  UNCHANGED poolVars
    BY <1>1, <1>3 DEF OwnerPlans
<1> QED BY <1>2, <1>3 DEF OwnersStep

(* Every step keeps the types, the coverage and the recorded amounts. *)
LEMMA RecordsStep ==
    ASSUME LegacyTypeOK, BalanceCovers, LegacyPlansWellFormed, [LegacyNext]_allVars
    PROVE  LegacyTypeOK' /\ BalanceCovers' /\ AmountsStay
<1>1. CASE UNCHANGED poolVars
  <2>1. UNCHANGED <<leaves, commitmentAmounts>> /\ UNCHANGED accounting
      BY <1>1 DEF poolVars
  <2>2. MoneyOK /\ (MoneyOK => MoneyOK')
      BY <2>1 DEF MoneyOK, BalanceCovers, LegacyTypeOK, accounting
  <2> QED BY <2>1, <2>2, NothingRecorded DEF MoneyOK, LegacyTypeOK
<1>2. ASSUME NEW c \in Commitments, NEW value \in Denominations, NEW note,
             SubmitDeposit(c, value, note)
      PROVE  LegacyTypeOK' /\ BalanceCovers' /\ AmountsStay
    BY <1>2, DepositKeepsRecords DEF SubmitDeposit
<1>3. CASE OwnersStep
    BY <1>1, <1>3, OwnersLeavePool
<1>4. ASSUME NEW p, NEW inputs, SdkBuilds(p, inputs) \/ WebBuilds(p, inputs)
      PROVE  UNCHANGED poolVars
    BY <1>4 DEF SdkBuilds, WebBuilds
<1>5. ASSUME NEW selector, NEW call \in TransferCalls(selector), NEW sender,
             SubmitTransfer(call, sender)
      PROVE  LegacyTypeOK' /\ BalanceCovers' /\ AmountsStay
    BY <1>5, TransferCallFields, TransferKeepsRecords DEF SubmitTransfer
<1>6. ASSUME NEW call, NEW sender, SubmitWithdraw(call, sender)
      PROVE  LegacyTypeOK' /\ BalanceCovers' /\ AmountsStay
  <2>1. call.inputs.newCommitment \in Commitments \cup {NoCommitment}
      BY <1>6 DEF SubmitWithdraw, WithdrawAccepted, VerifyProof, LegacyPlansWellFormed,
         LegacyPlan, SpendInputs
  <2> QED BY <1>6, <2>1, WithdrawKeepsRecords DEF SubmitWithdraw
<1>7. ASSUME NEW call, NEW deadline, RelayAdmits(call, deadline) PROVE UNCHANGED poolVars
    BY <1>7 DEF RelayAdmits
<1>8. CASE ControllerStep \/ (\E amount \in 1..MaxDisturbed : ForceEther(amount)) \/ TimePasses
    BY <1>8, ControllerKeepsRecords
<1> QED BY <1>1, <1>2, <1>3, <1>4, <1>5, <1>6, <1>7, <1>8, Zenon DEF LegacyNext, allVars

-----------------------------------------------------------------------------
(* The notes are accounted for.                                            *)

(* The leaves of l without a mark in N. *)
Unmarked(l, N) == {l[i] : i \in {j \in DOMAIN l : Nullifier(j - 1, Here) \notin N}}

Injects(l) == \A i, j \in DOMAIN l : l[i] = l[j] => i = j

LEMMA MarksDiffer ==
    ASSUME NEW i \in Int, NEW j \in Int, Nullifier(i, Here) = Nullifier(j, Here) PROVE i = j
BY DEF Nullifier

LEMMA UnmarkedFinite ==
    ASSUME NEW l \in Seq(Commitments), NEW N
    PROVE  Unmarked(l, N) \subseteq Commitments /\ IsFiniteSet(Unmarked(l, N))
<1>1. DOMAIN l = 1..Len(l) /\ Len(l) \in Nat /\ \A i \in DOMAIN l : l[i] \in Commitments
    OBVIOUS
<1>2. IsFiniteSet(DOMAIN l)
    BY <1>1, FS_Interval
<1> DEFINE T == {l[i] : i \in DOMAIN l}
           f == [i \in DOMAIN l |-> l[i]]
<1>3. f \in Surjection(DOMAIN l, T)
    BY DEF Surjection
<1>4. IsFiniteSet(T)
  <2> HIDE DEF f, T
  <2> QED BY <1>2, <1>3, FS_Surjection
<1>5. Unmarked(l, N) \in SUBSET T /\ T \subseteq Commitments
    BY <1>1 DEF Unmarked
<1> HIDE DEF T
<1> QED BY <1>4, <1>5, FS_Subset

(* Unspent, when no commitment is in the tree twice. *)
LEMMA UnspentUnmarked ==
    ASSUME NEW l, NEW N, Injects(l)
    PROVE  {c \in Range(l) : \A i \in DOMAIN l : l[i] = c => Nullifier(i - 1, Here) \notin N}
              = Unmarked(l, N)
BY DEF Injects, Unmarked, Range

(* A mark takes one note away ... *)
LEMMA MarkTakesNote ==
    ASSUME NEW l \in Seq(Commitments), Injects(l), NEW N, NEW leaf \in 0..(Len(l) - 1),
           NEW mark, mark = Nullifier(leaf, Here), mark \notin N
    PROVE  /\ l[leaf + 1] \in Unmarked(l, N)
           /\ Unmarked(l, N \cup {mark}) = Unmarked(l, N) \ {l[leaf + 1]}
<1>1. leaf + 1 \in DOMAIN l /\ (leaf + 1) - 1 = leaf /\ DOMAIN l = 1..Len(l) /\ Len(l) \in Nat
    OBVIOUS
<1>2. l[leaf + 1] \in Unmarked(l, N)
    BY <1>1 DEF Unmarked
<1>3. \A j \in DOMAIN l : Nullifier(j - 1, Here) = mark <=> j = leaf + 1
    BY <1>1, MarksDiffer
<1>4. \A j \in DOMAIN l : l[j] = l[leaf + 1] <=> j = leaf + 1
    BY <1>1 DEF Injects
<1>5. ASSUME NEW c
      PROVE  c \in Unmarked(l, N \cup {mark}) <=> c \in Unmarked(l, N) \ {l[leaf + 1]}
    BY <1>3, <1>4 DEF Unmarked
<1> QED BY <1>2, <1>5

(* ... and an insertion adds one, unless it was marked before. *)
LEMMA LeafAddsNote ==
    ASSUME NEW l \in Seq(Commitments), Injects(l), NEW c \in Commitments, c \notin Range(l),
           NEW N, Nullifier(Len(l), Here) \notin N
    PROVE  /\ Injects(Append(l, c))
           /\ c \notin Unmarked(l, N)
           /\ Unmarked(Append(l, c), N) = Unmarked(l, N) \cup {c}
<1> DEFINE m == Append(l, c)
           n == Len(l)
<1>1. /\ n \in Nat /\ DOMAIN l = 1..n /\ DOMAIN m = 1..(n + 1)
      /\ m[n + 1] = c /\ \A i \in 1..n : m[i] = l[i]
    OBVIOUS
<1>2. \A i \in 1..n : l[i] # c
    BY <1>1 DEF Range
<1> HIDE DEF m
<1>3. Injects(m)
    BY <1>1, <1>2 DEF Injects
<1>4. c \notin Unmarked(l, N)
    BY <1>1, <1>2 DEF Unmarked
<1>5. (n + 1) - 1 = n
    BY <1>1
<1>6. ASSUME NEW x PROVE x \in Unmarked(m, N) <=> x \in Unmarked(l, N) \cup {c}
  <2>1. x \in Unmarked(m, N) <=> \E j \in 1..(n + 1) : Nullifier(j - 1, Here) \notin N /\ x = m[j]
      BY <1>1 DEF Unmarked
  <2>2. x \in Unmarked(l, N) <=> \E j \in 1..n : Nullifier(j - 1, Here) \notin N /\ x = l[j]
      BY <1>1 DEF Unmarked
  <2>3. \A j : j \in 1..(n + 1) <=> j \in 1..n \/ j = n + 1
      BY <1>1
  <2> HIDE DEF n
  <2>4. Nullifier((n + 1) - 1, Here) \notin N
      BY <1>5 DEF n
  <2> QED BY <1>1, <2>1, <2>2, <2>3, <2>4
<1> QED BY <1>3, <1>4, <1>6 DEF m

(* The sum of NotesAccounted. *)
LEMMA NotesTotal ==
    ASSUME NEW U, NEW S PROVE MapThenSumSet(LAMBDA c : U[c], S) = Total(U, S)
BY DEF MapThenSumSet, MapThenFoldSet, Total, SumsOver, Sums, NextElement

(* A sum, when the value of another element changes. *)
LEMMA AnotherAmount ==
    ASSUME NEW U, NEW c, NEW a \in Int, NEW S, IsFiniteSet(S), c \notin S, c \in DOMAIN U,
           \A i \in S : U[i] \in Int
    PROVE  /\ Total([U EXCEPT ![c] = a], S) = Total(U, S)
           /\ Total([U EXCEPT ![c] = a], S \cup {c}) = Total(U, S) + a
<1> DEFINE V == [U EXCEPT ![c] = a]
<1>1. \A i \in S : V[i] = U[i]
    OBVIOUS
<1>2. V[c] = a /\ \A i \in S \cup {c} : V[i] \in Int
    BY <1>1
<1> HIDE DEF V
<1>3. Total(V, S) = Total(U, S)
    BY <1>1, TotalSame
<1>4. Total(V, S \cup {c}) = Total(V, S) + V[c]
    BY <1>2, TotalWith
<1> QED BY <1>2, <1>3, <1>4 DEF V

-----------------------------------------------------------------------------
(* What the accounting leaves for the notes. *)
Principal == totalDepositedAccounting - totalWithdrawnAccounting - accruedProtocolFees

MarksInTree == \A x \in nullifiers : \E i \in 0..(Len(leaves) - 1) : x = Nullifier(i, Here)

PlansInTree ==
    \A p \in plans : p.leaf \in 0..(Len(leaves) - 1) /\ p.spent = leaves[p.leaf + 1]

(* No commitment is in the tree twice, every mark is one of a leaf, every  *)
(* plan spends the leaf it names, and the recorded amounts of the leaves   *)
(* without a mark add up to what the accounting leaves for them.           *)
NotesInv ==
    /\ Injects(leaves)
    /\ MarksInTree
    /\ PlansInTree
    /\ Total(commitmentAmounts, Unmarked(leaves, nullifiers)) = Principal

LEMMA NotesInvAccounts == NotesInv => NotesAccounted
<1> SUFFICES ASSUME NotesInv PROVE NotesAccounted
    OBVIOUS
<1>1. Unspent = Unmarked(leaves, nullifiers)
    BY UnspentUnmarked DEF NotesInv, Unspent, commitments
<1>2. MapThenSumSet(LAMBDA c : commitmentAmounts[c], Unspent) = Total(commitmentAmounts, Unspent)
    BY NotesTotal
<1> QED BY <1>1, <1>2 DEF NotesInv, NotesAccounted, Principal

(* The amounts of the unmarked leaves. *)
LEMMA UnmarkedAmounts ==
    ASSUME LegacyTypeOK, NEW N
    PROVE  LET S == Unmarked(leaves, N)
           IN  /\ IsFiniteSet(S) /\ \A c \in S : commitmentAmounts[c] \in Int
               /\ Total(commitmentAmounts, S) \in Int
               /\ Principal \in Int
<1> DEFINE S == Unmarked(leaves, N)
<1>1. leaves \in Seq(Commitments) /\ commitmentAmounts \in [Commitments -> Int]
    BY DEF LegacyTypeOK
<1>2. S \subseteq Commitments /\ IsFiniteSet(S)
    BY <1>1, UnmarkedFinite
<1>3. \A c \in S : commitmentAmounts[c] \in Int
    BY <1>1, <1>2
<1>4. Principal \in Int
    BY DEF Principal, LegacyTypeOK
<1> HIDE DEF S
<1>5. Total(commitmentAmounts, S) \in Int
    BY <1>2, <1>3, TotalType, Zenon
<1> QED BY <1>2, <1>3, <1>4, <1>5 DEF S

(* Without a spend and without a new leaf. *)
LEMMA NotesLeftAlone ==
    ASSUME NotesInv, UNCHANGED <<leaves, nullifiers, commitmentAmounts>>, Principal' = Principal,
           \A p \in plans' : p \in plans \/ (p.leaf \in 0..(Len(leaves) - 1) /\ p.spent = leaves[p.leaf + 1])
    PROVE  NotesInv'
BY DEF NotesInv, MarksInTree, PlansInTree

(* A mark takes the amount of its note away. *)
LEMMA MarkedTotal ==
    ASSUME LegacyTypeOK, NotesInv, NEW leaf \in 0..(Len(leaves) - 1), NEW mark,
           mark = Nullifier(leaf, Here), mark \notin nullifiers
    PROVE  /\ Total(commitmentAmounts, Unmarked(leaves, nullifiers \cup {mark}))
                 = Principal - commitmentAmounts[leaves[leaf + 1]]
           /\ \A x \in nullifiers \cup {mark} : \E i \in 0..(Len(leaves) - 1) : x = Nullifier(i, Here)
<1> DEFINE S == Unmarked(leaves, nullifiers)
           R == Unmarked(leaves, nullifiers \cup {mark})
           U == commitmentAmounts
           x == leaves[leaf + 1]
<1>1. leaves \in Seq(Commitments) /\ Injects(leaves)
    BY DEF LegacyTypeOK, NotesInv
<1>2. x \in S /\ R = S \ {x}
    BY <1>1, MarkTakesNote
<1>3. /\ IsFiniteSet(S) /\ \A c \in S : U[c] \in Int
      /\ Total(U, S) = Principal /\ Total(U, R) \in Int /\ Principal \in Int
    BY UnmarkedAmounts DEF NotesInv
<1>4. \A y \in nullifiers \cup {mark} : \E i \in 0..(Len(leaves) - 1) : y = Nullifier(i, Here)
    BY DEF NotesInv, MarksInTree
<1> HIDE DEF S, R, U, x
<1>5. Total(U, S) = U[x] + Total(U, R) /\ U[x] \in Int
    BY <1>2, <1>3, TotalWithout
<1>6. Total(U, R) = Principal - U[x]
    BY <1>3, <1>5
<1> QED BY <1>4, <1>6 DEF R, U, x

(* A full exit: the note is marked, and its amount leaves the accounting.  *)
LEMMA NoteLeaves ==
    ASSUME LegacyTypeOK, NotesInv, NEW leaf \in 0..(Len(leaves) - 1), NEW mark,
           mark = Nullifier(leaf, Here), mark \notin nullifiers,
           nullifiers' = nullifiers \cup {mark},
           UNCHANGED <<leaves, commitmentAmounts, plans>>,
           Principal' = Principal - commitmentAmounts[leaves[leaf + 1]]
    PROVE  NotesInv'
<1>1. /\ Total(commitmentAmounts, Unmarked(leaves, nullifiers \cup {mark})) = Principal'
      /\ \A x \in nullifiers \cup {mark} : \E i \in 0..(Len(leaves) - 1) : x = Nullifier(i, Here)
    BY MarkedTotal
<1> QED BY <1>1 DEF NotesInv, MarksInTree, PlansInTree

(* A new leaf gets a note that is not marked: marks are of leaves that     *)
(* were there before. M is what is marked after the step.                  *)
LEMMA NoteArrives ==
    ASSUME LegacyTypeOK, NotesInv, NEW M,
           \A x \in M : \E i \in 0..(Len(leaves) - 1) : x = Nullifier(i, Here),
           NEW c \in Commitments, c \notin commitments, NEW a \in Int,
           RecordCommitment(c), commitmentAmounts' = [commitmentAmounts EXCEPT ![c] = a],
           nullifiers' = M, UNCHANGED plans,
           Principal' = Total(commitmentAmounts, Unmarked(leaves, M)) + a
    PROVE  NotesInv'
<1> DEFINE S == Unmarked(leaves, M)
           U == commitmentAmounts
           T == Unmarked(Append(leaves, c), M)
           V == [U EXCEPT ![c] = a]
<1>1. leaves \in Seq(Commitments) /\ Injects(leaves) /\ c \notin Range(leaves)
    BY DEF LegacyTypeOK, NotesInv, commitments
<1>2. Nullifier(Len(leaves), Here) \notin M
  <2>1. Len(leaves) \in Nat
      BY <1>1
  <2> QED BY <2>1, MarksDiffer
<1>3. Injects(Append(leaves, c)) /\ c \notin S /\ T = S \cup {c}
    BY <1>1, <1>2, LeafAddsNote
<1>4. leaves' = Append(leaves, c)
    BY DEF RecordCommitment
<1>5. /\ Len(leaves) \in Nat /\ Len(leaves') = Len(leaves) + 1
      /\ \A i \in 1..Len(leaves) : leaves'[i] = leaves[i]
    BY <1>1, <1>4
<1>6. MarksInTree' /\ PlansInTree' /\ Injects(leaves)'
    BY <1>3, <1>4, <1>5 DEF NotesInv, MarksInTree, PlansInTree
<1>7. IsFiniteSet(S) /\ \A d \in S : U[d] \in Int
    BY UnmarkedAmounts
<1>8. c \in DOMAIN U
    BY DEF LegacyTypeOK
<1>9. Total(commitmentAmounts, Unmarked(leaves, nullifiers))' = Total(V, T)
    BY <1>4
<1>10. Total(V, S \cup {c}) = Total(U, S) + a
  <2> HIDE DEF S, U
  <2> QED BY <1>3, <1>7, <1>8, AnotherAmount
<1> HIDE DEF T, V
<1> QED BY <1>3, <1>6, <1>9, <1>10 DEF NotesInv

-----------------------------------------------------------------------------
(* Public inputs that verify and are bound to this deployment spend a leaf *)
(* of its tree.                                                            *)
LEMMA SpentLeaf ==
    ASSUME LegacyPlansWellFormed, PlansInTree, NEW inputs, VerifyProof(inputs),
           NEW shape, NEW selector, NEW noteAmount, NEW note, NEW destination, NEW gross, NEW fee,
           NEW policy,
           Bindings(inputs, shape, selector, noteAmount, note, destination, gross, fee, policy)
    PROVE  \E leaf \in 0..(Len(leaves) - 1) :
              inputs.nullifier = Nullifier(leaf, Here) /\ inputs.spentCommitment = leaves[leaf + 1]
<1>1. PICK p \in plans : SpendInputs(p) = inputs /\ p.deployment = Here
    BY BoundSpendIsPlanned
<1>2. inputs.nullifier = Nullifier(p.leaf, Here) /\ inputs.spentCommitment = p.spent
    BY <1>1 DEF SpendInputs, PlanNullifier
<1> QED BY <1>1, <1>2 DEF PlansInTree

LEMMA DepositKeepsNotes ==
    ASSUME LegacyTypeOK, NotesInv, NEW c \in Commitments, NEW value \in Denominations, NEW note,
           LegacyDeposit(c, value, note), UNCHANGED plans
    PROVE  NotesInv'
<1>1. value \in Int
    BY LegacyAssumption
<1>2. /\ c \notin commitments /\ RecordCommitment(c) /\ nullifiers' = nullifiers
      /\ commitmentAmounts' = [commitmentAmounts EXCEPT ![c] = value]
    BY DEF LegacyDeposit
<1>3. Principal' = Principal + value
    BY <1>1 DEF LegacyDeposit, Principal, LegacyTypeOK
<1>4. /\ \A x \in nullifiers : \E i \in 0..(Len(leaves) - 1) : x = Nullifier(i, Here)
      /\ Total(commitmentAmounts, Unmarked(leaves, nullifiers)) = Principal
    BY DEF NotesInv, MarksInTree
<1> QED BY <1>1, <1>2, <1>3, <1>4, NoteArrives

LEMMA TransferKeepsNotes ==
    ASSUME LegacyTypeOK, NotesInv, LegacyPlansWellFormed, NEW selector,
           NEW call \in TransferCalls(selector), NEW sender, SubmitTransfer(call, sender)
    PROVE  NotesInv'
<1> DEFINE inputs == call.inputs
           note == OverloadNote(call)
           policy == OverloadPolicy(call)
           M == nullifiers \cup {call.nullifier}
<1>1. /\ VerifyProof(inputs)
      /\ LegacyTransferAccepted(call, policy, note, sender)
      /\ LegacyPrivateTransfer(call, policy, note, sender)
      /\ UNCHANGED plans
    BY DEF SubmitTransfer, TransferAccepted
<1>2. /\ Bindings(inputs, TRANSFER_SHAPE_V1_1, call.selector, inputs.noteAmount, note,
                  ZeroAddress, 0, 0, policy)
      /\ inputs.nullifier = call.nullifier /\ call.nullifier \notin nullifiers
      /\ inputs.spentCommitment \in commitments
      /\ commitmentAmounts[inputs.spentCommitment] = inputs.noteAmount
      /\ call.newCommitment \notin commitments
    BY <1>1 DEF LegacyTransferAccepted, LegacyTransferInputs, LegacyInputsCommon,
       SpentCommitmentAmount
<1>3. /\ nullifiers' = M /\ RecordCommitment(call.newCommitment)
      /\ commitmentAmounts' = [commitmentAmounts EXCEPT ![call.newCommitment] = inputs.noteAmount]
      /\ UNCHANGED accounting
    BY <1>1 DEF LegacyPrivateTransfer
<1>4. PICK leaf \in 0..(Len(leaves) - 1) :
         inputs.nullifier = Nullifier(leaf, Here) /\ inputs.spentCommitment = leaves[leaf + 1]
    BY <1>1, <1>2, SpentLeaf DEF NotesInv
<1>5. /\ Total(commitmentAmounts, Unmarked(leaves, M)) = Principal - inputs.noteAmount
      /\ \A x \in M : \E i \in 0..(Len(leaves) - 1) : x = Nullifier(i, Here)
    BY <1>2, <1>4, MarkedTotal
<1>6. inputs.noteAmount \in Int /\ Principal \in Int
  <2>1. Principal \in Int
      BY DEF LegacyTypeOK, Principal
  <2>2. inputs.noteAmount \in Int
      BY <1>2 DEF LegacyTypeOK, commitments, Range
  <2> QED BY <2>1, <2>2
<1>7. Principal' = Principal
    BY <1>3 DEF accounting, Principal
<1>8. call.newCommitment \in Commitments
    BY TransferCallFields
<1> HIDE DEF M
<1>9. Principal' = Total(commitmentAmounts, Unmarked(leaves, M)) + inputs.noteAmount
    BY <1>5, <1>6, <1>7
<1> QED BY <1>1, <1>2, <1>3, <1>5, <1>6, <1>8, <1>9, NoteArrives

LEMMA WithdrawKeepsNotes ==
    ASSUME LegacyTypeOK, NotesInv, LegacyPlansWellFormed, NEW call, NEW sender,
           SubmitWithdraw(call, sender)
    PROVE  NotesInv'
<1> DEFINE inputs == call.inputs
           note == OverloadNote(call)
           policy == OverloadPolicy(call)
           M == nullifiers \cup {call.nullifier}
           out == inputs.newCommitment
<1>1. /\ VerifyProof(inputs)
      /\ LegacyWithdrawAccepted(call, policy, note, sender)
      /\ LegacyWithdraw(call, policy, note, sender)
      /\ UNCHANGED plans
    BY DEF SubmitWithdraw, WithdrawAccepted
<1>2. /\ Bindings(inputs, WITHDRAW_SHAPE_V1_1, call.selector, BoundAmount(inputs), note,
                  call.destination, call.gross, FeeOf(call.gross), policy)
      /\ inputs.nullifier = call.nullifier /\ call.nullifier \notin nullifiers
      /\ ExitShape(inputs, call.gross, note)
    BY <1>1 DEF LegacyWithdrawAccepted, LegacyWithdrawInputs, LegacyInputsCommon
<1>3. /\ commitmentAmounts[inputs.spentCommitment] = inputs.noteAmount
      /\ out \notin commitments
      /\ call.gross \in Nat \ {0} /\ inputs.noteAmount \in Nat \ {0}
    BY <1>1, WithdrawalAmounts
<1>4. FeeOf(call.gross) \in Nat
    BY <1>3, LegacyFeeBound
<1>5. PICK leaf \in 0..(Len(leaves) - 1) :
         inputs.nullifier = Nullifier(leaf, Here) /\ inputs.spentCommitment = leaves[leaf + 1]
    BY <1>1, <1>2, SpentLeaf DEF NotesInv
<1>6. /\ Total(commitmentAmounts, Unmarked(leaves, M)) = Principal - inputs.noteAmount
      /\ \A x \in M : \E i \in 0..(Len(leaves) - 1) : x = Nullifier(i, Here)
    BY <1>2, <1>3, <1>5, MarkedTotal
<1>7. Principal' = Principal - call.gross /\ Principal \in Int
  <2>1. /\ accruedProtocolFees' = accruedProtocolFees + FeeOf(call.gross)
        /\ totalWithdrawnAccounting' = totalWithdrawnAccounting + (call.gross - FeeOf(call.gross))
        /\ totalDepositedAccounting' = totalDepositedAccounting
      BY <1>1 DEF LegacyWithdraw
  <2>2. /\ totalDepositedAccounting \in Int /\ totalWithdrawnAccounting \in Int
        /\ accruedProtocolFees \in Int
      BY DEF LegacyTypeOK
  <2> DEFINE fee == FeeOf(call.gross)
             g == call.gross
  <2>3. fee \in Int /\ g \in Int
      BY <1>3, <1>4
  <2> HIDE DEF fee, g
  <2>4. /\ accruedProtocolFees' = accruedProtocolFees + fee
        /\ totalWithdrawnAccounting' = totalWithdrawnAccounting + (g - fee)
      BY <2>1 DEF fee, g
  <2>5. Principal' = Principal - g /\ Principal \in Int
      BY <2>1, <2>2, <2>3, <2>4 DEF Principal
  <2> QED BY <2>5 DEF g
<1>8. nullifiers' = M
    BY <1>1 DEF LegacyWithdraw
<1>9. CASE out = NoCommitment
  <2>1. UNCHANGED <<leaves, commitmentAmounts>> /\ call.gross = inputs.noteAmount
      BY <1>1, <1>2, <1>9 DEF LegacyWithdraw, ChangeRecorded, ExitShape
  <2>2. Principal' = Principal - commitmentAmounts[leaves[leaf + 1]]
      BY <1>3, <1>5, <1>7, <2>1
  <2> QED BY <1>1, <1>2, <1>5, <1>8, <2>1, <2>2, NoteLeaves
<1>10. CASE out # NoCommitment
  <2> DEFINE a == inputs.noteAmount - call.gross
  <2>1. RecordCommitment(out) /\ commitmentAmounts' = [commitmentAmounts EXCEPT ![out] = a]
      BY <1>1, <1>10 DEF LegacyWithdraw, ChangeRecorded
  <2>2. out \in Commitments
      BY <1>1, <1>10 DEF VerifyProof, LegacyPlansWellFormed, LegacyPlan, SpendInputs
  <2>3. a \in Int
      BY <1>3
  <2>4. Principal' = Total(commitmentAmounts, Unmarked(leaves, M)) + a
    <3> HIDE DEF M
    <3> QED BY <1>3, <1>6, <1>7
  <2> HIDE DEF a, M
  <2> QED BY <1>1, <1>3, <1>6, <1>8, <2>1, <2>2, <2>3, <2>4, NoteArrives
<1> QED BY <1>9, <1>10

(* A plan spends a leaf that is in the tree. *)
LEMMA PlanKeepsNotes ==
    ASSUME NotesInv, NEW p, p.leaf \in 0..(Len(leaves) - 1), Prove(p) PROVE NotesInv'
<1>1. p.spent = leaves[p.leaf + 1] /\ plans' = plans \cup {p} /\ UNCHANGED poolVars
    BY DEF Prove, NoteInTree
<1>2. UNCHANGED <<leaves, nullifiers, commitmentAmounts>> /\ Principal' = Principal
    BY <1>1 DEF poolVars, accounting, Principal
<1> QED BY <1>1, <1>2, NotesLeftAlone

(* Every step keeps the notes accounted for. *)
LEMMA NotesStep ==
    ASSUME LegacyTypeOK, NotesInv, LegacyPlansWellFormed, [LegacyNext]_allVars
    PROVE  NotesInv'
<1>1. CASE UNCHANGED <<leaves, nullifiers, commitmentAmounts, plans>> /\ Principal' = Principal
    BY <1>1, NotesLeftAlone
<1>2. CASE UNCHANGED poolVars /\ UNCHANGED plans
  <2>1. UNCHANGED <<leaves, nullifiers, commitmentAmounts>> /\ Principal' = Principal
      BY <1>2 DEF poolVars, accounting, Principal
  <2> QED BY <1>1, <1>2, <2>1
<1>3. ASSUME NEW c \in Commitments, NEW value \in Denominations, NEW note,
             SubmitDeposit(c, value, note)
      PROVE  NotesInv'
    BY <1>3, DepositKeepsNotes DEF SubmitDeposit, bindingVars
<1>4. CASE OwnersStep
  <2>1. ASSUME NEW leaf \in 0..(Len(leaves) - 1), NEW out, NEW gross, NEW destination, NEW cipher,
               \/ SdkPlans(leaf, out, gross, destination, cipher)
               \/ WebPlans(leaf, out, gross, destination, cipher)
        PROVE  NotesInv'
      BY <2>1, PlanKeepsNotes DEF SdkPlans, WebPlans, WalletPlan
  <2>2. ASSUME NEW d, NEW selector, NEW leaf \in 0..(Len(leaves) - 1), NEW out, NEW gross,
               NEW destination, NEW note, NEW policy,
               OwnerPlans(d, selector, leaf, out, gross, destination, note, policy)
        PROVE  NotesInv'
      BY <2>2, PlanKeepsNotes DEF OwnerPlans
  <2> QED BY <1>4, <2>1, <2>2 DEF OwnersStep
<1>5. ASSUME NEW p, NEW inputs, SdkBuilds(p, inputs) \/ WebBuilds(p, inputs)
      PROVE  NotesInv'
    BY <1>2, <1>5 DEF SdkBuilds, WebBuilds
<1>6. ASSUME NEW call, NEW deadline, RelayAdmits(call, deadline) PROVE NotesInv'
    BY <1>2, <1>6 DEF RelayAdmits
<1>7. CASE /\ ControllerStep \/ (\E amount \in 1..MaxDisturbed : ForceEther(amount)) \/ TimePasses
           /\ UNCHANGED bindingVars
  <2>1. /\ UNCHANGED <<leaves, nullifiers, commitmentAmounts, plans>>
        /\ UNCHANGED <<totalDepositedAccounting, totalWithdrawnAccounting, accruedProtocolFees>>
      BY <1>7 DEF ControllerStep, LegacySweepFees, LegacyRecoverExcess, LegacyPause, ForceEther,
         TimePasses, accounting, bindingVars
  <2> QED BY <1>1, <2>1 DEF Principal
<1>8. CASE UNCHANGED allVars
    BY <1>2, <1>8 DEF allVars, bindingVars
<1>9. ASSUME NEW selector, NEW call \in TransferCalls(selector), NEW sender,
             SubmitTransfer(call, sender)
      PROVE  NotesInv'
    BY <1>9, TransferKeepsNotes
<1>10. ASSUME NEW call, NEW sender, SubmitWithdraw(call, sender) PROVE NotesInv'
    BY <1>10, WithdrawKeepsNotes
<1> QED BY <1>3, <1>4, <1>5, <1>6, <1>7, <1>8, <1>9, <1>10, Zenon DEF LegacyNext

LEMMA SolvencyInit ==
    LegacyBindingInit => LegacyTypeOK /\ BalanceCovers /\ LegacyPlansWellFormed /\ NotesInv
<1> SUFFICES ASSUME LegacyBindingInit
             PROVE  LegacyTypeOK /\ BalanceCovers /\ LegacyPlansWellFormed /\ NotesInv
    OBVIOUS
<1>1. LegacyPlansWellFormed
    BY DEF LegacyBindingInit, LegacyPlansWellFormed
<1>2. <<>> \in Seq(Commitments) /\ DOMAIN <<>> = {} /\ leaves = <<>>
    BY DEF LegacyBindingInit, LegacyInit
<1>3. Unmarked(leaves, nullifiers) = {} /\ Injects(leaves)
    BY <1>2 DEF Unmarked, Injects
<1>4. Total(commitmentAmounts, {}) = 0
    BY FS_EmptySet, TotalSteps
<1>5. Principal = 0 /\ MarksInTree /\ PlansInTree
    BY DEF LegacyBindingInit, LegacyInit, Principal, MarksInTree, PlansInTree
<1>6. NotesInv
    BY <1>3, <1>4, <1>5 DEF NotesInv
<1> QED BY <1>1, <1>2, <1>6 DEF LegacyBindingInit, LegacyInit, LegacyTypeOK, BalanceCovers

(* The v1.1 pool can pay every note: what it recorded for the notes that   *)
(* are not spent is what its accounting leaves for them, and its balance   *)
(* covers that and the unswept fees, over deposits of any value, transfers,*)
(* withdrawals, sweeps and recovered excess.                               *)
THEOREM LegacyPoolSolvent == LegacySpec => []LegacySolvent
<1> DEFINE Inv == LegacyTypeOK /\ BalanceCovers /\ LegacyPlansWellFormed /\ NotesInv
<1>1. LegacyBindingInit => Inv
    BY SolvencyInit
<1>2. Inv /\ [LegacyNext]_allVars => Inv'
    BY RecordsStep, LegacyPlansStep, NotesStep
<1>3. Inv => LegacySolvent
    BY NotesInvAccounts DEF LegacySolvent
<1> QED BY <1>1, <1>2, <1>3, PTL DEF LegacySpec

-----------------------------------------------------------------------------
(* What the indexer confirms.                                              *)

(* An executed withdrawal is bound to its inputs, and both its amounts are *)
(* recorded.                                                               *)
LEMMA NewWithdrawalRecorded ==
    ASSUME LegacyTypeOK, BalanceCovers, LegacyPlansWellFormed, NEW call, NEW sender,
           SubmitWithdraw(call, sender), NEW e, e = Execution(call, sender)
    PROVE  ExecutedBound(e)' /\ ExecutedRecorded(e)'
<1> DEFINE inputs == call.inputs
           policy == OverloadPolicy(call)
           note == OverloadNote(call)
<1>1. /\ LegacyWithdraw(call, policy, note, sender)
      /\ LegacyWithdrawAccepted(call, policy, note, sender)
      /\ VerifyProof(inputs) /\ plans' = plans
    BY DEF SubmitWithdraw, WithdrawAccepted
<1>2. e.call = call /\ e.note = note /\ e.fee = FeeOf(call.gross)
    BY DEF Execution
<1>3. PICK p \in plans : SpendInputs(p) = inputs
    BY <1>1 DEF VerifyProof
<1>4. inputs.newCommitment \in Commitments \cup {NoCommitment}
    BY <1>3 DEF LegacyPlansWellFormed, LegacyPlan, SpendInputs
<1>5. /\ AmountsStay
      /\ inputs.newCommitment # NoCommitment =>
            /\ inputs.newCommitment \in commitments'
            /\ commitmentAmounts'[inputs.newCommitment] = inputs.noteAmount - call.gross
    BY <1>1, <1>4, WithdrawKeepsRecords
<1>6. /\ inputs.spentCommitment \in commitments
      /\ commitmentAmounts[inputs.spentCommitment] = inputs.noteAmount
    BY <1>1, WithdrawalAmounts
<1>7. call.selector = WithdrawPolicy => note = EmptyNote
    BY DEF OverloadNote
<1>8. ExecutedRecorded(e)'
    BY <1>2, <1>5, <1>6 DEF ExecutedRecorded, AmountsStay
<1>9. /\ inputs.nullifier = call.nullifier
      /\ ExitShape(inputs, call.gross, note)
      /\ note # OversizedNote
      /\ Bindings(inputs, WITHDRAW_SHAPE_V1_1, call.selector, BoundAmount(inputs), note,
                  call.destination, call.gross, FeeOf(call.gross), policy)
      /\ inputs.destination = call.destination
      /\ inputs.grossAmount = call.gross
      /\ inputs.fee = FeeOf(call.gross)
      /\ inputs.chainId = Here.chainId /\ inputs.verifyingContract = Here.pool
    BY <1>1 DEF LegacyWithdrawAccepted, LegacyWithdrawInputs, LegacyInputsCommon
<1> HIDE DEF inputs, policy, note
<1>10. \E q \in plans' : SpendInputs(q) = inputs
    BY <1>1, <1>3
<1>11. ExecutedBound(e)'
    BY <1>2, <1>7, <1>9, <1>10 DEF ExecutedBound, inputs, policy, note
<1> QED BY <1>8, <1>11

(* And stays so. *)
LEMMA RecordedLasts ==
    ASSUME AmountsStay, plans \subseteq plans', NEW e, ExecutedBound(e), ExecutedRecorded(e)
    PROVE  ExecutedBound(e)' /\ ExecutedRecorded(e)'
<1>1. ExecutedRecorded(e)'
    BY DEF AmountsStay, ExecutedRecorded
<1>2. PICK p \in plans : SpendInputs(p) = e.call.inputs
    BY DEF ExecutedBound
<1>3. \E q \in plans' : SpendInputs(q) = e.call.inputs
    BY <1>2
<1>4. ExecutedBound(e)'
    BY <1>3 DEF ExecutedBound
<1> QED BY <1>1, <1>4

LEMMA WithdrawalsRecordedStep ==
    ASSUME LegacyTypeOK, BalanceCovers, LegacyPlansWellFormed, WithdrawalsRecorded,
           [LegacyNext]_allVars
    PROVE  WithdrawalsRecorded'
<1>1. AmountsStay /\ plans \subseteq plans'
    BY RecordsStep, LegacyPlansStep
<1>2. ASSUME NEW e \in executed, e.call.selector \in WithdrawSelectors
      PROVE  ExecutedBound(e)' /\ ExecutedRecorded(e)'
    BY <1>1, <1>2, RecordedLasts DEF WithdrawalsRecorded
<1>3. CASE UNCHANGED executed
    BY <1>2, <1>3 DEF WithdrawalsRecorded
<1>4. ASSUME NEW selector \in TransferSelectors, NEW call \in TransferCalls(selector),
             NEW sender \in Accounts, SubmitTransfer(call, sender)
      PROVE  WithdrawalsRecorded'
  <2>1. executed' = executed \cup {Execution(call, sender)}
      BY <1>4 DEF SubmitTransfer
  <2>2. Execution(call, sender).call.selector = selector
      BY TransferCallFields DEF Execution
  <2>3. selector \notin WithdrawSelectors
      BY DEF TransferSelectors, WithdrawSelectors, Transfer, TransferNote,
         TransferNotePolicy, Withdraw, WithdrawNote, WithdrawBounds, WithdrawNoteBounds,
         WithdrawPolicy, WithdrawNotePolicy
  <2> QED BY <1>2, <2>1, <2>2, <2>3 DEF WithdrawalsRecorded
<1>5. ASSUME NEW call, NEW sender, SubmitWithdraw(call, sender)
      PROVE  WithdrawalsRecorded'
  <2>1. executed' = executed \cup {Execution(call, sender)}
      BY <1>5 DEF SubmitWithdraw
  <2>2. ASSUME NEW e, e = Execution(call, sender)
        PROVE  ExecutedBound(e)' /\ ExecutedRecorded(e)'
      BY <1>5, <2>2, NewWithdrawalRecorded
  <2> QED BY <1>2, <2>1, <2>2 DEF WithdrawalsRecorded
<1> QED BY <1>3, <1>4, <1>5, ExecutedStep

(* What packages/core hashes of a note and of a context is what the pool   *)
(* hashes of a withdrawal.                                                 *)
LEMMA CoreHashes ==
    /\ \A d, f, n, c, a, b :
          CoreNoteHash(d, f, n, c, a, b) = LegacyNoteHash(d, WITHDRAW_SHAPE_V1_1, f, n, c, a, b)
    /\ \A d, f, r, n, a, g, w, h, p :
          CoreContextHash(d, f, r, n, a, g, w, h, CorePolicyHash(p), p.deadlineOrZero)
            = LegacyContextHash(d, WITHDRAW_SHAPE_V1_1, f, r, n, a, g, w, h, p)
BY DEF CoreNoteHash, LegacyNoteHash, CoreContextHash, CorePolicyHash, LegacyContextHash,
   LegacyPolicyHash

(* The fields of a claim, and the one claim that is true. *)
LEMMA ClaimFields ==
    ASSUME NEW e, NEW n, NEW g, NEW c, NEW f, NEW d
    PROVE  LET claim == ClaimOf(e, n, g, c, f, d) IN
           /\ claim.noteAmount = n /\ claim.gross = g /\ claim.change = c /\ claim.fee = f
           /\ claim.destination = d
           /\ claim.commitment = e.call.inputs.newCommitment /\ claim.nullifier = e.call.nullifier
           /\ claim.note = e.note
BY DEF ClaimOf, TrueClaim

LEMMA TrueClaimIsOne ==
    ASSUME NEW e
    PROVE  ClaimOf(e, e.call.inputs.noteAmount, e.call.gross,
                   e.call.inputs.noteAmount - e.call.gross, e.fee, e.call.destination)
              = TrueClaim(e)
<1> DEFINE T == TrueClaim(e)
<1>1. /\ T.noteAmount = e.call.inputs.noteAmount /\ T.gross = e.call.gross
      /\ T.change = e.call.inputs.noteAmount - e.call.gross /\ T.fee = e.fee
      /\ T.destination = e.call.destination
    BY DEF TrueClaim
<1>2. T = [x \in DOMAIN T |-> T[x]]
    BY DEF TrueClaim
<1> HIDE DEF T
<1>3. [T EXCEPT !.noteAmount = T.noteAmount, !.gross = T.gross, !.change = T.change,
                !.fee = T.fee, !.destination = T.destination] = T
    BY <1>2
<1>4. ClaimOf(e, T.noteAmount, T.gross, T.change, T.fee, T.destination) = T
    BY <1>3 DEF ClaimOf, T
<1> QED BY <1>1, <1>4 DEF T

LEMMA TrueClaimFields ==
    ASSUME NEW e
    PROVE  LET claim == TrueClaim(e) IN
           /\ claim.noteAmount = e.call.inputs.noteAmount /\ claim.gross = e.call.gross
           /\ claim.change = e.call.inputs.noteAmount - e.call.gross /\ claim.fee = e.fee
           /\ claim.destination = e.call.destination
           /\ claim.commitment = e.call.inputs.newCommitment /\ claim.nullifier = e.call.nullifier
           /\ claim.note = e.note /\ claim.root = e.call.inputs.root
           /\ claim.policy = OverloadPolicy(e.call)
BY DEF TrueClaim

(* A claim whose change note hashes to what the proof committed to has the *)
(* change that was recorded, and with the context it is the true claim.    *)
LEMMA ConfirmedChange ==
    ASSUME NEW e, ExecutedBound(e), ExecutedRecorded(e), WithChange(e), NEW claim \in Claims(e),
           NEW withContext \in BOOLEAN,
           IndexerConfirmsChange(claim, e.call.inputs, ChangeEvent(e), withContext)
    PROVE  /\ claim.change = commitmentAmounts[claim.commitment]
           /\ withContext => claim = TrueClaim(e)
<1> DEFINE inputs == e.call.inputs
<1>1. PICK n, g, c, f, d : claim = ClaimOf(e, n, g, c, f, d)
    BY DEF Claims
<1>2. /\ claim.noteAmount = n /\ claim.gross = g /\ claim.change = c /\ claim.fee = f
      /\ claim.destination = d
      /\ claim.commitment = inputs.newCommitment /\ claim.nullifier = e.call.nullifier
      /\ claim.note = e.note
    BY <1>1, ClaimFields
<1>3. /\ inputs.encryptedNoteHash
            = LegacyNoteHash(Here, WITHDRAW_SHAPE_V1_1, e.call.selector, inputs.nullifier,
                             inputs.newCommitment, BoundAmount(inputs), e.note)
      /\ inputs.proofContextHash
            = LegacyContextHash(Here, WITHDRAW_SHAPE_V1_1, e.call.selector, inputs.root,
                                inputs.nullifier, e.call.destination, e.call.gross, e.fee,
                                inputs.encryptedNoteHash, OverloadPolicy(e.call))
      /\ inputs.newCommitment # NoCommitment
    BY DEF ExecutedBound, Bindings, WithChange
<1>4. /\ inputs.encryptedNoteHash
            = LegacyNoteHash(Here, WITHDRAW_SHAPE_V1_1, WithdrawNoteBounds, claim.nullifier,
                             claim.commitment, claim.change, claim.note)
      /\ n = g + c
      /\ n \in Nat /\ g \in Nat /\ c \in Nat
    BY <1>2, CoreHashes, LegacyAssumption
       DEF IndexerConfirmsChange, IndexerChangeNoteHash, IndexerChangeShape
<1>5. c = BoundAmount(inputs)
  <2>1. LegacyNoteHash(Here, WITHDRAW_SHAPE_V1_1, e.call.selector, inputs.nullifier,
                       inputs.newCommitment, BoundAmount(inputs), e.note)
          = LegacyNoteHash(Here, WITHDRAW_SHAPE_V1_1, WithdrawNoteBounds, claim.nullifier,
                           claim.commitment, claim.change, claim.note)
      BY <1>3, <1>4
  <2> QED BY <1>2, <2>1, NoteHashInjective
<1>6. BoundAmount(inputs) = inputs.noteAmount - e.call.gross
    BY <1>3 DEF BoundAmount, ExecutedBound
<1>7. claim.change = commitmentAmounts[claim.commitment]
    BY <1>2, <1>3, <1>5, <1>6 DEF ExecutedRecorded
<1>8. ASSUME withContext PROVE claim = TrueClaim(e)
  <2>1. inputs.proofContextHash
            = LegacyContextHash(Here, WITHDRAW_SHAPE_V1_1, WithdrawNoteBounds, claim.root,
                                claim.nullifier, claim.destination, claim.gross, claim.fee,
                                IndexerChangeNoteHash(claim), claim.policy)
      BY <1>8, CoreHashes DEF IndexerConfirmsChange, IndexerContextMatches
  <2>2. LegacyContextHash(Here, WITHDRAW_SHAPE_V1_1, e.call.selector, inputs.root,
                          inputs.nullifier, e.call.destination, e.call.gross, e.fee,
                          inputs.encryptedNoteHash, OverloadPolicy(e.call))
          = LegacyContextHash(Here, WITHDRAW_SHAPE_V1_1, WithdrawNoteBounds, claim.root,
                              claim.nullifier, claim.destination, claim.gross, claim.fee,
                              IndexerChangeNoteHash(claim), claim.policy)
      BY <1>3, <2>1
  <2>3. g = e.call.gross /\ f = e.fee /\ d = e.call.destination
      BY <1>2, <2>2, ContextHashInjective
  <2>4. inputs.noteAmount \in Nat
      BY LegacyAssumption DEF ExecutedBound, ExitShape
  <2>5. n = inputs.noteAmount /\ c = inputs.noteAmount - e.call.gross
      BY <1>4, <1>5, <1>6, <2>3, <2>4
  <2> QED BY <1>1, <2>3, <2>5, TrueClaimIsOne
<1> QED BY <1>7, <1>8

(* The event of a withdrawal through the wallets' overload confirms it,    *)
(* and packages/core would have prepared it.                               *)
LEMMA WalletWithdrawalConfirmed ==
    ASSUME NEW e, ExecutedBound(e), WithChange(e), e.call.selector = WithdrawNoteBounds
    PROVE  /\ IndexerConfirmsChange(TrueClaim(e), e.call.inputs, ChangeEvent(e), TRUE)
           /\ CoreValueConserved(TrueClaim(e))
           /\ CoreInputsMatch(TrueClaim(e), e.call.inputs.spentCommitment, e.call.inputs)
<1> DEFINE inputs == e.call.inputs
           claim == TrueClaim(e)
<1>1. /\ claim.noteAmount = inputs.noteAmount /\ claim.gross = e.call.gross
      /\ claim.change = inputs.noteAmount - e.call.gross /\ claim.fee = e.fee
      /\ claim.destination = e.call.destination
      /\ claim.commitment = inputs.newCommitment /\ claim.nullifier = e.call.nullifier
      /\ claim.note = e.note /\ claim.root = inputs.root
      /\ claim.policy = OverloadPolicy(e.call)
    BY TrueClaimFields
<1> HIDE DEF claim
<1>2. /\ inputs.newCommitment # NoCommitment /\ e.note \notin {EmptyNote, OversizedNote}
      /\ {inputs.noteAmount, e.call.gross, inputs.noteAmount - e.call.gross} \subseteq Denominations
    BY DEF WithChange, ExecutedBound, ExitShape
<1>3. /\ inputs.noteAmount \in Nat /\ e.call.gross \in Nat \ {0}
      /\ inputs.noteAmount - e.call.gross \in Nat \ {0}
    BY <1>2, LegacyAssumption
<1>4. e.fee = FeeOf(e.call.gross) /\ e.fee \in Nat /\ e.fee < e.call.gross
    BY <1>3, LegacyFeeBound DEF ExecutedBound
<1>5. /\ inputs.encryptedNoteHash = IndexerChangeNoteHash(claim)
      /\ inputs.proofContextHash
            = CoreContextHash(Here, WithdrawNoteBounds, inputs.root, e.call.nullifier,
                              e.call.destination, e.call.gross, e.fee, inputs.encryptedNoteHash,
                              CorePolicyHash(claim.policy), claim.policy.deadlineOrZero)
  <2>1. /\ inputs.encryptedNoteHash
              = LegacyNoteHash(Here, WITHDRAW_SHAPE_V1_1, WithdrawNoteBounds, e.call.nullifier,
                               inputs.newCommitment, inputs.noteAmount - e.call.gross, e.note)
        /\ inputs.proofContextHash
              = LegacyContextHash(Here, WITHDRAW_SHAPE_V1_1, WithdrawNoteBounds, inputs.root,
                                  e.call.nullifier, e.call.destination, e.call.gross, e.fee,
                                  inputs.encryptedNoteHash, claim.policy)
      BY <1>1, <1>2 DEF ExecutedBound, Bindings, BoundAmount
  <2> QED BY <1>1, <2>1, CoreHashes DEF IndexerChangeNoteHash
<1>6. IndexerConfirmsChange(claim, inputs, ChangeEvent(e), TRUE)
  <2>1. IndexerChangeShape(claim)
      BY <1>1, <1>2, <1>3, <1>4 DEF IndexerChangeShape
  <2>2. IndexerEventMatches(claim, ChangeEvent(e))
      BY <1>1 DEF IndexerEventMatches, ChangeEvent
  <2>3. IndexerContextMatches(claim, WithdrawNoteBounds, IndexerChangeNoteHash(claim), inputs)
      BY <1>1, <1>5 DEF IndexerContextMatches
  <2> QED BY <1>5, <2>1, <2>2, <2>3 DEF IndexerConfirmsChange
<1>7. CoreValueConserved(claim)
    BY <1>1, <1>3, <1>4 DEF CoreValueConserved
<1>8. CoreInputsMatch(claim, inputs.spentCommitment, inputs)
  <2>1. PICK p \in plans : SpendInputs(p) = inputs
      BY DEF ExecutedBound
  <2>2. /\ inputs.nullifier = e.call.nullifier /\ inputs.destination = e.call.destination
        /\ inputs.grossAmount = e.call.gross /\ inputs.fee = e.fee
        /\ inputs.chainId = Here.chainId /\ inputs.verifyingContract = Here.pool
      BY DEF ExecutedBound
  <2>3. CoreChangeInputs(claim, inputs.spentCommitment)
          = [root |-> inputs.root, nullifier |-> inputs.nullifier,
             newCommitment |-> inputs.newCommitment, destination |-> inputs.destination,
             grossAmount |-> inputs.grossAmount, fee |-> inputs.fee,
             chainId |-> inputs.chainId, verifyingContract |-> inputs.verifyingContract,
             spentCommitment |-> inputs.spentCommitment, noteAmount |-> inputs.noteAmount,
             proofContextHash |-> inputs.proofContextHash,
             encryptedNoteHash |-> inputs.encryptedNoteHash]
      BY <1>1, <1>5, <2>2 DEF CoreChangeInputs, IndexerChangeNoteHash
  <2>4. CoreChangeInputs(claim, inputs.spentCommitment) = inputs
      BY <2>1, <2>3 DEF SpendInputs
  <2> QED BY <2>4 DEF CoreInputsMatch
<1> QED BY <1>6, <1>7, <1>8 DEF claim

(* A full exit through the policy overload is confirmed, and no claim with *)
(* another amount is.                                                      *)
LEMMA ExitConfirmed ==
    ASSUME NEW e, ExecutedBound(e), ExecutedRecorded(e), e.call.selector = WithdrawPolicy
    PROVE  /\ IndexerConfirmsExit(TrueClaim(e), e.call.inputs, TRUE)
           /\ \A claim \in Claims(e), withContext \in BOOLEAN :
                 IndexerConfirmsExit(claim, e.call.inputs, withContext) =>
                     claim.noteAmount = commitmentAmounts[e.call.inputs.spentCommitment]
<1> DEFINE inputs == e.call.inputs
           T == TrueClaim(e)
<1>1. /\ T.noteAmount = inputs.noteAmount /\ T.gross = e.call.gross /\ T.fee = e.fee
      /\ T.destination = e.call.destination
      /\ T.commitment = inputs.newCommitment /\ T.nullifier = e.call.nullifier
      /\ T.note = e.note /\ T.root = inputs.root /\ T.policy = OverloadPolicy(e.call)
    BY TrueClaimFields
<1> HIDE DEF T
<1>2. /\ e.note = EmptyNote /\ inputs.newCommitment = NoCommitment
      /\ inputs.nullifier = e.call.nullifier
    BY DEF ExecutedBound, ExitShape
<1>3. /\ inputs.encryptedNoteHash
            = LegacyNoteHash(Here, WITHDRAW_SHAPE_V1_1, WithdrawPolicy, e.call.nullifier,
                             NoCommitment, inputs.noteAmount, EmptyNote)
      /\ inputs.proofContextHash
            = LegacyContextHash(Here, WITHDRAW_SHAPE_V1_1, WithdrawPolicy, inputs.root,
                                e.call.nullifier, e.call.destination, e.call.gross, e.fee,
                                inputs.encryptedNoteHash, T.policy)
    BY <1>1, <1>2 DEF ExecutedBound, Bindings, BoundAmount
<1>4. IndexerConfirmsExit(T, inputs, TRUE)
    BY <1>1, <1>2, <1>3, CoreHashes
       DEF IndexerConfirmsExit, IndexerExitNoteHash, IndexerContextMatches
<1>5. ASSUME NEW claim, NEW withContext, IndexerConfirmsExit(claim, inputs, withContext)
      PROVE  claim.noteAmount = commitmentAmounts[inputs.spentCommitment]
  <2>1. inputs.encryptedNoteHash
            = LegacyNoteHash(Here, WITHDRAW_SHAPE_V1_1, WithdrawPolicy, claim.nullifier,
                             NoCommitment, claim.noteAmount, EmptyNote)
      BY <1>5, CoreHashes DEF IndexerConfirmsExit, IndexerExitNoteHash
  <2>2. LegacyNoteHash(Here, WITHDRAW_SHAPE_V1_1, WithdrawPolicy, e.call.nullifier,
                       NoCommitment, inputs.noteAmount, EmptyNote)
          = LegacyNoteHash(Here, WITHDRAW_SHAPE_V1_1, WithdrawPolicy, claim.nullifier,
                           NoCommitment, claim.noteAmount, EmptyNote)
      BY <1>3, <2>1
  <2>3. claim.noteAmount = inputs.noteAmount
      BY <2>2, NoteHashInjective
  <2> QED BY <2>3 DEF ExecutedRecorded
<1> QED BY <1>4, <1>5 DEF T

(* What the indexer confirms of an executed withdrawal                     *)
(* (validateStageCWithdrawChangeNoteIndexerBinding,                        *)
(* validateStageBWithdrawPublicExitIndexerBinding) is what the pool        *)
(* recorded, and it confirms every withdrawal of the wallets.              *)
THEOREM IndexerConfirmsRecords == LegacySpec => []ConfirmedAsRecorded
<1> DEFINE Inv == LegacyTypeOK /\ BalanceCovers /\ LegacyPlansWellFormed /\ WithdrawalsRecorded
<1>1. LegacyBindingInit => Inv
  <2> SUFFICES ASSUME LegacyBindingInit PROVE Inv
      OBVIOUS
  <2>1. LegacyPlansWellFormed /\ WithdrawalsRecorded
      BY DEF LegacyBindingInit, LegacyPlansWellFormed, WithdrawalsRecorded
  <2>2. <<>> \in Seq(Commitments)
      OBVIOUS
  <2> QED BY <2>1, <2>2 DEF LegacyBindingInit, LegacyInit, LegacyTypeOK, BalanceCovers
<1>2. Inv /\ [LegacyNext]_allVars => Inv'
    BY RecordsStep, LegacyPlansStep, WithdrawalsRecordedStep
<1>3. Inv => ConfirmedAsRecorded
  <2> SUFFICES ASSUME WithdrawalsRecorded PROVE ConfirmedAsRecorded
      OBVIOUS
  <2>1. ASSUME NEW e \in executed, e.call.selector \in WithdrawSelectors
        PROVE  ExecutedBound(e) /\ ExecutedRecorded(e)
      BY <2>1 DEF WithdrawalsRecorded
  <2>2. {WithdrawNoteBounds, WithdrawPolicy} \subseteq WithdrawSelectors
      BY DEF WithdrawSelectors
  <2> QED BY <2>1, <2>2, ConfirmedChange, WalletWithdrawalConfirmed, ExitConfirmed
          DEF ConfirmedAsRecorded, WithChange
<1> QED BY <1>1, <1>2, <1>3, PTL DEF LegacySpec

-----------------------------------------------------------------------------
(* What the relay and the wallets let through, the pool accepts.           *)

(* Recorded amounts are not negative. *)
AmountsNatural == commitmentAmounts \in [Commitments -> Nat]

PolicyRecord(policy) ==
    /\ policy = [relayer |-> policy.relayer, minNetAmount |-> policy.minNetAmount,
                 maxFeeAmount |-> policy.maxFeeAmount, deadlineOrZero |-> policy.deadlineOrZero]
    /\ policy.minNetAmount \in Int /\ policy.maxFeeAmount \in Int

(* A note that is not spent is within what the accounting leaves.          *)
LEMMA NoteCovered ==
    ASSUME LegacyTypeOK, AmountsNatural, NotesInv, NEW leaf \in 0..(Len(leaves) - 1),
           Nullifier(leaf, Here) \notin nullifiers
    PROVE  /\ commitmentAmounts[leaves[leaf + 1]] <= Principal
           /\ leaves[leaf + 1] \in commitments
<1> DEFINE S == Unmarked(leaves, nullifiers)
           x == leaves[leaf + 1]
           U == commitmentAmounts
<1>1. leaves \in Seq(Commitments) /\ Injects(leaves)
    BY DEF LegacyTypeOK, NotesInv
<1>2. x \in S
    BY <1>1, MarkTakesNote
<1>3. S \subseteq Commitments /\ IsFiniteSet(S)
    BY <1>1, UnmarkedFinite
<1>4. \A c \in S : U[c] \in Nat
    BY <1>3 DEF AmountsNatural
<1>5. x \in commitments
    BY <1>1 DEF commitments, Range
<1>6. Total(U, S) = Principal
    BY DEF NotesInv
<1> HIDE DEF S, U, x
<1>7. U[x] <= Total(U, S)
    BY <1>2, <1>3, <1>4, TotalNatural
<1> QED BY <1>5, <1>6, <1>7 DEF U, x

(* What the relay checks of a request, its clock aside. *)
RelayPasses(call, deadline) ==
    /\ RelayInputsMatch(call)
    /\ call.destination # ZeroAddress
    /\ {call.inputs.noteAmount, call.gross} \subseteq Denominations
    /\ call.gross <= call.inputs.noteAmount
    /\ RelayBoundsHold(call)
    /\ RelayPreflight(call, deadline)

(* The relay and the pool compute the same hashes, and read the same exit  *)
(* shape out of a call.                                                    *)
LEMMA PreflightAgrees ==
    ASSUME NEW call, NEW deadline, RelayPasses(call, deadline), PolicyRecord(call.policy)
    PROVE  /\ call.selector \in WithdrawSelectors \ {Withdraw, WithdrawNote}
           /\ OverloadNote(call) # OversizedNote
           /\ ExitShape(call.inputs, call.gross, OverloadNote(call))
           /\ Bindings(call.inputs, WITHDRAW_SHAPE_V1_1, call.selector, BoundAmount(call.inputs),
                       OverloadNote(call), call.destination, call.gross, FeeOf(call.gross),
                       OverloadPolicy(call))
           /\ OverloadPolicy(call).minNetAmount = call.policy.minNetAmount
           /\ OverloadPolicy(call).maxFeeAmount = call.policy.maxFeeAmount
           /\ IF call.selector = WithdrawPolicy
              THEN OverloadPolicy(call) = call.policy /\ call.policy.relayer = RelayAccount
                   /\ call.policy.deadlineOrZero = deadline
              ELSE OverloadPolicy(call).relayer = NoRelayer /\ OverloadPolicy(call).deadlineOrZero = 0
<1> USE DEF Withdraw, WithdrawNote, WithdrawBounds, WithdrawNoteBounds, WithdrawPolicy,
            WithdrawNotePolicy, Transfer, TransferNote, EmptyNote, OversizedNote
<1>1. CASE call.selector = WithdrawPolicy /\ FullExit(call) /\ RelayPolicyPreflight(call, deadline)
  <2>1. OverloadPolicy(call) = call.policy /\ OverloadNote(call) = EmptyNote
      BY <1>1 DEF OverloadPolicy, OverloadNote
  <2>2. ExitShape(call.inputs, call.gross, EmptyNote) /\ BoundAmount(call.inputs) = call.inputs.noteAmount
      BY <1>1 DEF RelayPasses, ExitShape, FullExit, BoundAmount
  <2>3. Bindings(call.inputs, WITHDRAW_SHAPE_V1_1, call.selector, call.inputs.noteAmount,
                 EmptyNote, call.destination, call.gross, FeeOf(call.gross), call.policy)
      BY <1>1 DEF RelayPasses, RelayPolicyPreflight, RelayHashesMatch, RelayExitNoteHash,
         RelayContextHash, CoreNoteHash, CoreContextHash, CorePolicyHash, Bindings, LegacyNoteHash,
         LegacyContextHash, LegacyPolicyHash, FullExit, RelayInputsMatch
  <2> QED BY <1>1, <2>1, <2>2, <2>3 DEF WithdrawSelectors, RelayPolicyPreflight
<1> DEFINE policy == OverloadPolicy(call)
<1>2. CASE call.selector \in {WithdrawBounds, WithdrawNoteBounds}
  <2>1. policy = [call.policy EXCEPT !.relayer = NoRelayer, !.deadlineOrZero = 0]
      BY <1>2 DEF OverloadPolicy
  <2>2. /\ policy.relayer = NoRelayer /\ policy.deadlineOrZero = 0
        /\ policy.minNetAmount = call.policy.minNetAmount
        /\ policy.maxFeeAmount = call.policy.maxFeeAmount
      BY <2>1 DEF PolicyRecord
  <2> HIDE DEF policy
  <2>3. /\ CorePolicyHash(RelayBoundsPolicy(call)) = LegacyPolicyHash(policy)
        /\ RelayBoundsPolicy(call).deadlineOrZero = policy.deadlineOrZero
      BY <2>2 DEF CorePolicyHash, LegacyPolicyHash, RelayBoundsPolicy, ZeroAddress
  <2>4. ASSUME NEW noteHash, RelayHashesMatch(call, noteHash, RelayBoundsPolicy(call))
        PROVE  /\ call.inputs.encryptedNoteHash = noteHash
               /\ call.inputs.proofContextHash =
                    LegacyContextHash(Here, WITHDRAW_SHAPE_V1_1, call.selector, call.inputs.root,
                       call.inputs.nullifier, call.destination, call.gross, FeeOf(call.gross),
                       noteHash, policy)
      BY <2>3, <2>4 DEF RelayHashesMatch, RelayContextHash, CoreContextHash, LegacyContextHash,
         RelayPasses, RelayInputsMatch
  <2>5. /\ call.inputs.nullifier = call.nullifier
        /\ {call.inputs.noteAmount, call.gross} \subseteq Denominations
      BY DEF RelayPasses, RelayInputsMatch
  <2>6. CASE /\ FullExit(call) /\ OverloadNote(call) = EmptyNote
             /\ RelayHashesMatch(call, RelayExitNoteHash(call), RelayBoundsPolicy(call))
    <3>1. ExitShape(call.inputs, call.gross, EmptyNote) /\ BoundAmount(call.inputs) = call.inputs.noteAmount
        BY <2>5, <2>6 DEF ExitShape, FullExit, BoundAmount
    <3>2. RelayExitNoteHash(call)
             = LegacyNoteHash(Here, WITHDRAW_SHAPE_V1_1, call.selector, call.inputs.nullifier,
                              call.inputs.newCommitment, call.inputs.noteAmount, EmptyNote)
        BY <2>5, <2>6 DEF RelayExitNoteHash, CoreNoteHash, LegacyNoteHash, FullExit
    <3>3. Bindings(call.inputs, WITHDRAW_SHAPE_V1_1, call.selector, call.inputs.noteAmount,
                   EmptyNote, call.destination, call.gross, FeeOf(call.gross), policy)
        BY <2>4, <2>6, <3>2 DEF Bindings
    <3> QED BY <1>2, <2>2, <2>6, <3>1, <3>3 DEF WithdrawSelectors, policy
  <2>7. CASE call.selector = WithdrawNoteBounds /\ RelayChangePreflight(call)
    <3>1. OverloadNote(call) = call.note
        BY <2>7 DEF OverloadNote
    <3>2. /\ ExitShape(call.inputs, call.gross, call.note)
          /\ BoundAmount(call.inputs) = call.inputs.noteAmount - call.gross
      <4>1. call.inputs.grossAmount = call.gross
          BY DEF RelayPasses, RelayInputsMatch
      <4> QED BY <2>5, <2>7, <4>1 DEF ExitShape, BoundAmount, RelayChangePreflight
    <3>3. RelayChangeNoteHash(call)
             = LegacyNoteHash(Here, WITHDRAW_SHAPE_V1_1, call.selector, call.inputs.nullifier,
                              call.inputs.newCommitment, call.inputs.noteAmount - call.gross, call.note)
        BY <2>5 DEF RelayChangeNoteHash, CoreNoteHash, LegacyNoteHash
    <3>4. Bindings(call.inputs, WITHDRAW_SHAPE_V1_1, call.selector,
                   call.inputs.noteAmount - call.gross, call.note, call.destination, call.gross,
                   FeeOf(call.gross), policy)
        BY <2>4, <2>7, <3>3 DEF Bindings, RelayChangePreflight
    <3>5. call.note # OversizedNote
        BY <2>7 DEF RelayChangePreflight
    <3> QED BY <1>2, <2>2, <3>1, <3>2, <3>4, <3>5 DEF WithdrawSelectors, policy
  <2>8. \/ call.selector = WithdrawBounds /\ FullExit(call) /\ RelayBoundedPreflight(call)
        \/ call.selector = WithdrawNoteBounds /\ RelayUnifiedExitPreflight(call)
        => /\ FullExit(call) /\ OverloadNote(call) = EmptyNote
           /\ RelayHashesMatch(call, RelayExitNoteHash(call), RelayBoundsPolicy(call))
      BY DEF RelayBoundedPreflight, RelayUnifiedExitPreflight, FullExit, OverloadNote
  <2> QED BY <1>2, <2>6, <2>7, <2>8 DEF RelayPasses, RelayPreflight
<1> QED BY <1>1, <1>2 DEF RelayPasses, RelayPreflight

(* What passed the relay's checks and was not overtaken is accepted by the *)
(* pool, from the relay's account and in time if it is bound to them.      *)
LEMMA PassedIsAccepted ==
    ASSUME LegacyTypeOK, BalanceCovers, AmountsNatural, NotesInv, LegacyPlansWellFormed,
           NEW call, NEW deadline, RelayPasses(call, deadline), PolicyRecord(call.policy),
           VerifyProof(call.inputs), NEW sender,
           call.selector = WithdrawPolicy => sender = RelayAccount /\ timestamp <= deadline,
           ~Overtaken(call.inputs)
    PROVE  WithdrawAccepted(call, sender)
<1> DEFINE inputs == call.inputs
           note == OverloadNote(call)
           policy == OverloadPolicy(call)
<1>1. /\ call.selector \in WithdrawSelectors \ {Withdraw, WithdrawNote}
      /\ note # OversizedNote
      /\ ExitShape(inputs, call.gross, note)
      /\ Bindings(inputs, WITHDRAW_SHAPE_V1_1, call.selector, BoundAmount(inputs), note,
                  call.destination, call.gross, FeeOf(call.gross), policy)
      /\ policy.minNetAmount = call.policy.minNetAmount
      /\ policy.maxFeeAmount = call.policy.maxFeeAmount
      /\ IF call.selector = WithdrawPolicy
         THEN policy = call.policy /\ call.policy.relayer = RelayAccount
              /\ call.policy.deadlineOrZero = deadline
         ELSE policy.relayer = NoRelayer /\ policy.deadlineOrZero = 0
    BY PreflightAgrees
<1> HIDE DEF note, policy
<1>2. /\ RelayInputsMatch(call) /\ RelayBoundsHold(call) /\ call.destination # ZeroAddress
      /\ {inputs.noteAmount, call.gross} \subseteq Denominations
      /\ call.gross <= inputs.noteAmount
    BY DEF RelayPasses
<1>3. /\ inputs.nullifier = call.nullifier /\ inputs.destination = call.destination
      /\ inputs.grossAmount = call.gross /\ inputs.fee = FeeOf(call.gross)
      /\ inputs.chainId = Here.chainId /\ inputs.verifyingContract = Here.pool
    BY <1>2 DEF RelayInputsMatch
<1>4. /\ call.nullifier \notin nullifiers /\ IsAcceptedRoot(inputs.root)
      /\ inputs.newCommitment \notin commitments
      /\ commitmentAmounts[inputs.spentCommitment] = inputs.noteAmount
    BY <1>3 DEF Overtaken
<1>5. PICK leaf \in 0..(Len(leaves) - 1) :
         inputs.nullifier = Nullifier(leaf, Here) /\ inputs.spentCommitment = leaves[leaf + 1]
    BY <1>1, SpentLeaf DEF NotesInv
<1>6. inputs.noteAmount <= Principal /\ inputs.spentCommitment \in commitments
    BY <1>3, <1>4, <1>5, NoteCovered
<1>7. LegacyWithdrawInputs(inputs, call)
    BY <1>3, <1>4, <1>6 DEF LegacyWithdrawInputs, LegacyInputsCommon, SpentCommitmentAmount
<1>8. LegacyPolicyHolds(policy, sender)
    BY <1>1 DEF LegacyPolicyHolds
<1>9. call.gross \in Nat \ {0} /\ inputs.noteAmount \in Nat
    BY <1>2, LegacyAssumption
<1>10. FeeOf(call.gross) \in Nat /\ FeeOf(call.gross) < call.gross
    BY <1>9, LegacyFeeBound
<1>11. /\ FeeOf(call.gross) <= policy.maxFeeAmount
       /\ call.gross - FeeOf(call.gross) >= policy.minNetAmount
       /\ policy.minNetAmount \in Int
    BY <1>1, <1>2 DEF RelayBoundsHold, PolicyRecord
<1>12. policy.minNetAmount <= call.gross
  <2> DEFINE f == FeeOf(call.gross)
             m == policy.minNetAmount
             g == call.gross
  <2>1. f \in Nat /\ g \in Nat /\ m \in Int /\ g - f >= m
      BY <1>9, <1>10, <1>11
  <2> HIDE DEF f, m, g
  <2>2. m <= g
      BY <2>1
  <2> QED BY <2>2 DEF m, g
<1>13. /\ call.gross <= totalDepositedAccounting - totalWithdrawnAccounting - accruedProtocolFees
       /\ call.gross <= balance - (accruedProtocolFees - feeSweptAccounting)
  <2>1. Principal \in Int
      BY DEF Principal, LegacyTypeOK
  <2>2. call.gross <= Principal
      BY <1>2, <1>6, <1>9, <2>1
  <2> QED BY <1>9, <2>2, SMTT(20) DEF Principal, BalanceCovers, LegacyTypeOK
<1>14. LegacyWithdrawAccepted(call, policy, note, sender)
    BY <1>1, <1>2, <1>4, <1>7, <1>8, <1>9, <1>11, <1>12, <1>13 DEF LegacyWithdrawAccepted
<1> QED BY <1>1, <1>14 DEF WithdrawAccepted, policy, note

-----------------------------------------------------------------------------
(* Relayed calls passed the relay, and their proofs are published. *)
RelayedPassed ==
    \A r \in relayed : /\ RelayPasses(r.call, r.deadline) /\ PolicyRecord(r.call.policy)
                       /\ VerifyProof(r.call.inputs)

(* A plan of a wallet is a withdrawal that the circuit proves, with the    *)
(* wallet's own policy.                                                    *)
WalletsPlan(p) ==
    /\ p.deployment = Here /\ p.selector = WithdrawNoteBounds
    /\ p.policy = WalletPolicy(p.gross, p.fee)
    /\ p.noteAmount \in Nat \ {0} /\ WithdrawCircuitV1(p)
    /\ p.destination # ZeroAddress
    /\ IF p.out = NoCommitment THEN p.note = EmptyNote ELSE p.note \notin {EmptyNote, OversizedNote}

PlansPaid ==
    \A p \in plans : /\ PolicyRecord(p.policy)
                     /\ p.client \in {"sdk", "web"} => WalletsPlan(p)

(* A built call is the plan's, with the inputs the plan was proved with.   *)
BuiltCall(b) ==
    /\ b.plan \in plans /\ b.plan.client \in {"sdk", "web"}
    /\ b.call = SdkCall(b.plan, SpendInputs(b.plan))
    /\ b.plan.client = "web" => PlanOfDenominations(b.plan)

ChecksInv ==
    /\ AmountsNatural
    /\ timestamp \in Int
    /\ RelayedPassed
    /\ PlansPaid
    /\ \A b \in built : BuiltCall(b)

(* The calldata of a wallet passes the relay iff its amounts are           *)
(* denominations.                                                          *)
LEMMA WalletCallPasses ==
    ASSUME NEW p, WalletsPlan(p), p.client \in {"sdk", "web"}, NEW deadline
    PROVE  /\ RelayPasses(SdkCall(p, SpendInputs(p)), deadline) <=> PlanOfDenominations(p)
           /\ PolicyRecord(p.policy)
<1> DEFINE call == SdkCall(p, SpendInputs(p))
<1>1. /\ p.gross \in 1..p.noteAmount /\ p.noteAmount \in Nat \ {0} /\ p.fee = FeeOf(p.gross)
      /\ IF p.gross = p.noteAmount THEN p.out = NoCommitment ELSE p.out \in Commitments
    BY DEF WalletsPlan, WithdrawCircuitV1
<1>2. p.gross \in Nat \ {0} /\ FeeOf(p.gross) \in Nat /\ FeeOf(p.gross) < p.gross
    BY <1>1, LegacyFeeBound
<1>3. /\ call.selector = WithdrawNoteBounds /\ call.inputs = SpendInputs(p)
      /\ call.nullifier = PlanNullifier(p) /\ call.destination = p.destination
      /\ call.gross = p.gross /\ call.note = p.note /\ call.policy = p.policy
    BY DEF SdkCall
<1> HIDE DEF call
<1>4. /\ call.inputs.noteAmount = p.noteAmount /\ call.inputs.newCommitment = p.out
      /\ call.inputs.root = p.root
      /\ call.inputs.encryptedNoteHash = PlanNoteHash(p)
      /\ call.inputs.proofContextHash = PlanContextHash(p)
      /\ RelayInputsMatch(call)
    BY <1>1, <1>3 DEF SpendInputs, RelayInputsMatch, WalletsPlan
<1>5. PolicyRecord(p.policy) /\ RelayBoundsHold(call) /\ RelayBoundsPolicy(call) = p.policy
  <2>1. p.policy = [relayer |-> ZeroAddress, minNetAmount |-> p.gross - p.fee,
                    maxFeeAmount |-> p.fee, deadlineOrZero |-> 0]
      BY DEF WalletsPlan, WalletPolicy
  <2>2. p.fee \in Nat /\ p.gross - p.fee \in Int /\ p.fee <= p.gross
      BY <1>1, <1>2
  <2>3. PolicyRecord(p.policy) /\ RelayBoundsPolicy(call) = p.policy
      BY <1>3, <2>1, <2>2 DEF PolicyRecord, RelayBoundsPolicy
  <2>4. RelayBoundsHold(call)
    <3>1. p.policy.minNetAmount = p.gross - p.fee /\ p.policy.maxFeeAmount = p.fee
        BY <2>1
    <3>2. p.gross - p.fee >= p.gross - p.fee /\ p.fee <= p.fee
        BY <2>2
    <3> QED BY <1>1, <1>3, <2>2, <3>1, <3>2 DEF RelayBoundsHold
  <2> QED BY <2>3, <2>4
<1>6. /\ PlanNoteHash(p) = CoreNoteHash(Here, WithdrawNoteBounds, PlanNullifier(p), p.out,
                             IF p.out = NoCommitment THEN p.noteAmount ELSE Change(p), p.note)
      /\ PlanContextHash(p) = CoreContextHash(Here, WithdrawNoteBounds, p.root, PlanNullifier(p),
                             p.destination, p.gross, FeeOf(p.gross), PlanNoteHash(p),
                             CorePolicyHash(p.policy), p.policy.deadlineOrZero)
  <2>1. p.deployment = Here /\ p.selector = WithdrawNoteBounds
        /\ (p.out = NoCommitment => p.note = EmptyNote)
      BY DEF WalletsPlan
  <2>2. CASE p.client = "sdk"
      BY <1>1, <2>1, <2>2 DEF PlanNoteHash, PlanContextHash, SdkExitNoteHash, SdkChangeNoteHash,
         SdkNoteHashV1, SdkContextHashV1, SdkRelayerPolicyHash, CoreNoteHash, CoreContextHash,
         CorePolicyHash
  <2>3. CASE p.client = "web"
      BY <1>1, <2>1, <2>3 DEF PlanNoteHash, PlanContextHash, WebExitNoteHash, WebChangeNoteHash,
         WebContextHashV1
  <2> QED BY <2>2, <2>3
<1>7. RelayHashesMatch(call, PlanNoteHash(p), p.policy)
    BY <1>3, <1>4, <1>6 DEF RelayHashesMatch, RelayContextHash
<1>8. ASSUME RelayPasses(call, deadline) PROVE PlanOfDenominations(p)
  <2>1. {p.noteAmount, p.gross} \subseteq Denominations /\ RelayPreflight(call, deadline)
      BY <1>3, <1>4, <1>8 DEF RelayPasses
  <2>2. RelayChangePreflight(call) \/ RelayUnifiedExitPreflight(call)
      BY <1>3, <2>1 DEF RelayPreflight, WithdrawNoteBounds, WithdrawPolicy, WithdrawBounds
  <2>3. Change(p) \in Denominations \cup {0}
      BY <1>1, <1>3, <1>4, <2>2 DEF RelayChangePreflight, RelayUnifiedExitPreflight, Change
  <2> QED BY <2>1, <2>3 DEF PlanOfDenominations
<1>9. ASSUME PlanOfDenominations(p) PROVE RelayPasses(call, deadline)
  <2>1. {call.inputs.noteAmount, call.gross} \subseteq Denominations
        /\ call.gross <= call.inputs.noteAmount
      BY <1>1, <1>3, <1>4, <1>9 DEF PlanOfDenominations
  <2>2. ASSUME p.gross = p.noteAmount PROVE RelayUnifiedExitPreflight(call)
    <3>1. p.out = NoCommitment /\ p.note = EmptyNote
        BY <1>1, <2>2 DEF WalletsPlan
    <3>2. RelayExitNoteHash(call) = PlanNoteHash(p)
        BY <1>3, <1>4, <1>6, <3>1 DEF RelayExitNoteHash
    <3> QED BY <1>3, <1>4, <1>5, <1>7, <2>2, <3>1, <3>2 DEF RelayUnifiedExitPreflight
  <2>3. ASSUME p.gross # p.noteAmount PROVE RelayChangePreflight(call)
    <3>1. p.out # NoCommitment /\ p.note \notin {EmptyNote, OversizedNote}
        BY <1>1, <2>3, LegacyAssumption DEF WalletsPlan
    <3>2. RelayChangeNoteHash(call) = PlanNoteHash(p)
        BY <1>3, <1>4, <1>6, <3>1 DEF RelayChangeNoteHash, Change
    <3>3. p.noteAmount - p.gross \in Denominations
        BY <1>1, <1>9, <2>3 DEF PlanOfDenominations, Change
    <3> QED BY <1>3, <1>4, <1>5, <1>7, <3>1, <3>2, <3>3 DEF RelayChangePreflight
  <2>4. RelayPreflight(call, deadline)
    <3>1. RelayChangePreflight(call) \/ RelayUnifiedExitPreflight(call)
        BY <2>2, <2>3
    <3> QED BY <1>3, <3>1 DEF RelayPreflight
  <2>5. call.destination # ZeroAddress
      BY <1>3 DEF WalletsPlan
  <2> QED BY <1>4, <1>5, <2>1, <2>4, <2>5 DEF RelayPasses
<1> QED BY <1>5, <1>8, <1>9 DEF call

(* What an overload hands on is a policy again. *)
LEMMA OverloadIsRecord ==
    ASSUME NEW call, PolicyRecord(call.policy) PROVE PolicyRecord(OverloadPolicy(call))
<1> DEFINE policy == OverloadPolicy(call)
<1>1. CASE call.selector \in {Transfer, TransferNote}
  <2>1. policy = [relayer |-> NoRelayer, minNetAmount |-> 0, maxFeeAmount |-> MaxUint256,
                  deadlineOrZero |-> 0]
      BY <1>1 DEF OverloadPolicy, Transfer, TransferNote, WithdrawBounds, WithdrawNoteBounds
  <2> HIDE DEF policy
  <2> QED BY <2>1, LegacyBindingAssumption DEF PolicyRecord, policy
<1>2. CASE call.selector \in {WithdrawBounds, WithdrawNoteBounds}
  <2>1. policy = [call.policy EXCEPT !.relayer = NoRelayer, !.deadlineOrZero = 0]
      BY <1>2 DEF OverloadPolicy, Transfer, TransferNote, WithdrawBounds, WithdrawNoteBounds
  <2> HIDE DEF policy
  <2>2. policy = [relayer |-> NoRelayer, minNetAmount |-> call.policy.minNetAmount,
                  maxFeeAmount |-> call.policy.maxFeeAmount, deadlineOrZero |-> 0]
      BY <2>1 DEF PolicyRecord
  <2> QED BY <2>2 DEF PolicyRecord, policy
<1>3. CASE call.selector \notin {Transfer, TransferNote, WithdrawBounds, WithdrawNoteBounds}
    BY <1>3 DEF OverloadPolicy
<1> QED BY <1>1, <1>2, <1>3

LEMMA OwnerPolicyIsRecord == ASSUME NEW policy \in OwnerPolicies PROVE PolicyRecord(policy)
BY LegacyBindingAssumption DEF PolicyRecord

(* Plans hold the amount of the note they spend. *)
PlanAmounts == \A p \in plans : p.noteAmount = OpenAmount[p.spent]

(* What the owners' actions make of a plan. *)
LEMMA PlansPaidStep ==
    ASSUME LegacyTypeOK, PlansPaid, PlanAmounts, [LegacyNext]_allVars
    PROVE  PlansPaid' /\ PlanAmounts'
<1>1. CASE UNCHANGED plans
    BY <1>1 DEF PlansPaid, PlanAmounts, PolicyRecord, WalletsPlan, WithdrawCircuitV1, Change
<1>2. ASSUME NEW p, Prove(p), PolicyRecord(p.policy), p.client \in {"sdk", "web"} => WalletsPlan(p)
      PROVE  PlansPaid' /\ PlanAmounts'
  <2>1. plans' = plans \cup {p} /\ p.noteAmount = OpenAmount[p.spent]
      BY <1>2 DEF Prove, NoteInTree
  <2> QED BY <1>2, <2>1 DEF PlansPaid, PlanAmounts, PolicyRecord, WalletsPlan, WithdrawCircuitV1, Change
<1>3. ASSUME NEW client \in {"sdk", "web"}, NEW leaf \in 0..(Len(leaves) - 1),
             NEW out \in Commitments \cup {NoCommitment}, NEW gross, NEW destination \in Destinations,
             NEW bytes, bytes = IF out = NoCommitment THEN EmptyNote ELSE bytes,
             out # NoCommitment => bytes \in Ciphertexts, NEW p,
             p = WalletPlan(client, leaf, out, gross, destination, bytes), Prove(p)
      PROVE  PlansPaid' /\ PlanAmounts'
  <2>1. /\ p.client = client /\ p.deployment = Here /\ p.selector = WithdrawNoteBounds
        /\ p.spent = leaves[leaf + 1] /\ p.noteAmount = OpenAmount[p.spent]
        /\ p.out = out /\ p.destination = destination /\ p.gross = gross /\ p.fee = FeeOf(gross)
        /\ p.note = bytes /\ p.policy = WalletPolicy(gross, FeeOf(gross))
      BY <1>3 DEF WalletPlan
  <2>2. WithdrawCircuitV1(p)
      BY <1>3, <2>1 DEF Prove, WithdrawNoteBounds, TransferSelectors, Transfer, TransferNote,
         TransferNotePolicy
  <2>3. p.noteAmount \in Nat \ {0}
    <3>1. leaf + 1 \in 1..Len(leaves) /\ leaves \in Seq(Commitments)
        BY DEF LegacyTypeOK
    <3>2. p.spent \in Commitments
        BY <2>1, <3>1
    <3> QED BY <2>1, <3>2, LegacyAssumption
  <2>4. p.destination # ZeroAddress
      BY <2>1, LegacyBindingAssumption DEF ZeroAddress
  <2>5. IF p.out = NoCommitment THEN p.note = EmptyNote ELSE p.note \notin {EmptyNote, OversizedNote}
      BY <1>3, <2>1, LegacyBindingAssumption
  <2>6. WalletsPlan(p)
      BY <2>1, <2>2, <2>3, <2>4, <2>5 DEF WalletsPlan
  <2>7. PolicyRecord(p.policy)
      BY <1>3, <2>1, <2>6, WalletCallPasses
  <2> QED BY <1>2, <1>3, <2>6, <2>7
<1>4. ASSUME NEW leaf \in 0..(Len(leaves) - 1), NEW out \in Commitments \cup {NoCommitment},
             NEW gross, NEW destination \in Destinations, NEW cipher \in Ciphertexts,
             \/ SdkPlans(leaf, out, gross, destination, cipher)
             \/ WebPlans(leaf, out, gross, destination, cipher)
      PROVE  PlansPaid' /\ PlanAmounts'
  <2>1. CASE SdkPlans(leaf, out, gross, destination, cipher)
      BY <1>3, <2>1 DEF SdkPlans, SdkChangeBytes
  <2>2. CASE WebPlans(leaf, out, gross, destination, cipher)
      BY <1>3, <2>2 DEF WebPlans, WebChangeBytes
  <2> QED BY <1>4, <2>1, <2>2
<1>5. ASSUME NEW d, NEW selector, NEW leaf, NEW out, NEW gross, NEW destination, NEW note,
             NEW policy \in OwnerPolicies,
             OwnerPlans(d, selector, leaf, out, gross, destination, note, policy)
      PROVE  PlansPaid' /\ PlanAmounts'
  <2> DEFINE spent == leaves[leaf + 1]
             call == [selector |-> selector, policy |-> policy, note |-> note]
             p == [client |-> "contract", deployment |-> d, selector |-> selector,
                   leaf |-> leaf, root |-> currentRoot, spent |-> spent,
                   noteAmount |-> OpenAmount[spent], out |-> out, destination |-> destination,
                   gross |-> gross, fee |-> FeeOf(gross), note |-> OverloadNote(call),
                   policy |-> OverloadPolicy(call)]
  <2>1. Prove(p)
      BY <1>5 DEF OwnerPlans
  <2>2. PolicyRecord(OverloadPolicy(call))
    <3>1. PolicyRecord(call.policy)
        BY OwnerPolicyIsRecord
    <3> HIDE DEF call
    <3> QED BY <3>1, OverloadIsRecord
  <2>3. p.policy = OverloadPolicy(call) /\ p.client = "contract"
      OBVIOUS
  <2> HIDE DEF p, call
  <2> QED BY <1>2, <2>1, <2>2, <2>3
<1>6. CASE OwnersStep
    BY <1>4, <1>5, <1>6, ZenonT(40) DEF OwnersStep
<1>7. CASE UNCHANGED bindingVars
    BY <1>1, <1>7 DEF bindingVars
<1>8. ASSUME NEW p, NEW inputs, SdkBuilds(p, inputs) \/ WebBuilds(p, inputs)
      PROVE  UNCHANGED plans
    BY <1>8 DEF SdkBuilds, WebBuilds
<1>9. ASSUME NEW call, NEW sender, SubmitTransfer(call, sender) \/ SubmitWithdraw(call, sender)
      PROVE  UNCHANGED plans
    BY <1>9 DEF SubmitTransfer, SubmitWithdraw
<1>10. ASSUME NEW call, NEW deadline, RelayAdmits(call, deadline)
       PROVE  UNCHANGED plans
    BY <1>10 DEF RelayAdmits
<1>11. ASSUME NEW c, NEW value, NEW note, SubmitDeposit(c, value, note) PROVE UNCHANGED bindingVars
    BY <1>11 DEF SubmitDeposit
<1> QED BY <1>1, <1>6, <1>7, <1>8, <1>9, <1>10, <1>11 DEF LegacyNext, allVars

-----------------------------------------------------------------------------
(* The public inputs that the web application compares are enough: they    *)
(* determine the ones it does not compare.                                 *)
LEMMA WebInputsDetermined ==
    ASSUME LegacyPlansWellFormed, PlansInTree, PlanAmounts, NEW p \in plans, NEW q \in plans,
           WebIntentHolds(SpendInputs(q), p)
    PROVE  SpendInputs(q) = SpendInputs(p)
<1>1. /\ q.root = p.root /\ PlanNullifier(q) = PlanNullifier(p) /\ q.out = p.out
      /\ q.destination = p.destination /\ q.gross = p.gross /\ q.fee = p.fee
      /\ q.deployment.chainId = p.deployment.chainId /\ q.deployment.pool = p.deployment.pool
      /\ PlanContextHash(q) = PlanContextHash(p)
    BY DEF WebIntentHolds, SpendInputs
<1>2. q.leaf = p.leaf
    BY <1>1, MarksDiffer DEF PlanNullifier, Nullifier
<1>3. q.spent = p.spent /\ q.noteAmount = p.noteAmount
    BY <1>2 DEF PlansInTree, PlanAmounts
<1>4. PlanNoteHash(q) = PlanNoteHash(p)
  <2>1. LegacyPlan(p) /\ LegacyPlan(q)
      BY DEF LegacyPlansWellFormed
  <2>2. LegacyContextHash(q.deployment, PlanShape(q), q.selector, q.root, PlanNullifier(q),
                          q.destination, q.gross, q.fee, PlanNoteHash(q), q.policy)
          = LegacyContextHash(p.deployment, PlanShape(p), p.selector, p.root, PlanNullifier(p),
                              p.destination, p.gross, p.fee, PlanNoteHash(p), p.policy)
      BY <1>1, <2>1, WalletsAgree
  <2> QED BY <2>2, ContextHashInjective
<1> QED BY <1>1, <1>3, <1>4 DEF SpendInputs

LEMMA SdkInputsOwn ==
    ASSUME NEW p, NEW q, SdkIntentHolds(SpendInputs(q), p) PROVE SpendInputs(q) = SpendInputs(p)
BY DEF SdkIntentHolds, SpendInputs

(* An accepted call spends amounts that are denominations. *)
LEMMA AcceptedAmounts ==
    ASSUME NEW p, WalletsPlan(p), NEW sender, WithdrawAccepted(SdkCall(p, SpendInputs(p)), sender)
    PROVE  PlanOfDenominations(p)
<1> DEFINE call == SdkCall(p, SpendInputs(p))
<1>1. ExitShape(call.inputs, call.gross, OverloadNote(call))
    BY DEF WithdrawAccepted, LegacyWithdrawAccepted
<1>2. call.inputs.noteAmount = p.noteAmount /\ call.gross = p.gross
    BY DEF SdkCall, SpendInputs
<1> HIDE DEF call
<1>3. p.noteAmount \in Nat /\ p.gross \in Int
    BY DEF WalletsPlan, WithdrawCircuitV1
<1> QED BY <1>1, <1>2, <1>3 DEF ExitShape, PlanOfDenominations, Change

(* A wallet hands out its own plan's call. *)
LEMMA BuildsOwnCall ==
    ASSUME LegacyPlansWellFormed, PlansInTree, PlanAmounts, PlansPaid, NEW p \in plans,
           NEW q \in plans, SdkBuilds(p, SpendInputs(q)) \/ WebBuilds(p, SpendInputs(q))
    PROVE  \E b : BuiltCall(b) /\ built' = built \cup {b}
<1>1. CASE SdkBuilds(p, SpendInputs(q))
  <2>1. p.client = "sdk" /\ SpendInputs(q) = SpendInputs(p)
      BY <1>1, SdkInputsOwn DEF SdkBuilds
  <2> DEFINE b == [plan |-> p, call |-> SdkCall(p, SpendInputs(p))]
  <2>2. built' = built \cup {b}
      BY <1>1, <2>1 DEF SdkBuilds
  <2>3. BuiltCall(b)
      BY <2>1 DEF BuiltCall
  <2> QED BY <2>2, <2>3
<1>2. CASE WebBuilds(p, SpendInputs(q))
  <2>1. p.client = "web" /\ SpendInputs(q) = SpendInputs(p)
      BY <1>2, WebInputsDetermined DEF WebBuilds
  <2> DEFINE b == [plan |-> p, call |-> SdkCall(p, SpendInputs(p))]
  <2>2. WebCall(p, SpendInputs(p)) = SdkCall(p, SpendInputs(p))
      BY DEF WebCall, SdkCall
  <2>3. built' = built \cup {b}
      BY <1>2, <2>1, <2>2 DEF WebBuilds
  <2>4. WithdrawAccepted(SdkCall(p, SpendInputs(p)), ZeroAddress)
      BY <1>2, <2>1, <2>2 DEF WebBuilds, WebPreflight
  <2>5. PlanOfDenominations(p)
      BY <2>1, <2>4, AcceptedAmounts DEF PlansPaid
  <2>6. BuiltCall(b)
      BY <2>1, <2>5 DEF BuiltCall
  <2> QED BY <2>3, <2>6
<1> QED BY <1>1, <1>2

(* What an insertion records is natural. *)
LEMMA RecordedNatural ==
    ASSUME AmountsNatural, NEW c, NEW a \in Nat,
           commitmentAmounts' = [commitmentAmounts EXCEPT ![c] = a]
    PROVE  AmountsNatural'
BY DEF AmountsNatural

(* Amounts stay natural, time goes on. *)
LEMMA AmountsStep ==
    ASSUME LegacyTypeOK, AmountsNatural, timestamp \in Int, [LegacyNext]_allVars
    PROVE  AmountsNatural' /\ timestamp' \in Int
<1>1. CASE UNCHANGED <<commitmentAmounts, timestamp>>
    BY <1>1 DEF AmountsNatural
<1>2. CASE UNCHANGED poolVars
    BY <1>1, <1>2 DEF poolVars
<1>3. ASSUME NEW c \in Commitments, NEW value \in Denominations, NEW note,
             SubmitDeposit(c, value, note)
      PROVE  AmountsNatural' /\ timestamp' \in Int
  <2>1. value \in Nat
      BY LegacyAssumption
  <2> QED BY <1>3, <2>1, RecordedNatural DEF SubmitDeposit, LegacyDeposit
<1>4. CASE OwnersStep
    BY <1>2, <1>4, OwnersLeavePool
<1>5. ASSUME NEW p, NEW inputs, SdkBuilds(p, inputs) \/ WebBuilds(p, inputs)
      PROVE  UNCHANGED poolVars
    BY <1>5 DEF SdkBuilds, WebBuilds
<1>6. ASSUME NEW call, NEW deadline, RelayAdmits(call, deadline) PROVE UNCHANGED poolVars
    BY <1>6 DEF RelayAdmits
<1>7. ASSUME NEW call, NEW sender, SubmitTransfer(call, sender)
      PROVE  AmountsNatural' /\ timestamp' \in Int
  <2>1. /\ commitmentAmounts' =
              [commitmentAmounts EXCEPT ![call.newCommitment] = call.inputs.noteAmount]
        /\ UNCHANGED timestamp
        /\ call.inputs.spentCommitment \in commitments
        /\ commitmentAmounts[call.inputs.spentCommitment] = call.inputs.noteAmount
      BY <1>7 DEF SubmitTransfer, LegacyPrivateTransfer, LegacyTransferAccepted,
         LegacyTransferInputs, SpentCommitmentAmount
  <2>2. call.inputs.noteAmount \in Nat
      BY <2>1 DEF AmountsNatural, LegacyTypeOK, commitments, Range
  <2> QED BY <2>1, <2>2, RecordedNatural
<1>8. ASSUME NEW call, NEW sender, SubmitWithdraw(call, sender)
      PROVE  AmountsNatural' /\ timestamp' \in Int
  <2> DEFINE out == call.inputs.newCommitment
             a == call.inputs.noteAmount - call.gross
  <2>1. /\ commitmentAmounts' = ChangeRecorded(out, call.inputs.noteAmount, call.gross)
        /\ UNCHANGED timestamp
        /\ ExitShape(call.inputs, call.gross, OverloadNote(call))
      BY <1>8 DEF SubmitWithdraw, LegacyWithdraw, LegacyWithdrawAccepted
  <2>2. CASE out = NoCommitment
      BY <1>1, <2>1, <2>2 DEF ChangeRecorded
  <2>3. CASE out # NoCommitment
    <3>1. a \in Nat
        BY <2>1, <2>3, LegacyAssumption DEF ExitShape
    <3>2. commitmentAmounts' = [commitmentAmounts EXCEPT ![out] = a]
        BY <2>1, <2>3 DEF ChangeRecorded
    <3> HIDE DEF a
    <3> QED BY <2>1, <3>1, <3>2, RecordedNatural
  <2> QED BY <2>2, <2>3
<1>9. CASE ControllerStep \/ (\E amount \in 1..MaxDisturbed : ForceEther(amount)) \/ TimePasses
    BY <1>9 DEF ControllerStep, LegacySweepFees, LegacyRecoverExcess, LegacyPause, ForceEther,
       TimePasses, AmountsNatural
<1> QED BY <1>2, <1>3, <1>4, <1>5, <1>6, <1>7, <1>8, <1>9, Zenon DEF LegacyNext, allVars

(* How relayed and built grow. *)
LEMMA HandedOutStep ==
    ASSUME [LegacyNext]_allVars
    PROVE  /\ \/ UNCHANGED relayed
              \/ \E selector \in WithdrawSelectors : \E call \in WithdrawCalls(selector) :
                    \E deadline : RelayAdmits(call, deadline)
           /\ \/ UNCHANGED built
              \/ \E p \in plans, q \in plans :
                    SdkBuilds(p, SpendInputs(q)) \/ WebBuilds(p, SpendInputs(q))
<1>1. CASE OwnersStep
  <2>1. ASSUME NEW p, Prove(p) PROVE UNCHANGED <<relayed, built>>
      BY <2>1 DEF Prove
  <2>2. ASSUME NEW leaf, NEW out, NEW gross, NEW destination, NEW cipher,
               \/ SdkPlans(leaf, out, gross, destination, cipher)
               \/ WebPlans(leaf, out, gross, destination, cipher)
        PROVE  UNCHANGED <<relayed, built>>
      BY <2>1, <2>2 DEF SdkPlans, WebPlans
  <2>3. ASSUME NEW d, NEW selector, NEW leaf, NEW out, NEW gross, NEW destination, NEW note,
               NEW policy, OwnerPlans(d, selector, leaf, out, gross, destination, note, policy)
        PROVE  UNCHANGED <<relayed, built>>
      BY <2>1, <2>3 DEF OwnerPlans
  <2> QED BY <1>1, <2>2, <2>3 DEF OwnersStep
<1>2. CASE UNCHANGED bindingVars
    BY <1>2 DEF bindingVars
<1>3. ASSUME NEW p, NEW inputs, SdkBuilds(p, inputs) \/ WebBuilds(p, inputs)
      PROVE  UNCHANGED relayed
    BY <1>3 DEF SdkBuilds, WebBuilds
<1>4. ASSUME NEW call, NEW deadline, RelayAdmits(call, deadline)
      PROVE  UNCHANGED built
    BY <1>4 DEF RelayAdmits
<1>5. ASSUME NEW c, NEW value, NEW note, SubmitDeposit(c, value, note) PROVE UNCHANGED bindingVars
    BY <1>5 DEF SubmitDeposit
<1>6. ASSUME NEW call, NEW sender, SubmitTransfer(call, sender) \/ SubmitWithdraw(call, sender)
      PROVE  UNCHANGED <<relayed, built>>
    BY <1>6 DEF SubmitTransfer, SubmitWithdraw
<1>7. ASSUME NEW p \in plans, NEW q \in plans,
             SdkBuilds(p, SpendInputs(q)) \/ WebBuilds(p, SpendInputs(q))
      PROVE  /\ UNCHANGED relayed
             /\ \E p2 \in plans, q2 \in plans :
                    SdkBuilds(p2, SpendInputs(q2)) \/ WebBuilds(p2, SpendInputs(q2))
    BY <1>3, <1>7
<1> QED BY <1>1, <1>2, <1>4, <1>5, <1>6, <1>7 DEF LegacyNext, allVars

(* The relay admits only calls with published inputs and well-formed       *)
(* policies.                                                               *)
LEMMA AdmitsPassed ==
    ASSUME PlansPaid, NEW selector, NEW call \in WithdrawCalls(selector), NEW deadline,
           RelayAdmits(call, deadline)
    PROVE  /\ relayed' = relayed \cup {[call |-> call, deadline |-> deadline]}
           /\ RelayPasses(call, deadline) /\ PolicyRecord(call.policy) /\ VerifyProof(call.inputs)
<1>1. relayed' = relayed \cup {[call |-> call, deadline |-> deadline]}
    BY DEF RelayAdmits
<1>2. RelayPasses(call, deadline)
    BY DEF RelayAdmits, RelayAllows, RelayPasses
<1>3. VerifyProof(call.inputs)
    BY DEF WithdrawCalls, CallsWith, VerifyProof
<1>4. PICK policy \in OwnerPolicies \cup {p.policy : p \in plans} :
         call.policy = OverloadPolicy([selector |-> selector, policy |-> policy])
    BY DEF WithdrawCalls, CallsWith
<1>5. PolicyRecord(policy)
    BY OwnerPolicyIsRecord DEF PlansPaid
<1> DEFINE c == [selector |-> selector, policy |-> policy]
<1>6. PolicyRecord(c.policy) /\ call.policy = OverloadPolicy(c)
    BY <1>4, <1>5
<1> HIDE DEF c
<1>7. PolicyRecord(call.policy)
    BY <1>6, OverloadIsRecord
<1> QED BY <1>1, <1>2, <1>3, <1>7

ChecksTree == LegacyTypeOK /\ LegacyPlansWellFormed /\ NotesInv

LEMMA ChecksStep ==
    ASSUME ChecksTree, PlanAmounts, ChecksInv, [LegacyNext]_allVars
    PROVE  ChecksInv' /\ PlanAmounts'
<1>1. plans \subseteq plans' /\ PlansPaid' /\ PlanAmounts'
    BY LegacyPlansStep, PlansPaidStep DEF ChecksTree, ChecksInv
<1>2. AmountsNatural' /\ timestamp' \in Int
    BY AmountsStep DEF ChecksTree, ChecksInv
<1> DEFINE Passed(r) == /\ RelayPasses(r.call, r.deadline) /\ PolicyRecord(r.call.policy)
                        /\ VerifyProof(r.call.inputs)
<1>3. ASSUME NEW call, NEW deadline, RelayPasses(call, deadline)
      PROVE  RelayPasses(call, deadline)'
    BY <1>3 DEF RelayPasses, RelayInputsMatch, RelayBoundsHold, RelayPreflight,
       FullExit, RelayPolicyPreflight, RelayHashesMatch, RelayBoundedPreflight,
       RelayChangePreflight, RelayUnifiedExitPreflight
<1>4. ASSUME NEW r, Passed(r) PROVE Passed(r)'
  <2>1. VerifyProof(r.call.inputs)'
      BY <1>1, <1>4 DEF VerifyProof
  <2>2. RelayPasses(r.call, r.deadline)'
      BY <1>3, <1>4
  <2> QED BY <1>4, <2>1, <2>2 DEF PolicyRecord
<1>5. RelayedPassed'
  <2>1. \A r \in relayed : Passed(r)
      BY DEF ChecksInv, RelayedPassed
  <2>2. CASE UNCHANGED relayed
      BY <1>4, <2>1, <2>2 DEF RelayedPassed
  <2>3. ASSUME NEW selector, NEW call \in WithdrawCalls(selector), NEW deadline,
               RelayAdmits(call, deadline)
        PROVE  RelayedPassed'
    <3> DEFINE r == [call |-> call, deadline |-> deadline]
    <3>1. relayed' = relayed \cup {r} /\ Passed(r)
        BY <2>3, AdmitsPassed DEF ChecksInv
    <3> HIDE DEF r
    <3>2. \A s \in relayed' : Passed(s)'
        BY <1>4, <2>1, <3>1
    <3> QED BY <3>2 DEF RelayedPassed
  <2> QED BY <2>2, <2>3, HandedOutStep
<1>6. ASSUME NEW b, BuiltCall(b) PROVE BuiltCall(b)'
    BY <1>1, <1>6 DEF BuiltCall, PlanOfDenominations, Change
<1>7. \A b \in built' : BuiltCall(b)'
  <2>1. \A b \in built : BuiltCall(b)
      BY DEF ChecksInv
  <2>2. CASE UNCHANGED built
      BY <1>6, <2>1, <2>2
  <2>3. CASE \E p \in plans, q \in plans :
                SdkBuilds(p, SpendInputs(q)) \/ WebBuilds(p, SpendInputs(q))
    <3>1. PICK b : BuiltCall(b) /\ built' = built \cup {b}
        BY <2>3, BuildsOwnCall DEF ChecksTree, ChecksInv, NotesInv
    <3> QED BY <1>6, <2>1, <3>1
  <2> QED BY <2>2, <2>3, HandedOutStep
<1> QED BY <1>1, <1>2, <1>5, <1>7 DEF ChecksInv

(* What ChecksInv says of the calls is what LegacyChecksAgree demands.     *)
LEMMA ChecksInvAgrees ==
    ASSUME ChecksTree, BalanceCovers, ChecksInv PROVE LegacyChecksAgree
<1> USE DEF ChecksTree, ChecksInv
<1>1. ASSUME NEW r \in relayed, timestamp <= r.deadline, ~Overtaken(r.call.inputs)
      PROVE  WithdrawAccepted(r.call, RelayAccount)
    BY <1>1, PassedIsAccepted DEF RelayedPassed
<1>2. ASSUME NEW b \in built
      PROVE  /\ RelayAllows(b.call, timestamp + 1) <=> PlanOfDenominations(b.plan)
             /\ \A sender \in Accounts :
                   ~Overtaken(b.call.inputs) =>
                       (WithdrawAccepted(b.call, sender) <=> PlanOfDenominations(b.plan))
             /\ b.plan.client = "web" =>
                   /\ PlanOfDenominations(b.plan)
                   /\ b.plan.out # NoCommitment => WebChangePreflight(b.plan)
  <2> DEFINE p == b.plan
  <2>1. BuiltCall(b)
      OBVIOUS
  <2>2. /\ p \in plans /\ p.client \in {"sdk", "web"} /\ b.call = SdkCall(p, SpendInputs(p))
        /\ p.client = "web" => PlanOfDenominations(p)
      BY <2>1 DEF BuiltCall
  <2>3. WalletsPlan(p)
      BY <2>2 DEF PlansPaid
  <2>4. /\ RelayPasses(b.call, timestamp + 1) <=> PlanOfDenominations(p)
        /\ PolicyRecord(p.policy)
      BY <2>2, <2>3, WalletCallPasses
  <2>5. timestamp + 1 > timestamp
        /\ timestamp + 1 <= timestamp + MAX_RELAY_DEADLINE_SECONDS_FROM_NOW
      BY LegacyBindingAssumption
  <2>6. RelayAllows(b.call, timestamp + 1) <=> RelayPasses(b.call, timestamp + 1)
      BY <2>5 DEF RelayAllows, RelayPasses
  <2>7. /\ b.call.selector = WithdrawNoteBounds /\ b.call.policy = p.policy
        /\ b.call.inputs = SpendInputs(p) /\ VerifyProof(b.call.inputs)
      BY <2>2 DEF SdkCall, VerifyProof
  <2>8. ASSUME NEW sender, ~Overtaken(b.call.inputs), PlanOfDenominations(p)
        PROVE  WithdrawAccepted(b.call, sender)
      BY <2>4, <2>7, <2>8, PassedIsAccepted DEF WithdrawNoteBounds, WithdrawPolicy
  <2>9. ASSUME NEW sender, WithdrawAccepted(b.call, sender) PROVE PlanOfDenominations(p)
      BY <2>2, <2>3, <2>9, AcceptedAmounts
  <2>10. ASSUME p.client = "web", p.out # NoCommitment, PlanOfDenominations(p)
         PROVE  WebChangePreflight(p)
    <3>1. /\ p.gross \in 1..p.noteAmount /\ p.noteAmount \in Nat \ {0} /\ p.fee = FeeOf(p.gross)
          /\ p.gross = p.noteAmount => p.out = NoCommitment
          /\ p.note \notin {EmptyNote, OversizedNote}
        BY <2>3, <2>10 DEF WalletsPlan, WithdrawCircuitV1
    <3>2. FeeOf(p.gross) \in Nat /\ FeeOf(p.gross) < p.gross
        BY <3>1, LegacyFeeBound
    <3>3. Change(p) > 0 /\ p.fee <= p.gross
        BY <2>10, <3>1, <3>2 DEF Change
    <3>4. PlanNoteHash(p) = WebChangeNoteHash(p)
          /\ PlanContextHash(p) = WebContextHashV1(p, PlanNoteHash(p))
        BY <2>10 DEF PlanNoteHash, PlanContextHash
    <3> QED BY <2>10, <3>1, <3>3, <3>4 DEF WebChangePreflight, SpendInputs
  <2> QED BY <2>2, <2>4, <2>6, <2>8, <2>9, <2>10
<1> QED BY <1>1, <1>2 DEF LegacyChecksAgree

(* The relay, the wallets and the v1.1 pool agree on every call.           *)
THEOREM LegacyChecksAlwaysAgree == LegacySpec => []LegacyChecksAgree
<1> DEFINE Inv == ChecksTree /\ BalanceCovers /\ ChecksInv /\ PlanAmounts
<1>1. LegacyBindingInit => Inv
  <2> SUFFICES ASSUME LegacyBindingInit PROVE Inv
      OBVIOUS
  <2>1. LegacyTypeOK /\ BalanceCovers /\ LegacyPlansWellFormed /\ NotesInv
      BY SolvencyInit
  <2>2. AmountsNatural /\ timestamp \in Int
      BY LegacyAssumption DEF LegacyBindingInit, LegacyInit, AmountsNatural
  <2>3. RelayedPassed /\ PlansPaid /\ PlanAmounts /\ \A b \in built : BuiltCall(b)
      BY DEF LegacyBindingInit, RelayedPassed, PlansPaid, PlanAmounts
  <2> QED BY <2>1, <2>2, <2>3 DEF ChecksTree, ChecksInv
<1>2. Inv /\ [LegacyNext]_allVars => Inv'
  <2> SUFFICES ASSUME Inv, [LegacyNext]_allVars PROVE Inv'
      OBVIOUS
  <2>1. LegacyTypeOK' /\ BalanceCovers'
      BY RecordsStep DEF ChecksTree
  <2>2. LegacyPlansWellFormed' /\ NotesInv'
      BY LegacyPlansStep, NotesStep DEF ChecksTree
  <2>3. ChecksInv' /\ PlanAmounts'
      BY ChecksStep
  <2> QED BY <2>1, <2>2, <2>3 DEF ChecksTree
<1>3. Inv => LegacyChecksAgree
    BY ChecksInvAgrees
<1> QED BY <1>1, <1>2, <1>3, PTL DEF LegacySpec

-----------------------------------------------------------------------------
Known == 1..Len(notes)

NoteData == [amount : Int, key : Wallets \cup {None}, owner : Wallets]
Txs == [spends : Nat \cup {None}, creates : Nat, root : Nat]
Pools ==
  [leaves : Seq(Nat), spent : SUBSET Nat, pending : SUBSET Txs,
   receipts : SUBSET [tx : Txs, ok : BOOLEAN]]

\* The fields of a session, whichever note it has selected.
IsSession(u) ==
  u \in [account : Wallets \cup {None}, signature : Wallets \cup {None}, visible : SUBSET Nat,
         selected : {u.selected}, bundle : Bundles \cup {None},
         scanFailed : BOOLEAN, unlocking : BOOLEAN]

\* A vault, the current one or one that a handler captured.
EntryOK(e) == e \in [spent : BOOLEAN, route : {"local-note", "recovery-kit"}, leaf : {e.leaf}]
VaultOK(v) == DOMAIN v \subseteq Known /\ \A n \in DOMAIN v : EntryOK(v[n])

SessionOK ==
  /\ IsSession(ui)
  /\ ui.signature # None => ui.account = ui.signature
  /\ ui.visible \subseteq Known
  /\ ui.bundle # None =>
       /\ ui.bundle.out \in 0..Len(notes)
       /\ ui.bundle.change => ui.bundle.out \in Known

TypesOK ==
  /\ notes \in Seq(NoteData)
  /\ chain \in Pools
  /\ VaultOK(vault)
  /\ \A f \in files : f.note \in Known /\ f.kind \in {"kit", "record"}

-----------------------------------------------------------------------------
(* The handler that holds the lock, by the point it has reached.           *)

Sent == flow.pc = "receipt"

Connecting == flow.pc = "connect" /\ flow = [pc |-> "connect", account |-> ui.account]

Depositing ==
  /\ flow.pc = "deposit"
  /\ flow = [pc |-> "deposit", amount |-> flow.amount, account |-> ui.account,
             signature |-> ui.signature, vault |-> flow.vault]
  /\ flow.amount \in Int

OutIsOwn(n) == n \in Known /\ notes[n].key = ui.signature

Confirming ==
  /\ flow.pc = "confirm"
  /\ flow = [pc |-> "confirm", out |-> flow.out, vault |-> flow.vault]
  /\ OutIsOwn(flow.out)

DepositSent ==
  /\ Sent /\ flow.kind = "deposit"
  /\ flow = [kind |-> "deposit", pc |-> "receipt", tx |-> DepositTx(flow.out),
             polls |-> flow.polls, vault |-> flow.vault, out |-> flow.out]
  /\ OutIsOwn(flow.out)

SplitsOwn(n, gross) == n \in Known /\ gross \in Int /\ ui.selected = n

FindingPath ==
  /\ flow.pc = "path"
  /\ flow = [pc |-> "path", record |-> flow.record, leaf |-> flow.leaf, gross |-> flow.gross,
             signature |-> ui.signature, vault |-> flow.vault, shown |-> flow.shown]
  /\ SplitsOwn(flow.record, flow.gross)

Proving ==
  /\ flow.pc = "prove"
  /\ flow = [pc |-> "prove", record |-> flow.record, gross |-> flow.gross,
             signature |-> ui.signature, vault |-> flow.vault, shown |-> flow.shown,
             root |-> flow.root, attempt |-> flow.attempt]
  /\ SplitsOwn(flow.record, flow.gross)
  /\ flow.root \in Nat

\* The bundle that is sent is the one on the screen; in a guided withdrawal
\* the note it spends is the one selected, which the handler will mark.
SpendsSelected ==
  /\ flow.kind \in {"guided", "manual"}
  /\ ui.bundle \in Bundles
  /\ flow.kind = "guided" =>
       flow.record \in Known /\ flow.record = ui.bundle.note /\ flow.record = ui.selected
  /\ flow.kind = "manual" => mode.diagnostics

Withdrawing ==
  /\ flow.pc \in {"preflight", "relay", "output"}
  /\ flow = [kind |-> flow.kind, pc |-> flow.pc, record |-> flow.record, bundle |-> ui.bundle,
             vault |-> flow.vault, shown |-> flow.shown]
  /\ SpendsSelected

WithdrawalSent ==
  /\ Sent /\ flow.kind # "deposit"
  /\ flow = [kind |-> flow.kind, pc |-> "receipt", tx |-> WithdrawTx(ui.bundle),
             polls |-> flow.polls, record |-> flow.record, bundle |-> ui.bundle,
             vault |-> flow.vault, shown |-> flow.shown]
  /\ SpendsSelected

FlowOK ==
  \/ flow = Idle \/ Connecting \/ Depositing \/ Confirming \/ DepositSent
  \/ FindingPath \/ Proving \/ Withdrawing \/ WithdrawalSent

HoldsVault == flow.pc \notin {"idle", "connect"}
FlowVaultOK == HoldsVault => VaultOK(flow.vault)

\* What an unlock that awaits an answer carries.
UnlockStage(u) ==
  \/ u = [pc |-> "account"] /\ ui.account = None
  \/ u = [pc |-> "sign", wallet |-> ui.account] /\ ui.account # None
  \/ u = [pc |-> "scan", wallet |-> ui.account] /\ ui.account # None /\ ui.signature = ui.account
  \/ /\ u.pc = "ingest"
     /\ u = [pc |-> "ingest", found |-> u.found]
     /\ \A n \in DOMAIN u.found :
          /\ OutIsOwn(n)
          /\ u.found[n].spent \in BOOLEAN
          /\ u.found[n].spent => n \in chain.spent

UnlockOK(i) ==
  \/ unlocks[i] = Idle
  \/ /\ \A j \in UnlockIds : j = i \/ unlocks[j] = Idle
     /\ flow = Idle
     /\ UnlockStage(unlocks[i])

-----------------------------------------------------------------------------
(* Everything under way on the network is of the handler's transaction.    *)

PendingIsOwn == \A tx \in chain.pending : Sent /\ tx = flow.tx /\ ~HasReceipt(tx)

ReceiptsOK ==
  /\ \A rc \in chain.receipts : ~(Mined(rc.tx, TRUE) /\ Mined(rc.tx, FALSE))
  /\ \A rc \in chain.receipts : rc.ok /\ rc.tx.spends # None => rc.tx.spends \in chain.spent

LogOfFlow(log) ==
  /\ Sent /\ Mined(flow.tx, TRUE)
  /\ \/ log = [topic |-> "NullifierSpent", note |-> flow.tx.spends] /\ flow.tx.spends # None
     \/ log = [topic |-> "NoteCreated", note |-> flow.tx.creates] /\ flow.tx.creates # Dummy

FeedIsOwn == \A log \in feed : LogOfFlow(log)

LiveIsOwn ==
  \A r \in live :
    /\ Sent /\ Mined(flow.tx, TRUE)
    /\ r = [note |-> r.note, wallet |-> ui.signature]
    /\ r.note \in Known

NetworkOK == PendingIsOwn /\ ReceiptsOK /\ FeedIsOwn /\ LiveIsOwn

-----------------------------------------------------------------------------
(* What the properties need: whose notes are shown, and which are marked.  *)

\* A note the session can spend is its own or came from a kit, which is
\* never split; v is the vault or the one that the handler captured.
Shows(v, n) ==
  \/ notes[n].key = ui.signature
  \/ n \in imported /\ (n \in DOMAIN v => v[n].route = "recovery-kit")

HoldsShown ==
  \/ flow.pc \in {"path", "prove", "preflight", "relay", "output"}
  \/ flow.pc = "receipt" /\ flow.kind # "deposit"

PrivateAtRest ==
  /\ \A n \in Known : notes[n].key = notes[n].owner
  /\ \A n \in ui.visible : Shows(vault, n)
  /\ ui.bundle # None /\ ui.bundle.change => notes[ui.bundle.out].key = ui.signature

NotesPrivate ==
  /\ PrivateAtRest
  /\ HoldsVault => \A n \in ui.visible : Shows(flow.vault, n)
  /\ flow.pc \in {"path", "prove"} =>
       (flow.gross < notes[flow.record].amount => notes[flow.record].key = ui.signature)
  /\ HoldsShown => flow.shown \subseteq ui.visible

MarksTrue(v) == \A n \in DOMAIN v : v[n].spent => n \in chain.spent

CarefulOK ==
  /\ SessionOK /\ TypesOK
  /\ FlowOK /\ FlowVaultOK
  /\ \A i \in UnlockIds : UnlockOK(i)
  /\ DOMAIN unlocks = UnlockIds
  /\ NetworkOK
  /\ "record" \notin mode.imports => NotesPrivate
  /\ ~mode.diagnostics => MarksTrue(vault) /\ (HoldsVault => MarksTrue(flow.vault))

PanelInv == mode \in Modes /\ (Careful => CarefulOK)

-----------------------------------------------------------------------------
(* The session's helpers, one fact each.                                   *)

SameView(u, v) ==
  /\ u.account = v.account /\ u.signature = v.signature /\ u.visible = v.visible
  /\ u.selected = v.selected /\ u.bundle = v.bundle

LEMMA StatusKeeps ==
  ASSUME NEW u, IsSession(u)
  PROVE  IsSession(Status(u)) /\ SameView(Status(u), u)
BY DEF Status, IsSession, SameView

LEMMA UnlockingKeeps ==
  ASSUME NEW u, IsSession(u)
  PROVE  IsSession(Unlocking(u)) /\ SameView(Unlocking(u), u)
BY DEF Unlocking, IsSession, SameView

LEMMA BundleClears ==
  ASSUME NEW u, IsSession(u)
  PROVE  /\ IsSession(ClearWithdrawalProofBundle(u))
         /\ ClearWithdrawalProofBundle(u).account = u.account
         /\ ClearWithdrawalProofBundle(u).signature = u.signature
         /\ ClearWithdrawalProofBundle(u).visible = u.visible
         /\ ClearWithdrawalProofBundle(u).selected = u.selected
         /\ ClearWithdrawalProofBundle(u).bundle = None
BY DEF ClearWithdrawalProofBundle, IsSession

LEMMA NoteSelects ==
  ASSUME NEW u, IsSession(u), NEW n
  PROVE  /\ IsSession(SelectNoteRecordForWithdrawal(u, n))
         /\ SelectNoteRecordForWithdrawal(u, n).account = u.account
         /\ SelectNoteRecordForWithdrawal(u, n).signature = u.signature
         /\ SelectNoteRecordForWithdrawal(u, n).visible = u.visible
         /\ SelectNoteRecordForWithdrawal(u, n).selected = n
         /\ SelectNoteRecordForWithdrawal(u, n).bundle = u.bundle
BY DEF SelectNoteRecordForWithdrawal, IsSession

LEMMA NoteShows ==
  ASSUME NEW u, IsSession(u), NEW n \in Nat
  PROVE  /\ IsSession(Show(u, n))
         /\ Show(u, n).account = u.account
         /\ Show(u, n).signature = u.signature
         /\ Show(u, n).visible = u.visible \cup {n}
         /\ Show(u, n).selected = u.selected
         /\ Show(u, n).bundle = u.bundle
BY DEF Show, IsSession

\* Another account ends the session: nothing is shown, signed or proved.
LEMMA AccountSwitches ==
  ASSUME NEW u, IsSession(u), NEW next \in Wallets \cup {None}
  PROVE  /\ IsSession(SwitchAccount(u, u.account, next))
         /\ SwitchAccount(u, u.account, next).account = next
         /\ next = u.account => SameView(SwitchAccount(u, u.account, next), u)
         /\ next # u.account =>
              /\ SwitchAccount(u, u.account, next).signature = None
              /\ SwitchAccount(u, u.account, next).visible = {}
              /\ SwitchAccount(u, u.account, next).bundle = None
BY DEF SwitchAccount, ClearSelectedSessionNote, ClearWithdrawalProofBundle, IsSession, SameView

-----------------------------------------------------------------------------
(* Frames: parts of the invariant that an action leaves alone.             *)

LEMMA SessionFrame ==
  ASSUME SessionOK, IsSession(ui'), SameView(ui', ui), notes' = notes
  PROVE  SessionOK'
BY DEF SessionOK, SameView, Known

LEMMA TypesFrame ==
  ASSUME TypesOK, UNCHANGED <<notes, chain, vault, files>>
  PROVE  TypesOK'
BY DEF TypesOK, Known, VaultOK, EntryOK

\* A handler that has sent nothing yet has nothing under way on the network.
LEMMA NothingUnderWay ==
  ASSUME NetworkOK, ~Sent
  PROVE  chain.pending = {} /\ feed = {} /\ live = {}
BY DEF NetworkOK, PendingIsOwn, FeedIsOwn, LiveIsOwn, LogOfFlow

\* What is seen of a receipt has been seen of its logs.
LEMMA EverythingSeen ==
  ASSUME CarefulOK, Sent, HasReceipt(flow.tx), feed = {}, live = {}
  PROVE  chain.pending = {}
BY DEF CarefulOK, NetworkOK, PendingIsOwn

LEMMA RevertedQuietly ==
  ASSUME CarefulOK, Sent, Mined(flow.tx, FALSE)
  PROVE  chain.pending = {} /\ feed = {} /\ live = {}
BY DEF CarefulOK, NetworkOK, PendingIsOwn, FeedIsOwn, LiveIsOwn, LogOfFlow, ReceiptsOK, HasReceipt, Mined

LEMMA StillNetwork ==
  ASSUME NetworkOK, chain.pending = {}, feed = {}, live = {}, UNCHANGED <<chain, feed, live>>
  PROVE  NetworkOK'
BY DEF NetworkOK, PendingIsOwn, FeedIsOwn, LiveIsOwn, ReceiptsOK, Mined, HasReceipt

LEMMA NoUnlockWhileLocked ==
  ASSUME CarefulOK, flow # Idle
  PROVE  \A i \in UnlockIds : unlocks[i] = Idle
BY DEF CarefulOK, UnlockOK

LEMMA UnlocksFrame ==
  ASSUME \A i \in UnlockIds : unlocks[i] = Idle, DOMAIN unlocks = UnlockIds, unlocks' = unlocks
  PROVE  (\A i \in UnlockIds : UnlockOK(i))' /\ (DOMAIN unlocks = UnlockIds)'
BY DEF UnlockOK

\* The lock is released: nothing but the status line changes.
LEMMA Released ==
  ASSUME CarefulOK, chain.pending = {}, feed = {}, live = {},
         \A i \in UnlockIds : unlocks[i] = Idle,
         flow' = Idle, ui' = Status(ui),
         UNCHANGED <<vault, unlocks, live, notes, chain, feed, files, imported, mode>>
  PROVE  CarefulOK'
<1>1. IsSession(ui') /\ SameView(ui', ui)
  BY StatusKeeps DEF CarefulOK, SessionOK
<1>2. SessionOK' /\ TypesOK'
  BY <1>1, SessionFrame, TypesFrame DEF CarefulOK
<1>3. FlowOK' /\ FlowVaultOK' /\ ~HoldsVault' /\ ~HoldsShown'
  BY DEF FlowOK, FlowVaultOK, HoldsVault, HoldsShown, Idle
<1>4. NetworkOK'
  BY StillNetwork DEF CarefulOK
<1>5. (\A i \in UnlockIds : UnlockOK(i))' /\ (DOMAIN unlocks = UnlockIds)'
  BY UnlocksFrame DEF CarefulOK
<1>6. ("record" \notin mode.imports => NotesPrivate)'
  BY <1>1, <1>3 DEF CarefulOK, NotesPrivate, PrivateAtRest, Shows, Known, SameView, Idle
<1>7. (~mode.diagnostics => MarksTrue(vault) /\ (HoldsVault => MarksTrue(flow.vault)))'
  BY <1>3 DEF CarefulOK, MarksTrue
<1> QED BY <1>2, <1>3, <1>4, <1>5, <1>6, <1>7 DEF CarefulOK

-----------------------------------------------------------------------------
(* The session's own steps: connect, disconnect, unlock, reload.           *)

\* A click of a careful user finds nothing running.
LEMMA ClickIsQuiet ==
  ASSUME CarefulOK, Careful, Click
  PROVE  /\ flow = Idle /\ feed = {} /\ live = {} /\ chain.pending = {}
         /\ \A i \in UnlockIds : unlocks[i] = Idle
         /\ mode' = mode
<1>1. flow = Idle /\ live = {} /\ (\A i \in UnlockIds : unlocks[i] = Idle) /\ mode' = mode
  BY DEF Click, Careful, NothingPending
<1>2. feed = {} /\ chain.pending = {}
  BY <1>1, NothingUnderWay DEF CarefulOK, Sent, Idle
<1> QED BY <1>1, <1>2

\* Without a handler the invariant is about the session and the vault only.
LEMMA IdleInv ==
  ASSUME CarefulOK, chain.pending = {}, feed = {}, live = {},
         flow' = Idle, UNCHANGED <<chain, feed, live, mode>>,
         SessionOK', TypesOK',
         (\A i \in UnlockIds : UnlockOK(i))', (DOMAIN unlocks = UnlockIds)',
         "record" \notin mode.imports =>
           PrivateAtRest',
         ~mode.diagnostics => MarksTrue(vault)'
  PROVE  CarefulOK'
<1>1. FlowOK' /\ FlowVaultOK' /\ ~HoldsVault' /\ ~HoldsShown' /\ (flow.pc \notin {"path", "prove"})'
  BY DEF FlowOK, FlowVaultOK, HoldsVault, HoldsShown, Idle
<1>2. NetworkOK'
  BY StillNetwork DEF CarefulOK
<1>3. ("record" \notin mode.imports => NotesPrivate)'
  BY <1>1 DEF NotesPrivate
<1> QED BY <1>1, <1>2, <1>3 DEF CarefulOK

\* Nothing is left of a session, or all of it.
ViewKept ==
  \/ ui'.visible = {} /\ ui'.bundle = None
  \/ ui'.visible = ui.visible /\ ui'.signature = ui.signature /\ ui'.bundle = ui.bundle

LEMMA SessionSwitched ==
  ASSUME CarefulOK, NEW next \in Wallets \cup {None},
         ui' = Status(SwitchAccount(ui, ui.account, next)), notes' = notes
  PROVE  /\ SessionOK'
         /\ ViewKept
<1> DEFINE u == SwitchAccount(ui, ui.account, next)
<1>1. IsSession(ui)
  BY DEF CarefulOK, SessionOK
<1>2. IsSession(u) /\ u.account = next
      /\ (next = ui.account => SameView(u, ui))
      /\ (next # ui.account => u.signature = None /\ u.visible = {} /\ u.bundle = None)
  BY <1>1, AccountSwitches
<1>3. IsSession(ui') /\ SameView(ui', u)
  BY <1>2, StatusKeeps
<1> HIDE DEF u
<1>4. CASE next = ui.account
  <2>1. SameView(ui', ui)
    BY <1>2, <1>3, <1>4 DEF SameView
  <2> QED BY <2>1, <1>3, SessionFrame DEF CarefulOK, SameView, ViewKept
<1>5. CASE next # ui.account
  BY <1>2, <1>3, <1>5 DEF SessionOK, SameView, ViewKept
<1> QED BY <1>4, <1>5

LEMMA ConnectSteps ==
  ASSUME CarefulOK, Careful, ConnectWallet \/ WalletAnswersConnect \/ DisconnectWallet
  PROVE  CarefulOK'
<1>0. IsSession(ui)
  BY DEF CarefulOK, SessionOK
<1>1. CASE ConnectWallet
  <2>1. /\ flow = Idle /\ feed = {} /\ live = {} /\ chain.pending = {}
        /\ \A i \in UnlockIds : unlocks[i] = Idle
        /\ mode' = mode
    BY <1>1, ClickIsQuiet DEF ConnectWallet
  <2>2. flow' = [pc |-> "connect", account |-> ui.account] /\ ui' = Status(ui)
        /\ UNCHANGED <<vault, unlocks, live, notes, chain, feed, files, imported>>
    BY <1>1 DEF ConnectWallet
  <2>3. IsSession(ui') /\ SameView(ui', ui)
    BY <1>0, <2>2, StatusKeeps
  <2>4. SessionOK' /\ TypesOK'
    BY <2>2, <2>3, SessionFrame, TypesFrame DEF CarefulOK
  <2>5. FlowOK' /\ FlowVaultOK' /\ ~HoldsVault' /\ ~HoldsShown' /\ (flow.pc \notin {"path", "prove"})'
    BY <2>2, <2>3 DEF FlowOK, Connecting, FlowVaultOK, HoldsVault, HoldsShown, SameView
  <2>6. NetworkOK'
    BY <2>1, <2>2, StillNetwork DEF CarefulOK
  <2>7. (\A i \in UnlockIds : UnlockOK(i))' /\ (DOMAIN unlocks = UnlockIds)'
    BY <2>1, <2>2, UnlocksFrame DEF CarefulOK
  <2>8. ("record" \notin mode.imports => NotesPrivate)'
    BY <2>1, <2>2, <2>3, <2>5 DEF CarefulOK, NotesPrivate, PrivateAtRest, Shows, Known, SameView
  <2>9. (~mode.diagnostics => MarksTrue(vault) /\ (HoldsVault => MarksTrue(flow.vault)))'
    BY <2>1, <2>2, <2>5 DEF CarefulOK, MarksTrue
  <2> QED BY <2>4, <2>5, <2>6, <2>7, <2>8, <2>9 DEF CarefulOK
<1>2. CASE WalletAnswersConnect
  <2>1. flow = [pc |-> "connect", account |-> ui.account] /\ flow # Idle /\ ~Sent
    BY <1>2 DEF WalletAnswersConnect, CarefulOK, FlowOK, Connecting, Depositing, Confirming,
       DepositSent, FindingPath, Proving, Withdrawing, WithdrawalSent, Sent, Idle
  <2>2. feed = {} /\ live = {} /\ chain.pending = {}
    BY <2>1, NothingUnderWay DEF CarefulOK
  <2>3. \A i \in UnlockIds : unlocks[i] = Idle
    BY <2>1, NoUnlockWhileLocked
  <2>4. flow' = Idle /\ UNCHANGED <<vault, unlocks, live, notes, chain, feed, files, imported, mode>>
    BY <1>2 DEF WalletAnswersConnect, Quiet
  <2>5. CASE ui' = Status(ui)
    BY <2>2, <2>3, <2>4, <2>5, Released
  <2>6. ASSUME NEW w \in Wallets, ui' = Status(SwitchAccount(ui, ui.account, w))
        PROVE  CarefulOK'
    <3>1. SessionOK' /\ ViewKept
      BY <2>4, <2>6, SessionSwitched
    <3>2. TypesOK' /\ (\A i \in UnlockIds : UnlockOK(i))' /\ (DOMAIN unlocks = UnlockIds)'
      BY <2>3, <2>4, TypesFrame, UnlocksFrame DEF CarefulOK
    <3>3. "record" \notin mode.imports =>
            PrivateAtRest'
      BY <3>1, <2>4 DEF CarefulOK, NotesPrivate, PrivateAtRest, Shows, Known, ViewKept
    <3>4. ~mode.diagnostics => MarksTrue(vault)'
      BY <2>4 DEF CarefulOK, MarksTrue
    <3> QED BY <2>2, <2>4, <3>1, <3>2, <3>3, <3>4, IdleInv
  <2> QED BY <1>2, <2>1, <2>5, <2>6 DEF WalletAnswersConnect
<1>3. CASE DisconnectWallet
  <2>1. /\ flow = Idle /\ feed = {} /\ live = {} /\ chain.pending = {}
        /\ \A i \in UnlockIds : unlocks[i] = Idle
        /\ mode' = mode
    BY <1>3, ClickIsQuiet DEF DisconnectWallet
  <2>2. ui' = Status(SwitchAccount(ui, ui.account, None))
        /\ UNCHANGED <<vault, flow, unlocks, live, notes, chain, feed, files, imported>>
    BY <1>3 DEF DisconnectWallet
  <2>3. SessionOK' /\ ViewKept
    BY <2>2, SessionSwitched
  <2>4. TypesOK' /\ (\A i \in UnlockIds : UnlockOK(i))' /\ (DOMAIN unlocks = UnlockIds)'
    BY <2>1, <2>2, TypesFrame, UnlocksFrame DEF CarefulOK
  <2>5. "record" \notin mode.imports =>
          PrivateAtRest'
    BY <2>2, <2>3 DEF CarefulOK, NotesPrivate, PrivateAtRest, Shows, Known, ViewKept
  <2>6. ~mode.diagnostics => MarksTrue(vault)'
    BY <2>2 DEF CarefulOK, MarksTrue
  <2> QED BY <2>1, <2>2, <2>3, <2>4, <2>5, <2>6, IdleInv
<1> QED BY <1>1, <1>2, <1>3

\* What a scan of the logs returns for the key it was made with.
LEMMA ScanIsOwn ==
  ASSUME SessionOK, TypesOK, ui.signature = ui.account, NEW failed
  PROVE  \A n \in DOMAIN Recovered(Found(ui.account), failed) :
           /\ OutIsOwn(n)
           /\ Recovered(Found(ui.account), failed)[n].spent \in BOOLEAN
           /\ Recovered(Found(ui.account), failed)[n].spent => n \in chain.spent
<1> DEFINE ns == Found(ui.account)
<1>1. ns \subseteq Known /\ \A n \in ns : notes[n].key = ui.signature
  BY DEF Found, Known
<1> HIDE DEF ns
<1>2. DOMAIN Recovered(ns, failed) = ns
  BY DEF Recovered
<1>3. \A n \in ns : Recovered(ns, failed)[n] = [leaf |-> LeafOf(n), spent |-> n \in chain.spent \ failed]
  BY DEF Recovered
<1>4. \A n \in ns : OutIsOwn(n)
  BY <1>1 DEF OutIsOwn
<1>5. ASSUME NEW n \in ns
      PROVE  /\ Recovered(ns, failed)[n].spent \in BOOLEAN
             /\ Recovered(ns, failed)[n].spent => n \in chain.spent
  <2> DEFINE s == n \in chain.spent \ failed
  <2>1. s \in BOOLEAN /\ (s => n \in chain.spent)
    OBVIOUS
  <2>2. Recovered(ns, failed)[n] = [leaf |-> LeafOf(n), spent |-> s]
    BY <1>3
  <2> HIDE DEF s
  <2>3. Recovered(ns, failed)[n].spent = s
    BY <2>2
  <2> QED BY <2>1, <2>3
<1> QED BY <1>2, <1>4, <1>5 DEF ns

LEMMA IngestedOK ==
  ASSUME NEW v, VaultOK(v), NEW found,
         \A n \in DOMAIN found : n \in Known /\ found[n].spent \in BOOLEAN
  PROVE  /\ VaultOK(Ingested(v, found))
         /\ DOMAIN Ingested(v, found) = DOMAIN v \cup DOMAIN found
         /\ \A n \in DOMAIN v \cup DOMAIN found : n \notin DOMAIN found => Ingested(v, found)[n] = v[n]
         /\ \A n \in DOMAIN found :
              Ingested(v, found)[n].spent => found[n].spent \/ (n \in DOMAIN v /\ v[n].spent)
BY DEF VaultOK, EntryOK, Ingested

\* What is not encrypted to the session is not touched by what it ingests.
LEMMA IngestedShows ==
  ASSUME NEW v, NEW found, NEW n, Shows(v, n),
         DOMAIN Ingested(v, found) = DOMAIN v \cup DOMAIN found,
         \A m \in DOMAIN v \cup DOMAIN found : m \notin DOMAIN found => Ingested(v, found)[m] = v[m],
         \A m \in DOMAIN found : notes[m].key = ui.signature
  PROVE  Shows(Ingested(v, found), n)
BY DEF Shows

LEMMA UnlockAdvances ==
  ASSUME DOMAIN unlocks = UnlockIds, NEW i \in UnlockIds,
         \A j \in UnlockIds : j = i \/ unlocks[j] = Idle,
         NEW u, unlocks' = [unlocks EXCEPT ![i] = u], flow' = Idle,
         u = Idle \/ UnlockStage(u)'
  PROVE  (\A j \in UnlockIds : UnlockOK(j))' /\ (DOMAIN unlocks = UnlockIds)'
<1>1. unlocks'[i] = u /\ \A j \in UnlockIds : j = i \/ unlocks'[j] = Idle
  OBVIOUS
<1> QED BY <1>1 DEF UnlockOK

\* While an unlock runs nothing else does.
LEMMA UnlockAlone ==
  ASSUME CarefulOK, NEW i \in UnlockIds, unlocks[i] # Idle
  PROVE  /\ flow = Idle /\ feed = {} /\ live = {} /\ chain.pending = {}
         /\ \A j \in UnlockIds : j = i \/ unlocks[j] = Idle
         /\ UnlockStage(unlocks[i])
<1>1. flow = Idle /\ UnlockStage(unlocks[i]) /\ \A j \in UnlockIds : j = i \/ unlocks[j] = Idle
  BY DEF CarefulOK, UnlockOK
<1>2. feed = {} /\ live = {} /\ chain.pending = {}
  BY <1>1, NothingUnderWay DEF CarefulOK, Sent, Idle
<1> QED BY <1>1, <1>2

\* An unlock that fails leaves the session with the status line.
LEMMA UnlockFails ==
  ASSUME CarefulOK, NEW i \in UnlockIds, unlocks[i] # Idle,
         IsSession(ui'), SameView(ui', ui), unlocks' = [unlocks EXCEPT ![i] = Idle],
         UNCHANGED <<vault, flow, live, notes, chain, feed, files, imported, mode>>
  PROVE  CarefulOK'
<1>1. /\ flow = Idle /\ feed = {} /\ live = {} /\ chain.pending = {}
      /\ \A j \in UnlockIds : j = i \/ unlocks[j] = Idle
  BY UnlockAlone
<1>2. SessionOK' /\ TypesOK'
  BY SessionFrame, TypesFrame DEF CarefulOK
<1>3. (\A j \in UnlockIds : UnlockOK(j))' /\ (DOMAIN unlocks = UnlockIds)'
  BY <1>1, UnlockAdvances DEF CarefulOK
<1>4. "record" \notin mode.imports => PrivateAtRest'
  BY DEF CarefulOK, NotesPrivate, PrivateAtRest, Shows, Known, SameView
<1>5. ~mode.diagnostics => MarksTrue(vault)'
  BY DEF CarefulOK, MarksTrue
<1> QED BY <1>1, <1>2, <1>3, <1>4, <1>5, IdleInv

LEMMA UnlockStarts ==
  ASSUME CarefulOK, Careful, NEW i \in UnlockIds, UnlockPrivateBalance(i)
  PROVE  CarefulOK'
<1> DEFINE u == IF ui.account = None THEN [pc |-> "account"] ELSE [pc |-> "sign", wallet |-> ui.account]
<1>1. /\ flow = Idle /\ feed = {} /\ live = {} /\ chain.pending = {}
      /\ \A j \in UnlockIds : unlocks[j] = Idle
      /\ mode' = mode
  BY ClickIsQuiet DEF UnlockPrivateBalance
<1>2. ui' = Unlocking(ui) /\ unlocks' = [unlocks EXCEPT ![i] = u]
      /\ UNCHANGED <<vault, flow, live, notes, chain, feed, files, imported>>
  BY DEF UnlockPrivateBalance
<1>3. IsSession(ui') /\ SameView(ui', ui)
  BY <1>2, UnlockingKeeps DEF CarefulOK, SessionOK
<1>4. SessionOK' /\ TypesOK'
  BY <1>2, <1>3, SessionFrame, TypesFrame DEF CarefulOK
<1>5. UnlockStage(u)'
  BY <1>2, <1>3 DEF UnlockStage, SameView
<1>6. (\A j \in UnlockIds : UnlockOK(j))' /\ (DOMAIN unlocks = UnlockIds)'
  <2>1. u' = u
    BY <1>3 DEF SameView
  <2>2. unlocks'[i] = u /\ (\A j \in UnlockIds : j = i \/ unlocks'[j] = Idle) /\ DOMAIN unlocks' = UnlockIds
    BY <1>1, <1>2 DEF CarefulOK
  <2> HIDE DEF u
  <2> QED BY <1>1, <1>2, <1>5, <2>1, <2>2 DEF UnlockOK
<1>7. "record" \notin mode.imports => PrivateAtRest'
  BY <1>2, <1>3 DEF CarefulOK, NotesPrivate, PrivateAtRest, Shows, Known, SameView
<1>8. ~mode.diagnostics => MarksTrue(vault)'
  BY <1>2 DEF CarefulOK, MarksTrue
<1> QED BY <1>1, <1>2, <1>4, <1>6, <1>7, <1>8, IdleInv

LEMMA AccountSets ==
  ASSUME NEW u, IsSession(u), NEW w \in Wallets
  PROVE  /\ IsSession([u EXCEPT !.account = w])
         /\ [u EXCEPT !.account = w].account = w
         /\ [u EXCEPT !.account = w].signature = u.signature
         /\ [u EXCEPT !.account = w].visible = u.visible
         /\ [u EXCEPT !.account = w].selected = u.selected
         /\ [u EXCEPT !.account = w].bundle = u.bundle
BY DEF IsSession

LEMMA SignatureSets ==
  ASSUME NEW u, IsSession(u), NEW w \in Wallets
  PROVE  /\ IsSession([u EXCEPT !.signature = w])
         /\ [u EXCEPT !.signature = w].account = u.account
         /\ [u EXCEPT !.signature = w].signature = w
         /\ [u EXCEPT !.signature = w].visible = u.visible
         /\ [u EXCEPT !.signature = w].selected = u.selected
         /\ [u EXCEPT !.signature = w].bundle = u.bundle
BY DEF IsSession

LEMMA UnlockAccountStep ==
  ASSUME CarefulOK, NEW i \in UnlockIds, UnlockGetsAccount(i)
  PROVE  CarefulOK'
<1>1. /\ unlocks[i].pc = "account" /\ unlocks[i] # Idle
      /\ UNCHANGED <<vault, flow, live, notes, chain, feed, files, imported, mode>>
  BY DEF UnlockGetsAccount, Idle, Quiet
<1>2. /\ flow = Idle /\ feed = {} /\ live = {} /\ chain.pending = {}
      /\ \A j \in UnlockIds : j = i \/ unlocks[j] = Idle
      /\ UnlockStage(unlocks[i])
  BY <1>1, UnlockAlone
<1>3. ui.account = None /\ ui.signature = None
  BY <1>1, <1>2 DEF UnlockStage, CarefulOK, SessionOK
<1>4. IsSession(ui)
  BY DEF CarefulOK, SessionOK
<1>5. ASSUME NEW w \in Wallets, ui' = Unlocking([ui EXCEPT !.account = w]),
             unlocks' = [unlocks EXCEPT ![i] = [pc |-> "sign", wallet |-> w]]
      PROVE  CarefulOK'
  <2> DEFINE u == [ui EXCEPT !.account = w]
  <2>1. IsSession(u) /\ u.account = w /\ u.signature = ui.signature /\ u.visible = ui.visible
        /\ u.bundle = ui.bundle
    BY <1>4, AccountSets
  <2>2. IsSession(ui') /\ SameView(ui', u)
    BY <1>5, <2>1, UnlockingKeeps
  <2> HIDE DEF u
  <2>3. w # None
    BY PanelConstants
  <2>4. SessionOK' /\ TypesOK'
    BY <1>1, <1>3, <2>1, <2>2, TypesFrame DEF CarefulOK, SessionOK, SameView, Known
  <2>5. UnlockStage([pc |-> "sign", wallet |-> w])'
    BY <2>1, <2>2, <2>3 DEF UnlockStage, SameView
  <2>6. (\A j \in UnlockIds : UnlockOK(j))' /\ (DOMAIN unlocks = UnlockIds)'
    BY <1>1, <1>2, <1>5, <2>5, UnlockAdvances DEF CarefulOK
  <2>7. "record" \notin mode.imports => PrivateAtRest'
    BY <1>1, <2>1, <2>2 DEF CarefulOK, NotesPrivate, PrivateAtRest, Shows, Known, SameView
  <2>8. ~mode.diagnostics => MarksTrue(vault)'
    BY <1>1 DEF CarefulOK, MarksTrue
  <2> QED BY <1>1, <1>2, <2>4, <2>6, <2>7, <2>8, IdleInv
<1>6. CASE ui' = Status(ui) /\ unlocks' = [unlocks EXCEPT ![i] = Idle]
  BY <1>1, <1>4, <1>6, StatusKeeps, UnlockFails
<1> QED BY <1>5, <1>6 DEF UnlockGetsAccount

LEMMA UnlockSignatureStep ==
  ASSUME CarefulOK, NEW i \in UnlockIds, UnlockGetsSignature(i)
  PROVE  CarefulOK'
<1>1. /\ unlocks[i].pc = "sign" /\ unlocks[i] # Idle
      /\ UNCHANGED <<vault, flow, live, notes, chain, feed, files, imported, mode>>
  BY DEF UnlockGetsSignature, Idle, Quiet
<1>2. /\ flow = Idle /\ feed = {} /\ live = {} /\ chain.pending = {}
      /\ \A j \in UnlockIds : j = i \/ unlocks[j] = Idle
      /\ UnlockStage(unlocks[i])
  BY <1>1, UnlockAlone
<1>3. IsSession(ui)
  BY DEF CarefulOK, SessionOK
<1>4. unlocks[i] = [pc |-> "sign", wallet |-> ui.account] /\ ui.account \in Wallets
  BY <1>1, <1>2, <1>3 DEF UnlockStage, IsSession
<1>5. CASE /\ ui' = Unlocking([ui EXCEPT !.signature = unlocks[i].wallet])
           /\ unlocks' = [unlocks EXCEPT ![i].pc = "scan"]
  <2> DEFINE u == [ui EXCEPT !.signature = ui.account]
  <2>1. IsSession(u) /\ u.account = ui.account /\ u.signature = ui.account /\ u.visible = ui.visible
        /\ u.bundle = ui.bundle
    BY <1>3, <1>4, SignatureSets
  <2>2. IsSession(ui') /\ SameView(ui', u)
    BY <1>4, <1>5, <2>1, UnlockingKeeps
  <2> HIDE DEF u
  <2>3. ui.account # None
    BY <1>4, PanelConstants
  <2>4. SessionOK' /\ TypesOK'
    BY <1>1, <2>1, <2>2, TypesFrame DEF CarefulOK, SessionOK, SameView, Known
  <2>5. unlocks' = [unlocks EXCEPT ![i] = [pc |-> "scan", wallet |-> ui.account]]
    <3>1. [unlocks[i] EXCEPT !.pc = "scan"] = [pc |-> "scan", wallet |-> ui.account]
      BY <1>4
    <3> QED BY <1>5, <3>1
  <2>6. (\A j \in UnlockIds : UnlockOK(j))' /\ (DOMAIN unlocks = UnlockIds)'
    <3> DEFINE s == [pc |-> "scan", wallet |-> ui.account]
    <3>1. UnlockStage(s)' /\ s' = s
      BY <2>1, <2>2, <2>3 DEF UnlockStage, SameView
    <3>2. unlocks'[i] = s /\ (\A j \in UnlockIds : j = i \/ unlocks'[j] = Idle) /\ DOMAIN unlocks' = UnlockIds
      BY <1>2, <2>5 DEF CarefulOK
    <3> HIDE DEF s
    <3> QED BY <1>1, <1>2, <3>1, <3>2 DEF UnlockOK
  <2>7. "record" \notin mode.imports => PrivateAtRest'
    <3> SUFFICES ASSUME "record" \notin mode.imports PROVE PrivateAtRest'
      OBVIOUS
    <3>1. NotesPrivate
      BY DEF CarefulOK
    <3>2. \A n \in Known : notes[n].key = notes[n].owner /\ notes[n].key # None
      <4>1. \A n \in Known : notes[n] \in NoteData
        BY DEF CarefulOK, TypesOK, Known
      <4>2. \A n \in Known : notes[n].owner \in Wallets
        BY <4>1 DEF NoteData
      <4> QED BY <3>1, <4>2, PanelConstants DEF NotesPrivate, PrivateAtRest
    <3>3. ui.signature = None \/ ui.signature = ui.account
      BY DEF CarefulOK, SessionOK
    <3> QED BY <1>1, <2>1, <2>2, <3>1, <3>2, <3>3
         DEF CarefulOK, SessionOK, NotesPrivate, PrivateAtRest, Shows, Known, SameView
  <2>8. ~mode.diagnostics => MarksTrue(vault)'
    BY <1>1 DEF CarefulOK, MarksTrue
  <2> QED BY <1>1, <1>2, <2>4, <2>6, <2>7, <2>8, IdleInv
<1>6. CASE ui' = Status(ui) /\ unlocks' = [unlocks EXCEPT ![i] = Idle]
  BY <1>1, <1>3, <1>6, StatusKeeps, UnlockFails
<1> QED BY <1>5, <1>6 DEF UnlockGetsSignature

LEMMA UnlockScanStep ==
  ASSUME CarefulOK, NEW i \in UnlockIds, UnlockScans(i)
  PROVE  CarefulOK'
<1>1. /\ unlocks[i].pc = "scan" /\ unlocks[i] # Idle
      /\ UNCHANGED <<vault, flow, live, notes, chain, feed, files, imported, mode>>
  BY DEF UnlockScans, Idle, Quiet
<1>2. /\ flow = Idle /\ feed = {} /\ live = {} /\ chain.pending = {}
      /\ \A j \in UnlockIds : j = i \/ unlocks[j] = Idle
      /\ UnlockStage(unlocks[i])
  BY <1>1, UnlockAlone
<1>3. IsSession(ui)
  BY DEF CarefulOK, SessionOK
<1>4. unlocks[i].wallet = ui.account /\ ui.signature = ui.account
  BY <1>1, <1>2 DEF UnlockStage
<1>5. ASSUME NEW failed, ui' = ui,
             unlocks' = [unlocks EXCEPT ![i] =
               [pc |-> "ingest", found |-> Recovered(Found(unlocks[i].wallet), failed)]]
      PROVE  CarefulOK'
  <2> DEFINE found == Recovered(Found(ui.account), failed)
  <2>1. \A n \in DOMAIN found :
          OutIsOwn(n) /\ found[n].spent \in BOOLEAN /\ (found[n].spent => n \in chain.spent)
    BY <1>4, ScanIsOwn DEF CarefulOK
  <2>2. unlocks' = [unlocks EXCEPT ![i] = [pc |-> "ingest", found |-> found]]
    BY <1>4, <1>5
  <2> HIDE DEF found
  <2>3. SessionOK' /\ TypesOK'
    BY <1>1, <1>3, <1>5, SessionFrame, TypesFrame DEF CarefulOK, SameView
  <2> DEFINE u == [pc |-> "ingest", found |-> found]
  <2>4. u.pc = "ingest" /\ u.found = found
    OBVIOUS
  <2>5. unlocks'[i] = u /\ (\A j \in UnlockIds : j = i \/ unlocks'[j] = Idle) /\ DOMAIN unlocks' = UnlockIds
    BY <1>2, <2>2 DEF CarefulOK
  <2>6. \A n \in DOMAIN found : OutIsOwn(n)' /\ found[n].spent \in BOOLEAN /\ (found[n].spent => n \in chain'.spent)
    BY <1>1, <1>5, <2>1 DEF OutIsOwn, Known
  <2>7. unlocks'[i].pc = "ingest" /\ unlocks'[i].found = found
        /\ unlocks'[i] = [pc |-> "ingest", found |-> unlocks'[i].found]
    BY <2>4, <2>5
  <2>8. UnlockStage(unlocks[i])'
    BY <2>6, <2>7 DEF UnlockStage
  <2>9. (\A j \in UnlockIds : UnlockOK(j))' /\ (DOMAIN unlocks = UnlockIds)'
    BY <1>1, <1>2, <2>5, <2>8 DEF UnlockOK
  <2>10. "record" \notin mode.imports => PrivateAtRest'
    BY <1>1, <1>5 DEF CarefulOK, NotesPrivate, PrivateAtRest, Shows, Known
  <2>11. ~mode.diagnostics => MarksTrue(vault)'
    BY <1>1 DEF CarefulOK, MarksTrue
  <2> QED BY <1>1, <1>2, <2>3, <2>9, <2>10, <2>11, IdleInv
<1>6. CASE ui' = Status([ui EXCEPT !.scanFailed = TRUE]) /\ unlocks' = [unlocks EXCEPT ![i] = Idle]
  <2>1. IsSession([ui EXCEPT !.scanFailed = TRUE]) /\ SameView([ui EXCEPT !.scanFailed = TRUE], ui)
    BY <1>3 DEF IsSession, SameView
  <2>2. IsSession(ui') /\ SameView(ui', [ui EXCEPT !.scanFailed = TRUE])
    BY <1>6, <2>1, StatusKeeps
  <2> QED BY <1>1, <1>6, <2>1, <2>2, UnlockFails DEF SameView
<1> QED BY <1>5, <1>6 DEF UnlockScans

IngestView(u, shown, note) ==
  [u EXCEPT !.scanFailed = FALSE, !.visible = shown, !.selected = note]

LEMMA UnlockIngestStep ==
  ASSUME CarefulOK, NEW i \in UnlockIds, UnlockIngests(i)
  PROVE  CarefulOK'
<1> DEFINE found == unlocks[i].found
           shown == IF found = << >> THEN ui.visible ELSE DOMAIN found
           note == IF found = << >> THEN ui.selected ELSE FirstAvailable(found)
           u == IngestView(ui, shown, note)
<1>1. /\ unlocks[i].pc = "ingest" /\ unlocks[i] # Idle
      /\ vault' = Ingested(vault, found)
      /\ ui' = Status(u)
      /\ unlocks' = [unlocks EXCEPT ![i] = Idle]
      /\ UNCHANGED <<flow, live, notes, chain, feed, files, imported, mode>>
  BY DEF UnlockIngests, Idle, Quiet, IngestView
<1>2. /\ flow = Idle /\ feed = {} /\ live = {} /\ chain.pending = {}
      /\ \A j \in UnlockIds : j = i \/ unlocks[j] = Idle
      /\ UnlockStage(unlocks[i])
  BY <1>1, UnlockAlone
<1>3. \A n \in DOMAIN found : OutIsOwn(n) /\ found[n].spent \in BOOLEAN /\ (found[n].spent => n \in chain.spent)
  BY <1>1, <1>2 DEF UnlockStage
<1>4. IsSession(ui) /\ ui.visible \subseteq Known /\ SessionOK /\ TypesOK /\ VaultOK(vault)
  BY DEF CarefulOK, SessionOK, TypesOK
<1> HIDE DEF found
<1>5. shown \in SUBSET Nat /\ shown \subseteq Known /\ \A n \in shown : n \in ui.visible \/ n \in DOMAIN found
  BY <1>3, <1>4 DEF OutIsOwn, Known, TypesOK
<1> HIDE DEF shown, note
<1>6. IsSession(u) /\ u.account = ui.account /\ u.signature = ui.signature /\ u.visible = shown
      /\ u.bundle = ui.bundle
  <2>1. IsSession(ui) /\ shown \in SUBSET Nat
    BY <1>4, <1>5
  <2> QED BY <2>1 DEF IsSession, IngestView
<1>7. IsSession(ui') /\ SameView(ui', u)
  BY <1>1, <1>6, StatusKeeps
<1> HIDE DEF u
<1>8. /\ VaultOK(vault')
      /\ DOMAIN vault' = DOMAIN vault \cup DOMAIN found
      /\ \A n \in DOMAIN vault \cup DOMAIN found : n \notin DOMAIN found => vault'[n] = vault[n]
      /\ \A n \in DOMAIN found : vault'[n].spent => found[n].spent \/ (n \in DOMAIN vault /\ vault[n].spent)
  <2>1. \A n \in DOMAIN found : n \in Known /\ found[n].spent \in BOOLEAN
    BY <1>3 DEF OutIsOwn
  <2> DEFINE new == Ingested(vault, found)
  <2>2. /\ VaultOK(new)
        /\ DOMAIN new = DOMAIN vault \cup DOMAIN found
        /\ \A n \in DOMAIN vault \cup DOMAIN found : n \notin DOMAIN found => new[n] = vault[n]
        /\ \A n \in DOMAIN found : new[n].spent => found[n].spent \/ (n \in DOMAIN vault /\ vault[n].spent)
    BY <1>4, <2>1, IngestedOK
  <2>3. vault' = new
    BY <1>1
  <2> HIDE DEF new
  <2> QED BY <2>2, <2>3
<1>9. SessionOK' /\ TypesOK'
  <2>1. SessionOK'
    BY <1>1, <1>4, <1>5, <1>6, <1>7 DEF SessionOK, SameView, Known
  <2>2. TypesOK'
    BY <1>1, <1>4, <1>8 DEF TypesOK, VaultOK, EntryOK, Known
  <2> QED BY <2>1, <2>2
<1>10. (\A j \in UnlockIds : UnlockOK(j))' /\ (DOMAIN unlocks = UnlockIds)'
  BY <1>1, <1>2, UnlockAdvances DEF CarefulOK
<1>11. "record" \notin mode.imports => PrivateAtRest'
  <2> SUFFICES ASSUME "record" \notin mode.imports PROVE PrivateAtRest'
    OBVIOUS
  <2>1. PrivateAtRest
    BY DEF CarefulOK, NotesPrivate
  <2>2. \A n \in DOMAIN found : notes[n].key = ui.signature
    BY <1>3 DEF OutIsOwn
  <2>3. ASSUME NEW n \in shown PROVE Shows(vault, n)'
    <3>1. CASE n \in DOMAIN found
      BY <1>1, <1>6, <1>7, <2>2, <3>1 DEF Shows, SameView
    <3>2. CASE n \notin DOMAIN found
      BY <1>1, <1>5, <1>6, <1>7, <1>8, <2>1, <3>2 DEF PrivateAtRest, Shows, SameView
    <3> QED BY <3>1, <3>2
  <2> QED BY <1>1, <1>6, <1>7, <2>1, <2>3 DEF PrivateAtRest, Known, SameView
<1>12. ~mode.diagnostics => MarksTrue(vault)'
  BY <1>1, <1>3, <1>8 DEF CarefulOK, MarksTrue
<1> QED BY <1>1, <1>2, <1>9, <1>10, <1>11, <1>12, IdleInv

LEMMA ReloadStep ==
  ASSUME CarefulOK, Careful, Reload
  PROVE  CarefulOK'
<1>1. /\ flow = Idle /\ live = {} /\ \A i \in UnlockIds : unlocks[i] = Idle
      /\ ui' = FreshSession /\ flow' = Idle /\ live' = {} /\ feed' = {} /\ imported' = {}
      /\ unlocks' = [i \in UnlockIds |-> Idle]
      /\ UNCHANGED <<vault, notes, chain, files, mode>>
  BY DEF Reload, Careful, NothingPending
<1>2. feed = {} /\ chain.pending = {}
  BY <1>1, NothingUnderWay DEF CarefulOK, Sent, Idle
<1>3. IsSession(ui') /\ ui'.signature = None /\ ui'.visible = {} /\ ui'.bundle = None
  BY <1>1 DEF FreshSession, IsSession
<1>4. SessionOK' /\ TypesOK'
  BY <1>1, <1>3, TypesFrame DEF CarefulOK, SessionOK
<1>5. (\A j \in UnlockIds : UnlockOK(j))' /\ (DOMAIN unlocks = UnlockIds)'
  BY <1>1 DEF UnlockOK
<1>6. "record" \notin mode.imports => PrivateAtRest'
  BY <1>1, <1>3 DEF CarefulOK, NotesPrivate, PrivateAtRest, Known
<1>7. ~mode.diagnostics => MarksTrue(vault)'
  BY <1>1 DEF CarefulOK, MarksTrue
<1> QED BY <1>1, <1>2, <1>4, <1>5, <1>6, <1>7, IdleInv

-----------------------------------------------------------------------------
(* The network's steps: mining, the subscription, live recoveries.         *)

LEMMA FlowTx ==
  ASSUME CarefulOK, Sent
  PROVE  /\ flow # Idle
         /\ DepositSent \/ WithdrawalSent
         /\ flow.tx.creates \in 0..Len(notes)
<1>1. DepositSent \/ WithdrawalSent
  BY DEF CarefulOK, FlowOK, Sent, Idle, Connecting, Depositing, Confirming, FindingPath, Proving, Withdrawing
<1>2. flow # Idle
  BY DEF Sent, Idle
<1>3. Len(notes) \in Nat
  BY DEF CarefulOK, TypesOK
<1>4. CASE DepositSent
  <2>1. flow.tx = DepositTx(flow.out) /\ flow.out \in Known
    BY <1>4 DEF DepositSent, OutIsOwn
  <2> QED BY <1>1, <1>2, <1>3, <2>1 DEF DepositTx, Known
<1>5. CASE WithdrawalSent
  <2>1. flow.tx = WithdrawTx(ui.bundle) /\ ui.bundle \in Bundles
    BY <1>5 DEF WithdrawalSent, SpendsSelected
  <2>2. ui.bundle # None => ui.bundle.out \in 0..Len(notes)
    BY DEF CarefulOK, SessionOK
  <2>3. ui.bundle # None
    BY <2>1, PanelConstants
  <2> QED BY <1>1, <1>2, <2>1, <2>2, <2>3 DEF WithdrawTx
<1> QED BY <1>1, <1>4, <1>5

LEMMA FlowFrame ==
  ASSUME FlowOK, flow' = flow, IsSession(ui'), SameView(ui', ui), notes' = notes, mode' = mode
  PROVE  FlowOK'
BY DEF FlowOK, SameView, Known, Connecting, Depositing, Confirming, DepositSent, FindingPath, Proving,
   Withdrawing, WithdrawalSent, SpendsSelected, SplitsOwn, OutIsOwn, Sent

LEMMA FlowVaultFrame ==
  ASSUME FlowVaultOK, flow' = flow, notes' = notes
  PROVE  FlowVaultOK'
BY DEF FlowVaultOK, HoldsVault, VaultOK, EntryOK, Known

LEMMA NoUnlockFrame ==
  ASSUME CarefulOK, flow # Idle, unlocks' = unlocks
  PROVE  (\A i \in UnlockIds : UnlockOK(i))' /\ (DOMAIN unlocks = UnlockIds)'
BY NoUnlockWhileLocked, UnlocksFrame DEF CarefulOK

LEMMA PrivateFrame ==
  ASSUME "record" \notin mode.imports => NotesPrivate, flow' = flow, IsSession(ui'), SameView(ui', ui),
         UNCHANGED <<notes, mode, imported>>, vault' = vault
  PROVE  ("record" \notin mode.imports => NotesPrivate)'
BY DEF NotesPrivate, PrivateAtRest, Shows, Known, SameView, HoldsVault, HoldsShown

MarksOK == ~mode.diagnostics => MarksTrue(vault) /\ (HoldsVault => MarksTrue(flow.vault))

LEMMA MineStepOK ==
  ASSUME CarefulOK, NEW tx \in chain.pending, Mine(tx)
  PROVE  CarefulOK'
<1> DEFINE ok == tx.spends = None \/ (tx.spends \notin chain.spent /\ RootIsAccepted(tx.root))
<1>1. UNCHANGED <<ui, vault, flow, unlocks, live, notes, files, imported, mode>>
  BY DEF Mine
<1>2. Sent /\ tx = flow.tx /\ ~HasReceipt(tx)
  BY DEF CarefulOK, NetworkOK, PendingIsOwn
<1>3. feed = {} /\ live = {} /\ \A t \in chain.pending : t = tx
  BY <1>2 DEF CarefulOK, NetworkOK, FeedIsOwn, LiveIsOwn, LogOfFlow, PendingIsOwn, HasReceipt
<1>4. chain \in Pools /\ tx \in Txs
  BY DEF CarefulOK, TypesOK, Pools
<1>5. /\ chain'.pending = {}
      /\ chain'.receipts = chain.receipts \cup {[tx |-> tx, ok |-> ok]}
      /\ chain'.spent = IF ok /\ tx.spends # None THEN chain.spent \cup {tx.spends} ELSE chain.spent
      /\ chain' \in Pools
  <2>1. ok \in BOOLEAN
    OBVIOUS
  <2>2. chain' = [chain EXCEPT
          !.pending = @ \ {tx},
          !.receipts = @ \cup {[tx |-> tx, ok |-> ok]},
          !.spent = IF ok /\ tx.spends # None THEN @ \cup {tx.spends} ELSE @,
          !.leaves = IF ok THEN Append(@, tx.creates) ELSE @]
    BY DEF Mine
  <2> HIDE DEF ok
  <2> DEFINE r == chain.receipts \cup {[tx |-> tx, ok |-> ok]}
             s == IF ok /\ tx.spends # None THEN chain.spent \cup {tx.spends} ELSE chain.spent
             l == IF ok THEN Append(chain.leaves, tx.creates) ELSE chain.leaves
  <2>3. chain' = [chain EXCEPT !.pending = chain.pending \ {tx}, !.receipts = r, !.spent = s, !.leaves = l]
    BY <2>2
  <2>4. r \in SUBSET [tx : Txs, ok : BOOLEAN] /\ s \in SUBSET Nat /\ l \in Seq(Nat)
        /\ chain.pending \ {tx} \in SUBSET Txs
    BY <1>4, <2>1 DEF Pools, Txs
  <2> HIDE DEF r, s, l
  <2>5. chain'.pending = chain.pending \ {tx} /\ chain'.receipts = r /\ chain'.spent = s
    BY <1>4, <2>3 DEF Pools
  <2>6. chain' \in Pools
    BY <1>4, <2>3, <2>4 DEF Pools
  <2> QED BY <1>3, <2>5, <2>6 DEF r, s
<1>6. chain.spent \subseteq chain'.spent
  BY <1>5
<1>7. SessionOK' /\ TypesOK'
  <2>1. SessionOK'
    BY <1>1, SessionFrame DEF CarefulOK, SessionOK, SameView
  <2> QED BY <1>1, <1>5, <2>1 DEF CarefulOK, TypesOK, VaultOK, EntryOK, Known
<1>8. FlowOK' /\ FlowVaultOK'
  BY <1>1, FlowFrame, FlowVaultFrame DEF CarefulOK, SessionOK, SameView
<1>9. (\A i \in UnlockIds : UnlockOK(i))' /\ (DOMAIN unlocks = UnlockIds)'
  BY <1>1, <1>2, FlowTx, NoUnlockFrame
<1>10. NetworkOK'
  <2>1. PendingIsOwn' /\ LiveIsOwn'
    BY <1>1, <1>3, <1>5 DEF PendingIsOwn, LiveIsOwn
  <2>2. ReceiptsOK'
    <3>1. ~Mined(tx, TRUE) /\ ~Mined(tx, FALSE)
      BY <1>2 DEF HasReceipt
    <3> HIDE DEF ok
    <3>2. \A t : /\ Mined(t, TRUE)' => Mined(t, TRUE) \/ (t = tx /\ ok)
                 /\ Mined(t, FALSE)' => Mined(t, FALSE) \/ (t = tx /\ ~ok)
      BY <1>5 DEF Mined
    <3>3. \A rc \in chain'.receipts : ~(Mined(rc.tx, TRUE)' /\ Mined(rc.tx, FALSE)')
      <4> SUFFICES ASSUME NEW rc \in chain'.receipts, Mined(rc.tx, TRUE)', Mined(rc.tx, FALSE)'
                   PROVE  FALSE
        OBVIOUS
      <4>1. CASE rc.tx = tx
        BY <3>1, <3>2, <4>1
      <4>2. CASE rc.tx # tx
        <5>1. Mined(rc.tx, TRUE) /\ Mined(rc.tx, FALSE)
          BY <3>2, <4>2
        <5>2. rc \in chain.receipts
          BY <1>5, <4>2
        <5> QED BY <5>1, <5>2 DEF CarefulOK, NetworkOK, ReceiptsOK
      <4> QED BY <4>1, <4>2
    <3>4. \A rc \in chain'.receipts : rc.ok /\ rc.tx.spends # None => rc.tx.spends \in chain'.spent
      BY <1>5, <1>6 DEF CarefulOK, NetworkOK, ReceiptsOK
    <3> QED BY <3>3, <3>4 DEF ReceiptsOK
  <2>3. FeedIsOwn'
    <3> SUFFICES ASSUME NEW log \in feed' PROVE LogOfFlow(log)'
      BY DEF FeedIsOwn
    <3>1. ok /\ \/ log = [topic |-> "NullifierSpent", note |-> tx.spends] /\ tx.spends # None
                \/ log = [topic |-> "NoteCreated", note |-> tx.creates] /\ tx.creates # Dummy
      BY <1>3 DEF Mine
    <3>2. [tx |-> tx, ok |-> TRUE] \in chain'.receipts
      BY <1>5, <3>1
    <3> QED BY <1>1, <1>2, <3>1, <3>2 DEF LogOfFlow, Mined, Sent
  <2> QED BY <2>1, <2>2, <2>3 DEF NetworkOK
<1>11. ("record" \notin mode.imports => NotesPrivate)'
  BY <1>1, PrivateFrame DEF CarefulOK, SessionOK, SameView
<1>12. MarksOK'
  BY <1>1, <1>6 DEF CarefulOK, MarksTrue, MarksOK, HoldsVault
<1> QED BY <1>7, <1>8, <1>9, <1>10, <1>11, <1>12 DEF CarefulOK, MarksOK

LEMMA MarkedOK ==
  ASSUME NEW v, VaultOK(v), NEW n
  PROVE  /\ VaultOK(MarkSandboxNoteVaultRecordSpent(v, n))
         /\ DOMAIN MarkSandboxNoteVaultRecordSpent(v, n) = DOMAIN v
         /\ \A m \in DOMAIN v :
              /\ MarkSandboxNoteVaultRecordSpent(v, n)[m].route = v[m].route
              /\ MarkSandboxNoteVaultRecordSpent(v, n)[m].spent => m = n \/ v[m].spent
<1>1. CASE n \in DOMAIN v
  <2> DEFINE e == [v[n] EXCEPT !.spent = TRUE]
  <2>1. MarkSandboxNoteVaultRecordSpent(v, n) = [v EXCEPT ![n] = e]
    BY <1>1 DEF MarkSandboxNoteVaultRecordSpent
  <2>2. EntryOK(e) /\ e.route = v[n].route
    BY <1>1 DEF VaultOK, EntryOK
  <2> HIDE DEF e
  <2> QED BY <1>1, <2>1, <2>2 DEF VaultOK
<1>2. CASE n \notin DOMAIN v
  BY <1>2 DEF MarkSandboxNoteVaultRecordSpent
<1> QED BY <1>1, <1>2

LEMMA MarkedShows ==
  ASSUME NEW v, NEW w, DOMAIN w = DOMAIN v, \A m \in DOMAIN v : w[m].route = v[m].route,
         NEW n, Shows(v, n)
  PROVE  Shows(w, n)
BY DEF Shows

\* A log under way is of the withdrawal whose note is selected.
LEMMA SpentLogIsOwn ==
  ASSUME CarefulOK, NEW log \in feed, log.topic = "NullifierSpent"
  PROVE  /\ Sent
         /\ log.note \in chain.spent
         /\ ~mode.diagnostics => log.note = ui.selected
<1>1. LogOfFlow(log)
  BY DEF CarefulOK, NetworkOK, FeedIsOwn
<1>2. Sent /\ Mined(flow.tx, TRUE) /\ log.note = flow.tx.spends /\ flow.tx.spends # None
  <2>1. \/ log = [topic |-> "NullifierSpent", note |-> flow.tx.spends] /\ flow.tx.spends # None
        \/ log = [topic |-> "NoteCreated", note |-> flow.tx.creates]
    BY <1>1 DEF LogOfFlow
  <2>2. log.note = flow.tx.spends /\ flow.tx.spends # None
    BY <2>1
  <2> QED BY <1>1, <2>2 DEF LogOfFlow
<1>3. log.note \in chain.spent
  <2>1. [tx |-> flow.tx, ok |-> TRUE] \in chain.receipts
    BY <1>2 DEF Mined
  <2>2. \A rc \in chain.receipts : rc.ok /\ rc.tx.spends # None => rc.tx.spends \in chain.spent
    BY DEF CarefulOK, NetworkOK, ReceiptsOK
  <2> DEFINE rc == [tx |-> flow.tx, ok |-> TRUE]
  <2>3. rc \in chain.receipts /\ rc.ok /\ rc.tx = flow.tx
    BY <2>1
  <2> HIDE DEF rc
  <2> QED BY <1>2, <2>2, <2>3
<1>4. WithdrawalSent
  <2>1. CASE DepositSent
    BY <1>2, <2>1 DEF DepositSent, DepositTx
  <2> QED BY <1>2, <2>1, FlowTx
<1>5. ~mode.diagnostics => log.note = ui.selected
  <2>1. flow.tx = WithdrawTx(ui.bundle) /\ SpendsSelected
    BY <1>4 DEF WithdrawalSent
  <2>2. flow.tx.spends = ui.bundle.note
    BY <2>1 DEF WithdrawTx
  <2> QED BY <1>2, <2>1, <2>2 DEF SpendsSelected
<1> QED BY <1>2, <1>3, <1>5

LEMMA SpentLogStep ==
  ASSUME CarefulOK, NEW log, HandleSpentLog(log)
  PROVE  CarefulOK'
<1>1. /\ log \in feed /\ log.topic = "NullifierSpent"
      /\ feed' = feed \ {log} /\ vault' = MarkedByLog(log)
      /\ UNCHANGED <<ui, flow, unlocks, live, notes, chain, files, imported, mode>>
  BY DEF HandleSpentLog, Quiet
<1>2. Sent /\ log.note \in chain.spent /\ (~mode.diagnostics => log.note = ui.selected)
  BY <1>1, SpentLogIsOwn
<1>3. VaultOK(vault)
  BY DEF CarefulOK, TypesOK
<1>4. /\ VaultOK(vault') /\ DOMAIN vault' = DOMAIN vault
      /\ \A m \in DOMAIN vault :
           /\ vault'[m].route = vault[m].route
           /\ vault'[m].spent => m = ui.selected \/ vault[m].spent
  <2> DEFINE w == MarkSandboxNoteVaultRecordSpent(vault, ui.selected)
  <2>1. /\ VaultOK(w) /\ DOMAIN w = DOMAIN vault
        /\ \A m \in DOMAIN vault : w[m].route = vault[m].route /\ (w[m].spent => m = ui.selected \/ vault[m].spent)
    BY <1>3, MarkedOK
  <2>2. vault' = w \/ vault' = vault
    BY <1>1 DEF MarkedByLog
  <2> HIDE DEF w
  <2> QED BY <1>3, <2>1, <2>2
<1>5. SessionOK'
  BY <1>1, SessionFrame DEF CarefulOK, SessionOK, SameView
<1>6. TypesOK'
  BY <1>1, <1>4 DEF CarefulOK, TypesOK, VaultOK, EntryOK, Known
<1>7. FlowOK' /\ FlowVaultOK'
  BY <1>1, FlowFrame, FlowVaultFrame DEF CarefulOK, SessionOK, SameView
<1>8. (\A i \in UnlockIds : UnlockOK(i))' /\ (DOMAIN unlocks = UnlockIds)'
  BY <1>1, <1>2, FlowTx, NoUnlockFrame
<1>9. NetworkOK'
  BY <1>1 DEF CarefulOK, NetworkOK, PendingIsOwn, ReceiptsOK, FeedIsOwn, LiveIsOwn, LogOfFlow, Mined,
     HasReceipt, Sent, Known
<1>10. ("record" \notin mode.imports => NotesPrivate)'
  <2> SUFFICES ASSUME "record" \notin mode.imports PROVE NotesPrivate'
    BY <1>1
  <2>1. NotesPrivate
    BY DEF CarefulOK
  <2>2. \A n \in ui.visible : Shows(vault', n)
    BY <1>4, <2>1, MarkedShows DEF NotesPrivate, PrivateAtRest
  <2> QED BY <1>1, <2>1, <2>2 DEF NotesPrivate, PrivateAtRest, Shows, Known, HoldsVault, HoldsShown
<1>11. MarksOK'
  BY <1>1, <1>2, <1>4 DEF CarefulOK, MarksTrue, MarksOK, HoldsVault
<1> QED BY <1>5, <1>6, <1>7, <1>8, <1>9, <1>10, <1>11 DEF CarefulOK, MarksOK

LEMMA NoteLogStep ==
  ASSUME CarefulOK, NEW log, HandleNoteLog(log)
  PROVE  CarefulOK'
<1>1. /\ log \in feed /\ log.topic = "NoteCreated"
      /\ feed' = feed \ {log}
      /\ UNCHANGED <<ui, vault, flow, unlocks, notes, chain, files, imported, mode>>
  BY DEF HandleNoteLog, Quiet
<1>2. LogOfFlow(log)
  BY <1>1 DEF CarefulOK, NetworkOK, FeedIsOwn
<1>3. Sent /\ Mined(flow.tx, TRUE) /\ log.note = flow.tx.creates /\ flow.tx.creates # Dummy
  <2>1. \/ log = [topic |-> "NullifierSpent", note |-> flow.tx.spends]
        \/ log = [topic |-> "NoteCreated", note |-> flow.tx.creates] /\ flow.tx.creates # Dummy
    BY <1>2 DEF LogOfFlow
  <2>2. log.note = flow.tx.creates /\ flow.tx.creates # Dummy
    BY <1>1, <2>1
  <2> QED BY <1>2, <2>2 DEF LogOfFlow
<1>4. log.note \in Known
  <2>1. flow.tx.creates \in 0..Len(notes) /\ Len(notes) \in Nat
    BY <1>3, FlowTx DEF CarefulOK, TypesOK
  <2> QED BY <1>3, <2>1 DEF Dummy, Known
<1>5. \A r \in live' : r \in live \/ r = [note |-> log.note, wallet |-> ui.signature]
  BY DEF HandleNoteLog
<1>6. SessionOK' /\ TypesOK'
  BY <1>1, SessionFrame, TypesFrame DEF CarefulOK, SessionOK, SameView
<1>7. FlowOK' /\ FlowVaultOK'
  BY <1>1, FlowFrame, FlowVaultFrame DEF CarefulOK, SessionOK, SameView
<1>8. (\A i \in UnlockIds : UnlockOK(i))' /\ (DOMAIN unlocks = UnlockIds)'
  BY <1>1, <1>3, FlowTx, NoUnlockFrame
<1>9. NetworkOK'
  <2>1. PendingIsOwn' /\ ReceiptsOK' /\ FeedIsOwn'
    BY <1>1 DEF CarefulOK, NetworkOK, PendingIsOwn, ReceiptsOK, FeedIsOwn, LogOfFlow, Mined, HasReceipt, Sent
  <2>2. ASSUME NEW r \in live'
        PROVE  /\ r = [note |-> r.note, wallet |-> ui.signature]
               /\ r.note \in Known
    <3>1. CASE r \in live
      BY <3>1 DEF CarefulOK, NetworkOK, LiveIsOwn
    <3>2. CASE r = [note |-> log.note, wallet |-> ui.signature]
      BY <1>4, <3>2
    <3> QED BY <1>5, <3>1, <3>2
  <2>3. LiveIsOwn'
    BY <1>1, <1>3, <2>2 DEF LiveIsOwn, Sent, Mined, Known
  <2> QED BY <2>1, <2>3 DEF NetworkOK
<1>10. ("record" \notin mode.imports => NotesPrivate)'
  BY <1>1, PrivateFrame DEF CarefulOK, SessionOK, SameView
<1>11. MarksOK'
  BY <1>1 DEF CarefulOK, MarksTrue, MarksOK, HoldsVault
<1> QED BY <1>6, <1>7, <1>8, <1>9, <1>10, <1>11 DEF CarefulOK, MarksOK

\* A live recovery shows a note of the session's own wallet and selects it
\* only when nothing is selected.
RecoveredView(u, n, note) ==
  [Show(u, n) EXCEPT !.scanFailed = FALSE, !.selected = IF @ = None THEN note ELSE @]

LEMMA LiveView ==
  ASSUME NEW u, IsSession(u), NEW n \in Nat, NEW note
  PROVE  LET w == RecoveredView(u, n, note)
         IN  /\ IsSession(w)
             /\ w.account = u.account /\ w.signature = u.signature /\ w.bundle = u.bundle
             /\ w.visible = u.visible \cup {n}
             /\ u.selected # None => w.selected = u.selected
<1> DEFINE s == Show(u, n)
           m == IF s.selected = None THEN note ELSE s.selected
           w == [s EXCEPT !.scanFailed = FALSE, !.selected = m]
<1>0. RecoveredView(u, n, note) = w
  BY DEF RecoveredView
<1>1. /\ IsSession(s) /\ s.account = u.account /\ s.signature = u.signature
      /\ s.visible = u.visible \cup {n} /\ s.selected = u.selected /\ s.bundle = u.bundle
  BY NoteShows
<1>2. u.selected # None => m = u.selected
  BY <1>1
<1> HIDE DEF s, m
<1>3. /\ IsSession(w) /\ w.account = s.account /\ w.signature = s.signature
      /\ w.visible = s.visible /\ w.selected = m /\ w.bundle = s.bundle
  BY <1>1 DEF IsSession
<1> HIDE DEF w
<1>4. /\ IsSession(w)
      /\ w.account = u.account /\ w.signature = u.signature /\ w.bundle = u.bundle
      /\ w.visible = u.visible \cup {n}
      /\ u.selected # None => w.selected = u.selected
  BY <1>1, <1>2, <1>3
<1> QED BY <1>0, <1>4

LEMMA LiveStep ==
  ASSUME CarefulOK, NEW r, LiveNoteRecovered(r)
  PROVE  CarefulOK'
<1> DEFINE found == Recovered({r.note}, {})
           view == RecoveredView(ui, r.note, FirstAvailable(found))
           opens == notes[r.note].key = r.wallet
<1>1. /\ r \in live /\ live' = live \ {r}
      /\ vault' = IF opens THEN Ingested(vault, found) ELSE vault
      /\ UNCHANGED <<flow, unlocks, notes, chain, feed, files, imported, mode>>
  BY DEF LiveNoteRecovered, Quiet
<1>3. ui' \in {ui, Show(ui, r.note), Status(view)} /\ (~opens => ui' = ui)
  BY DEF LiveNoteRecovered, RecoveredView
<1>4. /\ Sent /\ Mined(flow.tx, TRUE) /\ r = [note |-> r.note, wallet |-> ui.signature]
      /\ r.note \in Known /\ r.note \in Nat
  <2>1. /\ Sent /\ Mined(flow.tx, TRUE) /\ r.note \in Known
        /\ r = [note |-> r.note, wallet |-> ui.signature]
    BY <1>1 DEF CarefulOK, NetworkOK, LiveIsOwn
  <2>2. Len(notes) \in Nat
    BY DEF CarefulOK, TypesOK
  <2>3. r.note \in Nat
    BY <2>1, <2>2 DEF Known
  <2> QED BY <2>1, <2>3
<1>5. r.wallet = ui.signature
  BY <1>4
<1>6. IsSession(ui)
  BY DEF CarefulOK, SessionOK
<1>7. /\ IsSession(ui')
      /\ ui'.account = ui.account /\ ui'.signature = ui.signature /\ ui'.bundle = ui.bundle
      /\ ui'.visible = ui.visible \/ (opens /\ ui'.visible = ui.visible \cup {r.note})
      /\ ui.selected # None => ui'.selected = ui.selected
  <2>1. CASE ui' = ui
    BY <1>6, <2>1
  <2>2. CASE ui' = Show(ui, r.note) /\ opens
    BY <1>4, <1>6, <2>2, NoteShows
  <2>3. CASE ui' = Status(view) /\ opens
    <3>1. /\ IsSession(view)
          /\ view.account = ui.account /\ view.signature = ui.signature /\ view.bundle = ui.bundle
          /\ view.visible = ui.visible \cup {r.note}
          /\ ui.selected # None => view.selected = ui.selected
      BY <1>4, <1>6, LiveView
    <3> HIDE DEF view
    <3>2. IsSession(ui') /\ SameView(ui', view)
      BY <2>3, <3>1, StatusKeeps
    <3> QED BY <2>3, <3>1, <3>2 DEF SameView
  <2> QED BY <1>3, <2>1, <2>2, <2>3
<1>8. /\ DOMAIN found = {r.note} /\ found[r.note].spent \in BOOLEAN
      /\ found[r.note].spent => r.note \in chain.spent
  <2> DEFINE s == r.note \in chain.spent \ {}
  <2>1. s \in BOOLEAN /\ (s => r.note \in chain.spent)
    OBVIOUS
  <2>2. DOMAIN found = {r.note} /\ found[r.note] = [leaf |-> LeafOf(r.note), spent |-> s]
    BY DEF Recovered
  <2> HIDE DEF s, found
  <2>3. found[r.note].spent = s
    BY <2>2
  <2> QED BY <2>1, <2>2, <2>3
<1> HIDE DEF found, view
<1>9. VaultOK(vault)
  BY DEF CarefulOK, TypesOK
<1> DEFINE new == Ingested(vault, found)
<1>10. /\ VaultOK(new)
       /\ DOMAIN new = DOMAIN vault \cup DOMAIN found
       /\ \A n \in DOMAIN vault \cup DOMAIN found : n \notin DOMAIN found => new[n] = vault[n]
       /\ \A n \in DOMAIN found : new[n].spent => found[n].spent \/ (n \in DOMAIN vault /\ vault[n].spent)
  <2>1. \A n \in DOMAIN found : n \in Known /\ found[n].spent \in BOOLEAN
    BY <1>4, <1>8
  <2> QED BY <1>9, <2>1, IngestedOK
<1>11. vault' = IF opens THEN new ELSE vault
  BY <1>1
<1> HIDE DEF new
<1>12. SessionOK'
  BY <1>1, <1>4, <1>7 DEF CarefulOK, SessionOK, Known
<1>13. TypesOK'
  BY <1>1, <1>10, <1>11 DEF CarefulOK, TypesOK, VaultOK, EntryOK, Known
<1>14. FlowOK'
  <2>1. CASE DepositSent
    BY <1>1, <1>7, <2>1 DEF FlowOK, DepositSent, OutIsOwn, Known, Sent
  <2>2. CASE WithdrawalSent
    <3>1. flow.kind = "guided" => ui.selected # None
      BY <2>2, PanelConstants DEF WithdrawalSent, SpendsSelected, Known
    <3>2. WithdrawalSent'
      BY <1>1, <1>7, <2>2, <3>1 DEF WithdrawalSent, SpendsSelected, Known, Sent
    <3> QED BY <3>2 DEF FlowOK
  <2> QED BY <1>4, <2>1, <2>2, FlowTx
<1>15. FlowVaultOK'
  BY <1>1, FlowVaultFrame DEF CarefulOK
<1>16. (\A i \in UnlockIds : UnlockOK(i))' /\ (DOMAIN unlocks = UnlockIds)'
  BY <1>1, <1>4, FlowTx, NoUnlockFrame
<1>17. NetworkOK'
  BY <1>1, <1>7 DEF CarefulOK, NetworkOK, PendingIsOwn, ReceiptsOK, FeedIsOwn, LiveIsOwn, LogOfFlow, Mined,
     HasReceipt, Sent, Known
<1>18. ("record" \notin mode.imports => NotesPrivate)'
  <2> SUFFICES ASSUME "record" \notin mode.imports PROVE NotesPrivate'
    BY <1>1
  <2>1. NotesPrivate
    BY DEF CarefulOK
  <2>2. opens => \A n \in DOMAIN found : notes[n].key = ui.signature
    BY <1>5, <1>8
  <2>3. ASSUME NEW n, Shows(vault, n) PROVE Shows(vault', n)
    BY <1>10, <1>11, <2>2, <2>3, IngestedShows DEF new
  <2>4. \A n \in ui'.visible : n \in ui.visible \/ notes[n].key = ui.signature
    BY <1>5, <1>7
  <2>5. ui.visible \subseteq ui'.visible
    BY <1>7
  <2>6. \A n \in ui'.visible : Shows(vault, n)'
    <3>1. \A n \in ui'.visible : Shows(vault', n)
      BY <2>1, <2>3, <2>4 DEF NotesPrivate, PrivateAtRest, Shows
    <3> QED BY <1>1, <1>7, <3>1 DEF Shows
  <2>7. PrivateAtRest'
    BY <1>1, <1>7, <2>1, <2>6 DEF NotesPrivate, PrivateAtRest, Known
  <2>8. HoldsVault' => \A n \in ui'.visible : Shows(flow.vault, n)'
    BY <1>1, <1>7, <2>1, <2>4 DEF NotesPrivate, Shows, HoldsVault
  <2> QED BY <1>1, <1>7, <2>1, <2>5, <2>7, <2>8 DEF NotesPrivate, HoldsShown
<1>19. MarksOK'
  BY <1>1, <1>8, <1>10, <1>11 DEF CarefulOK, MarksTrue, MarksOK, HoldsVault
<1> QED BY <1>12, <1>13, <1>14, <1>15, <1>16, <1>17, <1>18, <1>19 DEF CarefulOK, MarksOK

-----------------------------------------------------------------------------
(* The handlers' own steps.                                                *)

LEMMA FlowAt ==
  ASSUME CarefulOK
  PROVE  /\ flow.pc = "deposit" => Depositing
         /\ flow.pc = "confirm" => Confirming
         /\ flow.pc = "path" => FindingPath
         /\ flow.pc = "prove" => Proving
         /\ flow.pc \in {"preflight", "relay", "output"} => Withdrawing
BY DEF CarefulOK, FlowOK, Sent, Idle, Connecting, Depositing, Confirming, DepositSent, FindingPath, Proving,
   Withdrawing, WithdrawalSent

LEMMA BeforeSending ==
  ASSUME CarefulOK, flow # Idle, ~Sent
  PROVE  /\ chain.pending = {} /\ feed = {} /\ live = {}
         /\ \A i \in UnlockIds : unlocks[i] = Idle
BY NothingUnderWay, NoUnlockWhileLocked DEF CarefulOK

LEMMA FailureSteps ==
  ASSUME CarefulOK, Careful,
         \/ RequestFails \/ CheckFails \/ TransactionReverted
         \/ ProofRefused /\ Fails
  PROVE  CarefulOK'
<1>1. /\ flow' = Idle /\ ui' = Status(ui)
      /\ UNCHANGED <<vault, unlocks, live, notes, chain, feed, files, imported, mode>>
  BY DEF RequestFails, CheckFails, TransactionReverted, ProofRefused, Fails, Quiet
<1>2. CASE TransactionReverted
  <2>1. Mined(flow.tx, FALSE)
    BY <1>2, Zenon DEF TransactionReverted
  <2>2. Sent /\ flow # Idle
    BY <1>2 DEF TransactionReverted, Sent, Idle
  <2> QED BY <1>1, <2>1, <2>2, RevertedQuietly, NoUnlockWhileLocked, Released
<1>3. CASE RequestFails \/ CheckFails \/ ProofRefused
  <2>1. flow # Idle /\ ~Sent
    BY <1>3 DEF RequestFails, CheckFails, ProofRefused, Careful, Sent, Idle
  <2> QED BY <1>1, <2>1, BeforeSending, Released
<1> QED BY <1>2, <1>3

\* A step between two requests: the handler moves on with what it holds.
LEMMA FlowMoves ==
  ASSUME CarefulOK, flow # Idle, ~Sent,
         IsSession(ui'), SameView(ui', ui),
         UNCHANGED <<vault, unlocks, live, notes, chain, feed, files, imported, mode>>,
         FlowOK', HoldsVault, flow'.vault = flow.vault,
         flow'.pc \in {"path", "prove"} =>
           /\ flow.pc \in {"path", "prove"}
           /\ flow'.record = flow.record /\ flow'.gross = flow.gross,
         HoldsShown' => HoldsShown /\ flow'.shown = flow.shown
  PROVE  CarefulOK'
<1>1. SessionOK' /\ TypesOK'
  BY SessionFrame, TypesFrame DEF CarefulOK
<1>2. FlowVaultOK'
  BY DEF CarefulOK, FlowVaultOK, VaultOK, EntryOK, Known
<1>3. (\A i \in UnlockIds : UnlockOK(i))' /\ (DOMAIN unlocks = UnlockIds)'
  BY NoUnlockFrame
<1>4. NetworkOK'
  BY BeforeSending, StillNetwork DEF CarefulOK
<1>5. ("record" \notin mode.imports => NotesPrivate)'
  BY DEF CarefulOK, NotesPrivate, PrivateAtRest, Shows, Known, SameView
<1>6. MarksOK'
  BY DEF CarefulOK, MarksOK, MarksTrue
<1> QED BY <1>1, <1>2, <1>3, <1>4, <1>5, <1>6 DEF CarefulOK, MarksOK

LEMMA WithdrawalChecks ==
  ASSUME CarefulOK, WithdrawalPath \/ Preflight \/ (ProofRefused /\ ~Fails)
  PROVE  CarefulOK'
<1>0. IsSession(ui)
  BY DEF CarefulOK, SessionOK
<1>1. /\ ui' = Status(ui)
      /\ UNCHANGED <<vault, unlocks, live, notes, chain, feed, files, imported, mode>>
  BY DEF WithdrawalPath, Preflight, ProofRefused, Quiet
<1>2. IsSession(ui') /\ SameView(ui', ui)
  BY <1>0, <1>1, StatusKeeps
<1>3. flow # Idle /\ ~Sent /\ HoldsVault /\ HoldsShown
  BY DEF WithdrawalPath, Preflight, ProofRefused, Sent, Idle, HoldsVault, HoldsShown
<1>4. CASE WithdrawalPath
  <2>1. FindingPath
    BY <1>4, FlowAt DEF WithdrawalPath
  <2>2. Len(chain.leaves) \in Nat
    BY DEF CarefulOK, TypesOK, Pools
  <2>3. flow' = [pc |-> "prove", record |-> flow.record, gross |-> flow.gross, signature |-> flow.signature,
                 vault |-> flow.vault, shown |-> flow.shown, root |-> Len(chain.leaves), attempt |-> 1]
    BY <1>4 DEF WithdrawalPath
  <2>4. Proving'
    BY <1>1, <1>2, <2>1, <2>2, <2>3 DEF Proving, FindingPath, SplitsOwn, SameView, Known
  <2>5. flow'.vault = flow.vault /\ flow'.record = flow.record /\ flow'.gross = flow.gross
        /\ flow'.shown = flow.shown /\ flow.pc = "path"
    BY <1>4, <2>3 DEF WithdrawalPath
  <2> QED BY <1>1, <1>2, <1>3, <2>4, <2>5, FlowMoves DEF FlowOK
<1>5. CASE ProofRefused /\ ~Fails
  <2>1. Proving /\ flow' = [flow EXCEPT !.attempt = @ + 1] /\ flow.pc = "prove"
    BY <1>5, FlowAt DEF ProofRefused
  <2>2. flow' = [pc |-> "prove", record |-> flow.record, gross |-> flow.gross, signature |-> ui.signature,
                 vault |-> flow.vault, shown |-> flow.shown, root |-> flow.root, attempt |-> flow.attempt + 1]
    BY <2>1 DEF Proving
  <2>3. Proving'
    BY <1>1, <1>2, <2>1, <2>2 DEF Proving, SplitsOwn, SameView, Known
  <2>4. flow'.vault = flow.vault /\ flow'.record = flow.record /\ flow'.gross = flow.gross
        /\ flow'.shown = flow.shown
    BY <2>2
  <2> QED BY <1>1, <1>2, <1>3, <2>1, <2>3, <2>4, FlowMoves DEF FlowOK
<1>6. CASE Preflight
  <2>1. Withdrawing /\ flow' = [flow EXCEPT !.pc = "relay"] /\ flow.pc = "preflight"
    BY <1>6, FlowAt DEF Preflight
  <2>2. flow' = [kind |-> flow.kind, pc |-> "relay", record |-> flow.record, bundle |-> ui.bundle,
                 vault |-> flow.vault, shown |-> flow.shown]
    BY <2>1 DEF Withdrawing
  <2>3. Withdrawing'
    BY <1>1, <1>2, <2>1, <2>2 DEF Withdrawing, SpendsSelected, SameView, Known
  <2>4. flow'.vault = flow.vault /\ flow'.shown = flow.shown /\ flow'.pc = "relay"
    BY <2>2
  <2> QED BY <1>1, <1>2, <1>3, <2>3, <2>4, FlowMoves DEF FlowOK
<1> QED BY <1>4, <1>5, <1>6

LEMMA ReceiptPollStep ==
  ASSUME CarefulOK, Careful, ReceiptPoll
  PROVE  CarefulOK'
<1>1. /\ Sent /\ flow' = [flow EXCEPT !.polls = @ - 1]
      /\ UNCHANGED <<ui, vault, unlocks, live, notes, chain, feed, files, imported, mode>>
  BY DEF ReceiptPoll, Careful, Quiet, Sent
<1>2. flow # Idle /\ (DepositSent \/ WithdrawalSent)
  BY <1>1, FlowTx
<1>3. /\ flow'.pc = flow.pc /\ flow'.kind = flow.kind /\ flow'.vault = flow.vault /\ flow'.tx = flow.tx
      /\ WithdrawalSent => flow'.shown = flow.shown
      /\ FlowOK'
  <2>1. CASE DepositSent
    <3>1. flow' = [kind |-> "deposit", pc |-> "receipt", tx |-> DepositTx(flow.out),
                   polls |-> flow.polls - 1, vault |-> flow.vault, out |-> flow.out]
      BY <1>1, <2>1 DEF DepositSent
    <3> QED BY <1>1, <2>1, <3>1 DEF FlowOK, DepositSent, WithdrawalSent, OutIsOwn, Known, Sent
  <2>2. CASE WithdrawalSent
    <3>1. flow' = [kind |-> flow.kind, pc |-> "receipt", tx |-> WithdrawTx(ui.bundle),
                   polls |-> flow.polls - 1, record |-> flow.record, bundle |-> ui.bundle,
                   vault |-> flow.vault, shown |-> flow.shown]
      BY <1>1, <2>2 DEF WithdrawalSent
    <3> QED BY <1>1, <2>2, <3>1 DEF FlowOK, WithdrawalSent, SpendsSelected, Known, Sent
  <2> QED BY <1>2, <2>1, <2>2
<1>4. IsSession(ui') /\ SameView(ui', ui)
  BY <1>1 DEF CarefulOK, SessionOK, SameView
<1>5. SessionOK' /\ TypesOK'
  BY <1>1, <1>4, SessionFrame, TypesFrame DEF CarefulOK
<1>6. FlowVaultOK'
  BY <1>1, <1>3 DEF CarefulOK, FlowVaultOK, HoldsVault, VaultOK, EntryOK, Known
<1>7. (\A i \in UnlockIds : UnlockOK(i))' /\ (DOMAIN unlocks = UnlockIds)'
  BY <1>1, <1>2, NoUnlockFrame
<1>8. NetworkOK'
  BY <1>1, <1>3 DEF CarefulOK, NetworkOK, PendingIsOwn, ReceiptsOK, FeedIsOwn, LiveIsOwn, LogOfFlow, Mined,
     HasReceipt, Sent, Known
<1>9. ("record" \notin mode.imports => NotesPrivate)'
  BY <1>1, <1>2, <1>3 DEF CarefulOK, NotesPrivate, PrivateAtRest, Shows, Known, HoldsVault, HoldsShown, Sent,
     DepositSent
<1>10. MarksOK'
  BY <1>1, <1>3 DEF CarefulOK, MarksOK, MarksTrue, HoldsVault
<1> QED BY <1>3, <1>5, <1>6, <1>7, <1>8, <1>9, <1>10 DEF CarefulOK, MarksOK

\* A handler starts: what it captures is the session's.
LEMMA DepositStarts ==
  ASSUME CarefulOK, Careful, NEW a \in Amounts, SendDeposit(a)
  PROVE  CarefulOK'
<1>1. /\ flow = Idle /\ feed = {} /\ live = {} /\ chain.pending = {}
      /\ \A i \in UnlockIds : unlocks[i] = Idle
      /\ mode' = mode
  BY ClickIsQuiet DEF SendDeposit
<1>2. /\ flow' = [pc |-> "deposit", amount |-> a, account |-> ui.account,
                  signature |-> ui.signature, vault |-> vault]
      /\ ui' = Status(ui)
      /\ UNCHANGED <<vault, unlocks, live, notes, chain, feed, files, imported>>
  BY DEF SendDeposit
<1>3. IsSession(ui') /\ SameView(ui', ui)
  BY <1>2, StatusKeeps DEF CarefulOK, SessionOK
<1>4. SessionOK' /\ TypesOK'
  BY <1>2, <1>3, SessionFrame, TypesFrame DEF CarefulOK
<1>5. a \in Int
  BY PanelConstants
<1>6. flow'.pc = "deposit" /\ flow'.vault = vault /\ flow'.amount = a
  BY <1>2
<1>7. Depositing'
  BY <1>2, <1>3, <1>5, <1>6 DEF Depositing, SameView
<1>8. FlowOK' /\ FlowVaultOK' /\ ~HoldsShown'
  BY <1>2, <1>6, <1>7 DEF FlowOK, FlowVaultOK, HoldsShown, CarefulOK, TypesOK, VaultOK, EntryOK, Known
<1>9. (\A i \in UnlockIds : UnlockOK(i))' /\ (DOMAIN unlocks = UnlockIds)'
  BY <1>1, <1>2, UnlocksFrame DEF CarefulOK
<1>10. NetworkOK'
  BY <1>1, <1>2, StillNetwork DEF CarefulOK
<1>11. ("record" \notin mode.imports => NotesPrivate)'
  BY <1>1, <1>2, <1>3, <1>6, <1>8 DEF CarefulOK, NotesPrivate, PrivateAtRest, Shows, Known, SameView
<1>12. MarksOK'
  BY <1>1, <1>2, <1>6 DEF CarefulOK, MarksOK, MarksTrue
<1> QED BY <1>4, <1>8, <1>9, <1>10, <1>11, <1>12 DEF CarefulOK, MarksOK

\* New spend material leaves what is known of the other notes alone.
LEMMA NoteAppends ==
  ASSUME notes \in Seq(NoteData), NEW d \in NoteData, notes' = Append(notes, d)
  PROVE  /\ notes' \in Seq(NoteData)
         /\ Known \subseteq Known' /\ Len(notes) + 1 \in Known'
         /\ \A n \in Known : notes'[n] = notes[n]
         /\ notes'[Len(notes) + 1] = d
         /\ \A n \in Known' : n \in Known \/ n = Len(notes) + 1
BY DEF Known

LEMMA DepositMaterialStep ==
  ASSUME CarefulOK, DepositMaterial
  PROVE  CarefulOK'
<1>1. /\ flow.pc = "deposit"
      /\ UNCHANGED <<vault, unlocks, live, chain, feed, files, imported, mode>>
  BY DEF DepositMaterial, Quiet
<1>2. Depositing /\ flow # Idle /\ ~Sent /\ HoldsVault
  BY <1>1, FlowAt DEF Sent, Idle, HoldsVault
<1>3. /\ chain.pending = {} /\ feed = {} /\ live = {}
      /\ \A i \in UnlockIds : unlocks[i] = Idle
  BY <1>2, BeforeSending
<1>4. IsSession(ui) /\ SessionOK /\ TypesOK /\ VaultOK(vault) /\ VaultOK(flow.vault)
  BY <1>2 DEF CarefulOK, SessionOK, TypesOK, FlowVaultOK
<1>5. flow.account = ui.account /\ flow.signature = ui.signature
  BY <1>2 DEF Depositing
<1>6. PICK sender \in IF flow.account = None THEN Wallets ELSE {flow.account} :
        /\ ui' = Status(IF flow.account = None THEN [ui EXCEPT !.account = sender] ELSE ui)
        /\ IF MayDeposit(flow.signature)
           THEN /\ Len(notes) < MaxNotes
                /\ notes' = Append(notes, [amount |-> flow.amount, key |-> flow.signature, owner |-> sender])
                /\ flow' = [pc |-> "confirm", out |-> Len(notes) + 1, vault |-> flow.vault]
           ELSE flow' = Idle /\ UNCHANGED notes
  BY DEF DepositMaterial
<1>7. sender \in Wallets
  BY <1>4, <1>5, <1>6 DEF IsSession
<1>8. /\ IsSession(ui')
      /\ ui'.signature = ui.signature /\ ui'.visible = ui.visible /\ ui'.bundle = ui.bundle
      /\ ui'.account = sender
      /\ ui.account # None => ui'.account = ui.account
  <2>1. CASE flow.account = None
    <3> DEFINE u == [ui EXCEPT !.account = sender]
    <3>1. /\ IsSession(u) /\ u.account = sender /\ u.signature = ui.signature /\ u.visible = ui.visible
          /\ u.bundle = ui.bundle
      BY <1>4, <1>7, AccountSets
    <3>2. ui' = Status(u)
      BY <1>6, <2>1
    <3> HIDE DEF u
    <3> QED BY <1>5, <2>1, <3>1, <3>2, StatusKeeps DEF SameView
  <2>2. CASE flow.account # None
    BY <1>4, <1>5, <1>6, <2>2, StatusKeeps DEF SameView
  <2> QED BY <2>1, <2>2
<1>9. ui.signature = None => ui'.signature = None
  BY <1>8
<1>10. ui'.signature # None => ui'.account = ui'.signature
  BY <1>4, <1>8, PanelConstants DEF SessionOK, IsSession
<1>11. CASE ~MayDeposit(flow.signature)
  <2>1. flow' = Idle /\ UNCHANGED notes
    BY <1>6, <1>11
  <2>2. SessionOK' /\ TypesOK'
    BY <1>1, <1>4, <1>8, <1>10, <2>1, TypesFrame DEF SessionOK, Known
  <2>3. (\A i \in UnlockIds : UnlockOK(i))' /\ (DOMAIN unlocks = UnlockIds)'
    BY <1>1, <1>3, UnlocksFrame DEF CarefulOK
  <2>4. "record" \notin mode.imports => PrivateAtRest'
    BY <1>1, <1>8, <2>1 DEF CarefulOK, NotesPrivate, PrivateAtRest, Shows, Known
  <2>5. ~mode.diagnostics => MarksTrue(vault)'
    BY <1>1 DEF CarefulOK, MarksTrue
  <2> QED BY <1>1, <1>3, <2>1, <2>2, <2>3, <2>4, <2>5, IdleInv
<1>12. CASE MayDeposit(flow.signature)
  <2> DEFINE d == [amount |-> flow.amount, key |-> flow.signature, owner |-> sender]
             out == Len(notes) + 1
  <2>1. d \in NoteData /\ d.key = ui.signature /\ d.owner = ui'.account /\ ui.signature # None
    BY <1>2, <1>4, <1>5, <1>7, <1>8, <1>12 DEF NoteData, Depositing, IsSession, MayDeposit
  <2>2. d.key = d.owner
    BY <1>8, <1>10, <2>1
  <2>3. notes' = Append(notes, d) /\ flow' = [pc |-> "confirm", out |-> out, vault |-> flow.vault]
    BY <1>6, <1>12
  <2> HIDE DEF d
  <2>4. /\ notes' \in Seq(NoteData)
        /\ Known \subseteq Known' /\ out \in Known'
        /\ \A n \in Known : notes'[n] = notes[n]
        /\ notes'[out] = d
        /\ \A n \in Known' : n \in Known \/ n = out
        /\ Len(notes) \in Nat /\ Len(notes') = Len(notes) + 1
    <3>1. notes \in Seq(NoteData) /\ d \in NoteData /\ notes' = Append(notes, d)
      BY <1>4, <2>1, <2>3 DEF TypesOK
    <3>2. Len(notes) \in Nat /\ Len(notes') = Len(notes) + 1
      BY <3>1
    <3>3. /\ notes' \in Seq(NoteData)
          /\ Known \subseteq Known' /\ Len(notes) + 1 \in Known'
          /\ \A n \in Known : notes'[n] = notes[n]
          /\ notes'[Len(notes) + 1] = d
          /\ \A n \in Known' : n \in Known \/ n = Len(notes) + 1
      BY <3>1, NoteAppends
    <3> QED BY <3>2, <3>3
  <2> HIDE DEF out
  <2>5. SessionOK'
    <3>1. 0..Len(notes) \subseteq 0..Len(notes')
      BY <2>4
    <3> QED BY <1>4, <1>8, <1>10, <2>4, <3>1 DEF SessionOK
  <2>6. TypesOK'
    BY <1>1, <1>4, <2>4 DEF TypesOK, VaultOK, EntryOK
  <2>7. flow'.pc = "confirm" /\ flow'.out = out /\ flow'.vault = flow.vault
    BY <2>3
  <2>8. Confirming' /\ ~HoldsShown'
    BY <1>8, <2>1, <2>3, <2>4, <2>7 DEF Confirming, OutIsOwn, HoldsShown
  <2>9. FlowOK' /\ FlowVaultOK'
    BY <1>4, <2>4, <2>7, <2>8 DEF FlowOK, FlowVaultOK, VaultOK, EntryOK
  <2>10. (\A i \in UnlockIds : UnlockOK(i))' /\ (DOMAIN unlocks = UnlockIds)'
    BY <1>1, <1>3, UnlocksFrame DEF CarefulOK
  <2>11. NetworkOK'
    BY <1>1, <1>3, StillNetwork DEF CarefulOK
  <2>12. ("record" \notin mode.imports => NotesPrivate)'
    <3> SUFFICES ASSUME "record" \notin mode.imports PROVE NotesPrivate'
      BY <1>1
    <3>1. NotesPrivate
      BY DEF CarefulOK
    <3>2. \A n \in Known' : notes'[n].key = notes'[n].owner
      BY <2>2, <2>4, <3>1 DEF NotesPrivate, PrivateAtRest
    <3>3. \A n \in ui.visible : n \in Known /\ notes'[n] = notes[n]
      BY <1>4, <2>4 DEF SessionOK
    <3>4. \A n \in ui'.visible : Shows(vault, n)' /\ Shows(flow.vault, n)'
      BY <1>1, <1>2, <1>8, <2>7, <3>1, <3>3 DEF NotesPrivate, PrivateAtRest, Shows
    <3>5. ui'.bundle # None /\ ui'.bundle.change => notes'[ui'.bundle.out].key = ui'.signature
      BY <1>4, <1>8, <2>4, <3>1 DEF NotesPrivate, PrivateAtRest, SessionOK
    <3> QED BY <2>7, <2>8, <3>2, <3>4, <3>5 DEF NotesPrivate, PrivateAtRest
  <2>13. MarksOK'
    BY <1>1, <1>2, <2>7 DEF CarefulOK, MarksOK, MarksTrue
  <2> QED BY <2>5, <2>6, <2>9, <2>10, <2>11, <2>12, <2>13 DEF CarefulOK, MarksOK
<1> QED BY <1>11, <1>12

LEMMA DepositConfirmedStep ==
  ASSUME CarefulOK, DepositConfirmed
  PROVE  CarefulOK'
<1> DEFINE tx == DepositTx(flow.out)
<1>1. /\ flow.pc = "confirm" /\ chain' = Broadcast(tx)
      /\ flow' = [kind |-> "deposit", pc |-> "receipt", tx |-> tx, polls |-> Polls,
                  vault |-> flow.vault, out |-> flow.out]
      /\ ui' = Status(ui)
      /\ UNCHANGED <<vault, unlocks, live, notes, feed, files, imported, mode>>
  BY DEF DepositConfirmed, Quiet
<1>2. Confirming /\ flow # Idle /\ ~Sent /\ HoldsVault
  BY <1>1, FlowAt DEF Sent, Idle, HoldsVault
<1>3. /\ chain.pending = {} /\ feed = {} /\ live = {}
      /\ \A i \in UnlockIds : unlocks[i] = Idle
  BY <1>2, BeforeSending
<1>4. IsSession(ui') /\ SameView(ui', ui)
  BY <1>1, StatusKeeps DEF CarefulOK, SessionOK
<1>5. tx \in Txs /\ flow.out \in Known
  <2>1. Len(notes) \in Nat /\ flow.out \in Known
    BY <1>2 DEF CarefulOK, TypesOK, Confirming, OutIsOwn
  <2> QED BY <2>1 DEF Txs, DepositTx, Known
<1>6. flow'.pc = "receipt" /\ flow'.kind = "deposit" /\ flow'.tx = tx /\ flow'.vault = flow.vault
      /\ flow'.out = flow.out
  BY <1>1
<1> HIDE DEF tx
<1>7. /\ chain' \in Pools /\ chain'.receipts = chain.receipts /\ chain'.spent = chain.spent
      /\ \A t \in chain'.pending : t = tx /\ ~HasReceipt(t)
  BY <1>1, <1>3, <1>5 DEF CarefulOK, TypesOK, Pools, Broadcast
<1>8. SessionOK' /\ TypesOK'
  BY <1>1, <1>4, <1>7, SessionFrame DEF CarefulOK, TypesOK, VaultOK, EntryOK, Known
<1>9. DepositSent'
  BY <1>1, <1>2, <1>4, <1>6 DEF DepositSent, Confirming, OutIsOwn, Known, SameView, Sent, tx
<1>10. FlowOK' /\ FlowVaultOK' /\ ~HoldsShown' /\ (flow.pc \notin {"path", "prove"})'
  BY <1>1, <1>2, <1>6, <1>9 DEF CarefulOK, FlowOK, FlowVaultOK, HoldsShown, VaultOK, EntryOK, Known
<1>11. (\A i \in UnlockIds : UnlockOK(i))' /\ (DOMAIN unlocks = UnlockIds)'
  BY <1>1, <1>3, UnlocksFrame DEF CarefulOK
<1>12. NetworkOK'
  BY <1>1, <1>3, <1>6, <1>7 DEF CarefulOK, NetworkOK, PendingIsOwn, ReceiptsOK, FeedIsOwn, LiveIsOwn, Mined,
     HasReceipt, Sent
<1>13. ("record" \notin mode.imports => NotesPrivate)'
  BY <1>1, <1>2, <1>4, <1>6, <1>10 DEF CarefulOK, NotesPrivate, PrivateAtRest, Shows, Known, SameView
<1>14. MarksOK'
  BY <1>1, <1>2, <1>6, <1>7 DEF CarefulOK, MarksOK, MarksTrue
<1> QED BY <1>8, <1>10, <1>11, <1>12, <1>13, <1>14 DEF CarefulOK, MarksOK

\* What a write of one note leaves of a vault: w is v with note n upserted.
Upserted(w, v, n, route) ==
  /\ VaultOK(w)
  /\ DOMAIN w = DOMAIN v \cup {n}
  /\ \A m \in DOMAIN v : m # n => w[m] = v[m]
  /\ w[n].route = route
  /\ w[n].spent => n \in DOMAIN v /\ v[n].spent

LEMMA UpsertOK ==
  ASSUME NEW v, VaultOK(v), NEW n \in Known, NEW route \in {"local-note", "recovery-kit"}, NEW leaf
  PROVE  Upserted(UpsertSandboxNoteVaultRecord(v, n, route, leaf), v, n, route)
<1> DEFINE s == n \in DOMAIN v /\ v[n].spent
           e == [spent |-> s, route |-> route, leaf |-> leaf]
           w == UpsertSandboxNoteVaultRecord(v, n, route, leaf)
<1>1. s \in BOOLEAN /\ (s => n \in DOMAIN v /\ v[n].spent)
  BY DEF VaultOK, EntryOK
<1>2. w = [m \in DOMAIN v \cup {n} |-> IF m # n THEN v[m] ELSE e]
  BY DEF UpsertSandboxNoteVaultRecord
<1> HIDE DEF s, w
<1>3. EntryOK(e) /\ e.route = route /\ e.spent = s
  BY <1>1 DEF EntryOK
<1> HIDE DEF e
<1>4. /\ DOMAIN w = DOMAIN v \cup {n} /\ w[n] = e
      /\ \A m \in DOMAIN v : m # n => w[m] = v[m]
  BY <1>2
<1>5. VaultOK(w)
  BY <1>3, <1>4 DEF VaultOK
<1>6. Upserted(w, v, n, route)
  BY <1>1, <1>3, <1>4, <1>5 DEF Upserted
<1> QED BY <1>6 DEF w

LEMMA ChangeForgotten ==
  ASSUME NEW u, IsSession(u)
  PROVE  /\ IsSession(ForgetPendingChange(u))
         /\ ForgetPendingChange(u).account = u.account
         /\ ForgetPendingChange(u).signature = u.signature
         /\ ForgetPendingChange(u).visible = u.visible
         /\ ForgetPendingChange(u).selected = u.selected
         /\ u.bundle = None => ForgetPendingChange(u).bundle = None
         /\ u.bundle # None =>
              /\ ForgetPendingChange(u).bundle.out = u.bundle.out
              /\ ForgetPendingChange(u).bundle.change = FALSE
<1> DEFINE b == IF u.bundle = None THEN None ELSE [u.bundle EXCEPT !.change = FALSE]
<1>1. ForgetPendingChange(u) = [u EXCEPT !.bundle = b]
  BY DEF ForgetPendingChange
<1>2. /\ b \in Bundles \cup {None}
      /\ u.bundle = None => b = None
      /\ u.bundle # None => b.out = u.bundle.out /\ b.change = FALSE
  <2>1. u.bundle \in Bundles \cup {None}
    BY DEF IsSession
  <2> QED BY <2>1 DEF Bundles
<1> HIDE DEF b
<1> QED BY <1>1, <1>2 DEF IsSession

LEMMA DepositMinedStep ==
  ASSUME CarefulOK, Careful, DepositMined
  PROVE  CarefulOK'
<1> DEFINE u1 == Show(ui, flow.out)
           u2 == SelectNoteRecordForWithdrawal(u1, flow.out)
           u3 == ForgetPendingChange(u2)
<1>1. /\ Sent /\ flow.kind = "deposit" /\ HasReceipt(flow.tx) /\ feed = {} /\ live = {}
      /\ vault' = UpsertSandboxNoteVaultRecord(flow.vault, flow.out, "local-note", NoLeaf)
      /\ ui' = Status(u3)
      /\ flow' = Idle
      /\ UNCHANGED <<unlocks, live, notes, chain, feed, files, imported, mode>>
  BY Zenon DEF DepositMined, Quiet, Sent, HasReceipt, LogsSeen, Careful
<1>2. DepositSent /\ flow # Idle /\ HoldsVault
  BY <1>1, FlowTx DEF WithdrawalSent, Sent, HoldsVault
<1>3. chain.pending = {} /\ \A i \in UnlockIds : unlocks[i] = Idle
  BY <1>1, <1>2, EverythingSeen, NoUnlockWhileLocked
<1>4. /\ IsSession(ui) /\ SessionOK /\ TypesOK /\ VaultOK(flow.vault)
      /\ flow.out \in Known /\ notes[flow.out].key = ui.signature /\ flow.out \in Nat
  <2>1. Len(notes) \in Nat
    BY DEF CarefulOK, TypesOK
  <2>2. flow.out \in Known /\ notes[flow.out].key = ui.signature
    BY <1>2 DEF DepositSent, OutIsOwn
  <2>3. flow.out \in Nat
    BY <2>1, <2>2 DEF Known
  <2> QED BY <1>2, <2>2, <2>3 DEF CarefulOK, SessionOK, FlowVaultOK
<1>5. /\ IsSession(ui') /\ ui'.account = ui.account /\ ui'.signature = ui.signature
      /\ ui'.visible = ui.visible \cup {flow.out}
      /\ ui.bundle = None => ui'.bundle = None
      /\ ui.bundle # None => ui'.bundle.out = ui.bundle.out /\ ui'.bundle.change = FALSE
  <2>1. /\ IsSession(u1) /\ u1.account = ui.account /\ u1.signature = ui.signature /\ u1.bundle = ui.bundle
        /\ u1.visible = ui.visible \cup {flow.out}
    BY <1>4, NoteShows
  <2> HIDE DEF u1
  <2>2. /\ IsSession(u2) /\ u2.account = u1.account /\ u2.signature = u1.signature /\ u2.bundle = u1.bundle
        /\ u2.visible = u1.visible
    BY <2>1, NoteSelects
  <2> HIDE DEF u2
  <2>3. /\ IsSession(u3) /\ u3.account = u2.account /\ u3.signature = u2.signature
        /\ u3.visible = u2.visible
        /\ u2.bundle = None => u3.bundle = None
        /\ u2.bundle # None => u3.bundle.out = u2.bundle.out /\ u3.bundle.change = FALSE
    BY <2>2, ChangeForgotten
  <2> HIDE DEF u3
  <2>4. IsSession(ui') /\ SameView(ui', u3)
    BY <1>1, <2>3, StatusKeeps
  <2> QED BY <2>1, <2>2, <2>3, <2>4 DEF SameView
<1> HIDE DEF u1, u2, u3
<1>6. /\ VaultOK(vault')
      /\ DOMAIN vault' = DOMAIN flow.vault \cup {flow.out}
      /\ \A m \in DOMAIN flow.vault : m # flow.out => vault'[m] = flow.vault[m]
      /\ vault'[flow.out].spent => flow.out \in DOMAIN flow.vault /\ flow.vault[flow.out].spent
  <2>1. "local-note" \in {"local-note", "recovery-kit"}
    OBVIOUS
  <2>2. Upserted(UpsertSandboxNoteVaultRecord(flow.vault, flow.out, "local-note", NoLeaf),
                 flow.vault, flow.out, "local-note")
    BY <1>4, <2>1, UpsertOK, Zenon
  <2>3. Upserted(vault', flow.vault, flow.out, "local-note")
    BY <1>1, <2>2, Zenon
  <2> QED BY <2>3 DEF Upserted
<1>7. SessionOK'
  BY <1>1, <1>4, <1>5, PanelConstants DEF SessionOK, Known
<1>8. TypesOK'
  BY <1>1, <1>4, <1>6 DEF TypesOK, VaultOK, EntryOK, Known
<1>9. (\A i \in UnlockIds : UnlockOK(i))' /\ (DOMAIN unlocks = UnlockIds)'
  BY <1>1, <1>3, UnlocksFrame DEF CarefulOK
<1>10. "record" \notin mode.imports => PrivateAtRest'
  <2> SUFFICES ASSUME "record" \notin mode.imports PROVE PrivateAtRest'
    OBVIOUS
  <2>1. NotesPrivate
    BY DEF CarefulOK
  <2>2. \A n \in ui'.visible : Shows(vault, n)'
    BY <1>1, <1>2, <1>4, <1>5, <1>6, <2>1 DEF NotesPrivate, Shows
  <2> QED BY <1>1, <1>5, <2>1, <2>2 DEF NotesPrivate, PrivateAtRest, Known
<1>11. ~mode.diagnostics => MarksTrue(vault)'
  BY <1>1, <1>2, <1>6 DEF CarefulOK, MarksTrue
<1> QED BY <1>1, <1>3, <1>7, <1>8, <1>9, <1>10, <1>11, IdleInv

-----------------------------------------------------------------------------
(* Withdrawals: the note, the proof and the relayed transaction.           *)

LEMMA GuidedStarts ==
  ASSUME CarefulOK, Careful, NEW requested \in Amounts, GuidedWithdrawal(requested)
  PROVE  CarefulOK'
<1>1. /\ flow = Idle /\ feed = {} /\ live = {} /\ chain.pending = {}
      /\ \A i \in UnlockIds : unlocks[i] = Idle
      /\ mode' = mode
  BY ClickIsQuiet DEF GuidedWithdrawal
<1>2. PICK n \in SmallestCovering(vault, ui.visible, requested) :
        /\ flow' = [pc |-> "path", record |-> n, leaf |-> vault[n].leaf,
                    gross |-> GrossFor(vault, n, requested),
                    signature |-> ui.signature, vault |-> vault, shown |-> ui.visible]
        /\ ui' = Status(ClearWithdrawalProofBundle(SelectNoteRecordForWithdrawal(ui, n)))
        /\ UNCHANGED <<vault, unlocks, live, notes, chain, feed, files, imported>>
  BY DEF GuidedWithdrawal
<1>3. n \in DOMAIN vault /\ n \in ui.visible /\ n \in Known
  <2>1. n \in DOMAIN vault \cap ui.visible
    BY <1>2 DEF SmallestCovering, Available
  <2> QED BY <2>1 DEF CarefulOK, SessionOK
<1>4. /\ IsSession(ui') /\ ui'.account = ui.account /\ ui'.signature = ui.signature
      /\ ui'.visible = ui.visible /\ ui'.selected = n /\ ui'.bundle = None
  <2> DEFINE u1 == SelectNoteRecordForWithdrawal(ui, n)
             u2 == ClearWithdrawalProofBundle(u1)
  <2>1. /\ IsSession(u1) /\ u1.account = ui.account /\ u1.signature = ui.signature
        /\ u1.visible = ui.visible /\ u1.selected = n
    BY NoteSelects DEF CarefulOK, SessionOK
  <2> HIDE DEF u1
  <2>2. /\ IsSession(u2) /\ u2.account = u1.account /\ u2.signature = u1.signature
        /\ u2.visible = u1.visible /\ u2.selected = u1.selected /\ u2.bundle = None
    BY <2>1, BundleClears
  <2>3. ui' = Status(u2)
    BY <1>2 DEF u1
  <2> HIDE DEF u2
  <2> QED BY <2>1, <2>2, <2>3, StatusKeeps DEF SameView
<1>5. notes[n].amount \in Int
  <2>1. notes \in Seq(NoteData)
    BY DEF CarefulOK, TypesOK
  <2>2. notes[n] \in NoteData
    BY <1>3, <2>1 DEF Known
  <2> QED BY <2>2 DEF NoteData
<1> DEFINE gross == GrossFor(vault, n, requested)
<1>6. gross \in Int /\ (vault[n].route = "recovery-kit" => gross = notes[n].amount)
  <2>1. requested \in Int
    BY PanelConstants
  <2> QED BY <1>5, <2>1 DEF GrossFor
<1>7. /\ flow'.pc = "path" /\ flow'.record = n /\ flow'.leaf = vault[n].leaf /\ flow'.gross = gross
      /\ flow'.vault = vault /\ flow'.shown = ui.visible
      /\ flow' = [pc |-> "path", record |-> n, leaf |-> vault[n].leaf, gross |-> gross,
                  signature |-> ui.signature, vault |-> vault, shown |-> ui.visible]
  BY <1>2
<1> HIDE DEF gross
<1>8. SessionOK' /\ TypesOK'
  BY <1>2, <1>4, TypesFrame DEF CarefulOK, SessionOK, Known
<1>9. FindingPath'
  BY <1>2, <1>3, <1>4, <1>6, <1>7 DEF FindingPath, SplitsOwn, Known
<1>10. FlowOK' /\ FlowVaultOK'
  BY <1>2, <1>7, <1>9 DEF FlowOK, FlowVaultOK, CarefulOK, TypesOK, VaultOK, EntryOK, Known
<1>11. (\A i \in UnlockIds : UnlockOK(i))' /\ (DOMAIN unlocks = UnlockIds)'
  BY <1>1, <1>2, UnlocksFrame DEF CarefulOK
<1>12. NetworkOK'
  BY <1>1, <1>2, StillNetwork DEF CarefulOK
<1>13. ("record" \notin mode.imports => NotesPrivate)'
  <2> SUFFICES ASSUME "record" \notin mode.imports PROVE NotesPrivate'
    BY <1>1
  <2>1. NotesPrivate
    BY DEF CarefulOK
  <2>2. \A m \in ui'.visible : Shows(vault, m)' /\ Shows(flow.vault, m)'
    BY <1>2, <1>4, <1>7, <2>1 DEF NotesPrivate, PrivateAtRest, Shows
  <2>3. PrivateAtRest'
    BY <1>2, <1>4, <2>1, <2>2 DEF NotesPrivate, PrivateAtRest, Known
  <2>4. gross < notes[n].amount => notes[n].key = ui.signature
    <3>1. Shows(vault, n)
      BY <1>3, <2>1 DEF NotesPrivate, PrivateAtRest
    <3> QED BY <1>3, <1>5, <1>6, <3>1 DEF Shows
  <2> QED BY <1>2, <1>4, <1>7, <2>2, <2>3, <2>4 DEF NotesPrivate
<1>14. MarksOK'
  BY <1>1, <1>2, <1>7 DEF CarefulOK, MarksOK, MarksTrue
<1> QED BY <1>8, <1>10, <1>11, <1>12, <1>13, <1>14 DEF CarefulOK, MarksOK

LEMMA ManualStarts ==
  ASSUME CarefulOK, Careful, ManualWithdrawal
  PROVE  CarefulOK'
<1>1. /\ flow = Idle /\ feed = {} /\ live = {} /\ chain.pending = {}
      /\ \A i \in UnlockIds : unlocks[i] = Idle
      /\ mode' = mode
  BY ClickIsQuiet DEF ManualWithdrawal
<1>2. /\ mode.diagnostics /\ ui.bundle # None /\ ui' = Status(ui)
      /\ UNCHANGED <<vault, unlocks, live, notes, chain, feed, files, imported>>
  BY DEF ManualWithdrawal
<1>3. CASE flow' = Idle
  BY <1>1, <1>2, <1>3, Released
<1>4. CASE flow' = [kind |-> "manual", pc |-> "preflight", record |-> ui.selected, bundle |-> ui.bundle,
                    vault |-> vault, shown |-> ui.visible]
  <2>1. IsSession(ui') /\ SameView(ui', ui) /\ ui.bundle \in Bundles
    BY <1>2, StatusKeeps DEF CarefulOK, SessionOK, IsSession
  <2>2. flow'.pc = "preflight" /\ flow'.kind = "manual" /\ flow'.vault = vault /\ flow'.shown = ui.visible
        /\ flow'.record = ui.selected
    BY <1>4
  <2>3. SessionOK' /\ TypesOK'
    BY <1>2, <2>1, SessionFrame, TypesFrame DEF CarefulOK
  <2>4. SpendsSelected'
    BY <1>1, <1>2, <2>1, <2>2 DEF SpendsSelected, SameView
  <2>5. Withdrawing'
    BY <1>2, <1>4, <2>1, <2>2, <2>4 DEF Withdrawing, SameView
  <2>6. FlowOK' /\ FlowVaultOK'
    BY <1>2, <2>2, <2>5 DEF FlowOK, FlowVaultOK, CarefulOK, TypesOK, VaultOK, EntryOK, Known
  <2>7. (\A i \in UnlockIds : UnlockOK(i))' /\ (DOMAIN unlocks = UnlockIds)'
    BY <1>1, <1>2, UnlocksFrame DEF CarefulOK
  <2>8. NetworkOK'
    BY <1>1, <1>2, StillNetwork DEF CarefulOK
  <2>9. ("record" \notin mode.imports => NotesPrivate)'
    BY <1>1, <1>2, <2>1, <2>2 DEF CarefulOK, NotesPrivate, PrivateAtRest, Shows, Known, SameView
  <2>10. MarksOK'
    BY <1>1, <1>2, <2>2 DEF CarefulOK, MarksOK, MarksTrue
  <2> QED BY <2>3, <2>6, <2>7, <2>8, <2>9, <2>10 DEF CarefulOK, MarksOK
<1> QED BY <1>3, <1>4 DEF ManualWithdrawal

LEMMA BundleSets ==
  ASSUME NEW u, IsSession(u), NEW b \in Bundles
  PROVE  /\ IsSession([u EXCEPT !.bundle = b])
         /\ [u EXCEPT !.bundle = b].account = u.account
         /\ [u EXCEPT !.bundle = b].signature = u.signature
         /\ [u EXCEPT !.bundle = b].visible = u.visible
         /\ [u EXCEPT !.bundle = b].selected = u.selected
         /\ [u EXCEPT !.bundle = b].bundle = b
BY DEF IsSession

\* A bundle is shown, and its change is encrypted to the key that the
\* handler captured, which is still the session's.
LEMMA ProofAcceptedStep ==
  ASSUME CarefulOK, ProofAccepted
  PROVE  CarefulOK'
<1> DEFINE split == flow.gross < notes[flow.record].amount
           out == Len(notes) + 1
           bundle == [note |-> flow.record, out |-> IF split THEN out ELSE Dummy,
                      root |-> flow.root, change |-> split]
           d == OutputNote(flow.record, flow.gross, flow.signature)
<1>1. /\ flow.pc = "prove"
      /\ notes' = IF split THEN Append(notes, d) ELSE notes
      /\ ui' = Status([ui EXCEPT !.bundle = bundle])
      /\ flow' = [kind |-> "guided", pc |-> "preflight", record |-> flow.record, bundle |-> bundle,
                  vault |-> flow.vault, shown |-> flow.shown]
      /\ UNCHANGED <<vault, unlocks, live, chain, feed, files, imported, mode>>
  BY DEF ProofAccepted, Quiet
<1>2. Proving /\ flow # Idle /\ ~Sent /\ HoldsVault
  BY <1>1, FlowAt DEF Sent, Idle, HoldsVault
<1>3. /\ chain.pending = {} /\ feed = {} /\ live = {}
      /\ \A i \in UnlockIds : unlocks[i] = Idle
  BY <1>2, BeforeSending
<1>4. IsSession(ui) /\ SessionOK /\ TypesOK /\ VaultOK(vault) /\ VaultOK(flow.vault)
      /\ notes \in Seq(NoteData) /\ Len(notes) \in Nat
  BY <1>2 DEF CarefulOK, SessionOK, TypesOK, FlowVaultOK
<1>5. /\ flow.record \in Known /\ flow.record \in Nat /\ flow.gross \in Int /\ flow.root \in Nat
      /\ ui.selected = flow.record /\ flow.signature = ui.signature
      /\ notes[flow.record] \in NoteData
  <2>1. /\ flow.record \in Known /\ flow.gross \in Int /\ flow.root \in Nat
        /\ ui.selected = flow.record /\ flow.signature = ui.signature
    BY <1>2 DEF Proving, SplitsOwn
  <2> QED BY <1>4, <2>1 DEF Known
<1>6. d \in NoteData /\ d.key = ui.signature /\ d.owner = notes[flow.record].owner
  <2> DEFINE r == notes[flow.record]
  <2>1. r.amount - flow.gross \in Int /\ r.owner \in Wallets
    BY <1>5 DEF NoteData
  <2>2. d = [amount |-> r.amount - flow.gross, key |-> ui.signature, owner |-> r.owner]
    BY <1>5 DEF OutputNote
  <2>3. ui.signature \in Wallets \cup {None}
    BY <1>4 DEF IsSession
  <2> HIDE DEF d
  <2>9. d = [amount |-> r.amount - flow.gross, key |-> ui.signature, owner |-> r.owner] /\ d.owner = r.owner
    BY <2>2
  <2> HIDE DEF r
  <2>4. d \in NoteData /\ d.key = ui.signature
    BY <2>1, <2>9, <2>3 DEF NoteData
  <2> QED BY <2>9, <2>4 DEF r
<1>7. /\ bundle \in Bundles /\ bundle.note = flow.record
      /\ bundle.out = (IF split THEN out ELSE 0) /\ bundle.change = split
  <2>1. split \in BOOLEAN /\ out \in Nat
    BY <1>4
  <2> HIDE DEF split, out
  <2> QED BY <1>5, <2>1 DEF Bundles, Dummy
<1> HIDE DEF d, bundle
<1>8. /\ IsSession(ui') /\ ui'.account = ui.account /\ ui'.signature = ui.signature
      /\ ui'.visible = ui.visible /\ ui'.selected = ui.selected /\ ui'.bundle = bundle
  <2> DEFINE u == [ui EXCEPT !.bundle = bundle]
  <2>1. /\ IsSession(u) /\ u.account = ui.account /\ u.signature = ui.signature
        /\ u.visible = ui.visible /\ u.selected = ui.selected /\ u.bundle = bundle
    BY <1>4, <1>7, BundleSets
  <2>2. ui' = Status(u)
    BY <1>1
  <2> HIDE DEF u
  <2> QED BY <2>1, <2>2, StatusKeeps DEF SameView
<1>9. /\ notes' \in Seq(NoteData) /\ Len(notes') \in Nat
      /\ Known \subseteq Known' /\ 0..Len(notes) \subseteq 0..Len(notes')
      /\ \A n \in Known : notes'[n] = notes[n]
      /\ split => out \in Known' /\ notes'[out] = d
      /\ \A n \in Known' : n \in Known \/ (split /\ n = out)
  <2>1. CASE split
    <3>1. notes' = Append(notes, d) /\ Len(notes') = Len(notes) + 1
      BY <1>1, <1>4, <1>6, <2>1
    <3>2. /\ notes' \in Seq(NoteData)
          /\ Known \subseteq Known' /\ Len(notes) + 1 \in Known'
          /\ \A n \in Known : notes'[n] = notes[n]
          /\ notes'[Len(notes) + 1] = d
          /\ \A n \in Known' : n \in Known \/ n = Len(notes) + 1
      BY <1>4, <1>6, <3>1, NoteAppends
    <3>3. Len(notes') \in Nat /\ 0..Len(notes) \subseteq 0..Len(notes')
      BY <1>4, <3>1
    <3>4. out \in Known' /\ notes'[out] = d /\ \A n \in Known' : n \in Known \/ n = out
      BY <3>2
    <3> HIDE DEF out
    <3> QED BY <2>1, <3>2, <3>3, <3>4
  <2>2. CASE ~split
    <3> QED BY <1>1, <1>4, <2>2 DEF Known
  <2> QED BY <2>1, <2>2
<1>10. /\ "record" \notin mode.imports /\ split => notes[flow.record].key = ui.signature
  BY <1>1, <1>5 DEF CarefulOK, NotesPrivate
<1> HIDE DEF split, out
<1>11. bundle.out \in 0..Len(notes') /\ (bundle.change => bundle.out = out /\ out \in Known')
  BY <1>4, <1>7, <1>9 DEF Known
<1>12. SessionOK'
  BY <1>4, <1>8, <1>9, <1>11 DEF SessionOK
<1>13. TypesOK'
  BY <1>1, <1>4, <1>9 DEF TypesOK, VaultOK, EntryOK
<1>14. /\ flow'.kind = "guided" /\ flow'.pc = "preflight" /\ flow'.record = flow.record
       /\ flow'.vault = flow.vault /\ flow'.shown = flow.shown
  BY <1>1
<1>15. SpendsSelected'
  BY <1>5, <1>7, <1>8, <1>9, <1>14 DEF SpendsSelected
<1>16. Withdrawing'
  BY <1>1, <1>8, <1>14, <1>15 DEF Withdrawing
<1>17. FlowOK' /\ FlowVaultOK'
  BY <1>4, <1>9, <1>14, <1>16 DEF FlowOK, FlowVaultOK, VaultOK, EntryOK
<1>18. (\A i \in UnlockIds : UnlockOK(i))' /\ (DOMAIN unlocks = UnlockIds)'
  BY <1>1, <1>3, UnlocksFrame DEF CarefulOK
<1>19. NetworkOK'
  BY <1>1, <1>3, StillNetwork DEF CarefulOK
<1>20. ("record" \notin mode.imports => NotesPrivate)'
  <2> SUFFICES ASSUME "record" \notin mode.imports PROVE NotesPrivate'
    BY <1>1
  <2>1. NotesPrivate
    BY DEF CarefulOK
  <2>2. \A n \in Known' : notes'[n].key = notes'[n].owner
    <3>1. \A n \in Known : notes'[n].key = notes'[n].owner
      BY <1>9, <2>1 DEF NotesPrivate, PrivateAtRest
    <3>2. notes[flow.record].key = notes[flow.record].owner
      BY <1>5, <2>1 DEF NotesPrivate, PrivateAtRest
    <3>3. split => notes'[out].key = notes'[out].owner
      BY <1>6, <1>9, <1>10, <3>2
    <3> QED BY <1>9, <3>1, <3>3
  <2>3. \A n \in ui.visible : n \in Known /\ notes'[n] = notes[n]
    BY <1>4, <1>9 DEF SessionOK
  <2>4. \A n \in ui'.visible : Shows(vault, n)' /\ Shows(flow.vault, n)'
    <3>1. /\ vault' = vault /\ flow'.vault = flow.vault /\ imported' = imported
          /\ ui'.visible = ui.visible /\ ui'.signature = ui.signature
      BY <1>1, <1>2, <1>8, <1>14
    <3>2. HoldsVault
      BY <1>1 DEF HoldsVault
    <3>3. \A n \in ui.visible : Shows(vault, n) /\ Shows(flow.vault, n)
      BY <2>1, <3>2 DEF NotesPrivate, PrivateAtRest
    <3> TAKE n \in ui'.visible
    <3>4. n \in ui.visible /\ notes'[n] = notes[n]
      BY <2>3, <3>1
    <3> QED BY <3>1, <3>3, <3>4 DEF Shows
  <2>5. ui'.bundle.change => notes'[ui'.bundle.out].key = ui'.signature
    BY <1>6, <1>7, <1>8, <1>9, <1>11
  <2>6. flow'.shown \subseteq ui'.visible
    BY <1>1, <1>8, <1>14, <2>1 DEF NotesPrivate, HoldsShown
  <2> QED BY <1>14, <2>2, <2>4, <2>5, <2>6 DEF NotesPrivate, PrivateAtRest
<1>21. MarksOK'
  BY <1>1, <1>2, <1>14 DEF CarefulOK, MarksOK, MarksTrue
<1> QED BY <1>12, <1>13, <1>17, <1>18, <1>19, <1>20, <1>21 DEF CarefulOK, MarksOK

LEMMA RelayStep ==
  ASSUME CarefulOK, Careful, Relay
  PROVE  CarefulOK'
<1> DEFINE tx == WithdrawTx(ui.bundle)
<1>1. flow.pc = "relay" /\ Withdrawing /\ flow.bundle = ui.bundle
  BY FlowAt DEF Relay, Withdrawing
<1>2. /\ chain' = Broadcast(tx)
      /\ flow' = [kind |-> flow.kind, pc |-> "receipt", tx |-> tx, polls |-> Polls,
                  record |-> flow.record, bundle |-> ui.bundle, vault |-> flow.vault, shown |-> flow.shown]
      /\ ui' = Status(ui)
      /\ UNCHANGED <<vault, unlocks, live, notes, feed, files, imported, mode>>
  BY <1>1 DEF Relay, Quiet, Careful
<1>3. flow # Idle /\ ~Sent /\ HoldsVault
  BY <1>1 DEF Sent, Idle, HoldsVault
<1>4. /\ chain.pending = {} /\ feed = {} /\ live = {}
      /\ \A i \in UnlockIds : unlocks[i] = Idle
  BY <1>3, BeforeSending
<1>5. IsSession(ui') /\ SameView(ui', ui)
  BY <1>2, StatusKeeps DEF CarefulOK, SessionOK
<1>6. tx \in Txs
  <2>1. ui.bundle \in Bundles
    BY <1>1 DEF Withdrawing, SpendsSelected
  <2> QED BY <2>1 DEF Txs, WithdrawTx, Bundles
<1>7. /\ flow'.pc = "receipt" /\ flow'.kind = flow.kind /\ flow'.tx = tx /\ flow'.vault = flow.vault
      /\ flow'.record = flow.record /\ flow'.shown = flow.shown
  BY <1>2
<1> HIDE DEF tx
<1>8. /\ chain' \in Pools /\ chain'.receipts = chain.receipts /\ chain'.spent = chain.spent
      /\ \A t \in chain'.pending : t = tx /\ ~HasReceipt(t)
  BY <1>2, <1>4, <1>6 DEF CarefulOK, TypesOK, Pools, Broadcast
<1>9. SessionOK' /\ TypesOK'
  BY <1>2, <1>5, <1>8, SessionFrame DEF CarefulOK, TypesOK, VaultOK, EntryOK, Known
<1>10. SpendsSelected'
  BY <1>1, <1>2, <1>5, <1>7 DEF Withdrawing, SpendsSelected, SameView, Known
<1>11. WithdrawalSent'
  <2>1. flow'.kind # "deposit"
    BY <1>1, <1>7 DEF Withdrawing, SpendsSelected
  <2> QED BY <1>2, <1>5, <1>7, <1>10, <2>1 DEF WithdrawalSent, SameView, Sent, tx
<1>12. FlowOK' /\ FlowVaultOK'
  BY <1>2, <1>3, <1>7, <1>11 DEF CarefulOK, FlowOK, FlowVaultOK, VaultOK, EntryOK, Known
<1>13. (\A i \in UnlockIds : UnlockOK(i))' /\ (DOMAIN unlocks = UnlockIds)'
  BY <1>2, <1>4, UnlocksFrame DEF CarefulOK
<1>14. NetworkOK'
  BY <1>2, <1>4, <1>7, <1>8 DEF CarefulOK, NetworkOK, PendingIsOwn, ReceiptsOK, FeedIsOwn, LiveIsOwn, Mined,
     HasReceipt, Sent
<1>15. ("record" \notin mode.imports => NotesPrivate)'
  <2>1. HoldsShown
    BY <1>1 DEF HoldsShown
  <2> QED BY <1>2, <1>3, <1>5, <1>7, <2>1 DEF CarefulOK, NotesPrivate, PrivateAtRest, Shows, Known, SameView
<1>16. MarksOK'
  BY <1>2, <1>3, <1>7, <1>8 DEF CarefulOK, MarksOK, MarksTrue
<1> QED BY <1>9, <1>12, <1>13, <1>14, <1>15, <1>16 DEF CarefulOK, MarksOK

\* The note that the pool paid out is the one that the handler marks.
LEMMA WithdrawalMinedStep ==
  ASSUME CarefulOK, Careful, WithdrawalMined
  PROVE  CarefulOK'
<1> DEFINE marked == IF flow.record = None THEN flow.vault
                     ELSE MarkSandboxNoteVaultRecordSpent(flow.vault, flow.record)
<1>1. /\ Sent /\ flow.kind \in {"guided", "manual"} /\ Mined(flow.tx, TRUE) /\ HasReceipt(flow.tx)
      /\ feed = {} /\ live = {}
      /\ vault' = (IF flow.record = None THEN vault ELSE marked)
      /\ flow' = [kind |-> flow.kind, pc |-> "output", record |-> flow.record, bundle |-> flow.bundle,
                  vault |-> marked, shown |-> flow.shown]
      /\ ui' = Status(ui)
      /\ UNCHANGED <<unlocks, live, notes, chain, feed, files, imported, mode>>
  BY Zenon DEF WithdrawalMined, Quiet, Sent, HasReceipt, LogsSeen, Careful
<1>2. WithdrawalSent /\ flow # Idle /\ HoldsVault /\ HoldsShown
  <2>1. ~DepositSent
    BY <1>1 DEF DepositSent
  <2> QED BY <1>1, <2>1, FlowTx DEF WithdrawalSent, Sent, HoldsVault, HoldsShown
<1>3. SpendsSelected /\ flow.tx = WithdrawTx(ui.bundle) /\ flow.bundle = ui.bundle
  BY <1>2 DEF WithdrawalSent
<1>4. chain.pending = {} /\ \A i \in UnlockIds : unlocks[i] = Idle
  BY <1>1, <1>2, EverythingSeen, NoUnlockWhileLocked
<1>5. IsSession(ui') /\ SameView(ui', ui)
  BY <1>1, StatusKeeps DEF CarefulOK, SessionOK
<1>6. VaultOK(vault) /\ VaultOK(flow.vault)
  BY <1>2 DEF CarefulOK, TypesOK, FlowVaultOK
<1>7. /\ VaultOK(marked) /\ DOMAIN marked = DOMAIN flow.vault
      /\ \A m \in DOMAIN flow.vault :
           /\ marked[m].route = flow.vault[m].route
           /\ marked[m].spent => m = flow.record \/ flow.vault[m].spent
  <2> DEFINE w == MarkSandboxNoteVaultRecordSpent(flow.vault, flow.record)
  <2>1. /\ VaultOK(w) /\ DOMAIN w = DOMAIN flow.vault
        /\ \A m \in DOMAIN flow.vault :
             w[m].route = flow.vault[m].route /\ (w[m].spent => m = flow.record \/ flow.vault[m].spent)
    BY <1>6, MarkedOK
  <2>2. marked = w \/ marked = flow.vault
    OBVIOUS
  <2> HIDE DEF w, marked
  <2> QED BY <1>6, <2>1, <2>2
<1>8. ~mode.diagnostics => flow.record \in chain.spent
  <2> SUFFICES ASSUME ~mode.diagnostics PROVE flow.record \in chain.spent
    OBVIOUS
  <2>1. flow.record = ui.bundle.note /\ flow.record \in Known
    BY <1>1, <1>3 DEF SpendsSelected
  <2>2. flow.tx.spends = flow.record
    BY <1>3, <2>1 DEF WithdrawTx
  <2>3. flow.tx.spends # None
    BY <2>1, <2>2, PanelConstants DEF Known
  <2> DEFINE rc == [tx |-> flow.tx, ok |-> TRUE]
  <2>4. rc \in chain.receipts /\ rc.ok /\ rc.tx = flow.tx
    BY <1>1 DEF Mined
  <2>5. \A r \in chain.receipts : r.ok /\ r.tx.spends # None => r.tx.spends \in chain.spent
    BY DEF CarefulOK, NetworkOK, ReceiptsOK
  <2> HIDE DEF rc
  <2> QED BY <2>2, <2>3, <2>4, <2>5
<1> HIDE DEF marked
<1>9. /\ flow'.kind = flow.kind /\ flow'.pc = "output" /\ flow'.record = flow.record
      /\ flow'.vault = marked /\ flow'.shown = flow.shown /\ flow'.bundle = ui.bundle
  BY <1>1, <1>3
<1>10. vault' = vault \/ vault' = marked
  BY <1>1
<1>11. SessionOK'
  BY <1>1, <1>5, SessionFrame DEF CarefulOK
<1>12. TypesOK'
  BY <1>1, <1>6, <1>7, <1>10 DEF CarefulOK, TypesOK, VaultOK, EntryOK, Known
<1>13. SpendsSelected'
  BY <1>1, <1>3, <1>5, <1>9 DEF SpendsSelected, SameView, Known
<1>14. Withdrawing'
  BY <1>1, <1>3, <1>5, <1>9, <1>13 DEF Withdrawing, SameView
<1>15. FlowOK' /\ FlowVaultOK'
  BY <1>1, <1>7, <1>9, <1>14 DEF FlowOK, FlowVaultOK, VaultOK, EntryOK, Known
<1>16. (\A i \in UnlockIds : UnlockOK(i))' /\ (DOMAIN unlocks = UnlockIds)'
  BY <1>1, <1>4, UnlocksFrame DEF CarefulOK
<1>17. NetworkOK'
  BY <1>1, <1>4, StillNetwork DEF CarefulOK
<1>18. ("record" \notin mode.imports => NotesPrivate)'
  <2> SUFFICES ASSUME "record" \notin mode.imports PROVE NotesPrivate'
    BY <1>1
  <2>1. NotesPrivate
    BY DEF CarefulOK
  <2>2. \A n \in ui.visible : Shows(marked, n)
    BY <1>2, <1>7, <2>1, MarkedShows DEF NotesPrivate
  <2>3. \A n \in ui.visible : Shows(vault', n)
    BY <1>10, <2>1, <2>2 DEF NotesPrivate, PrivateAtRest
  <2>4. \A n \in ui'.visible : Shows(vault, n)' /\ Shows(flow.vault, n)'
    BY <1>1, <1>5, <1>9, <2>2, <2>3 DEF Shows, SameView
  <2>5. PrivateAtRest'
    BY <1>1, <1>5, <2>1, <2>4 DEF NotesPrivate, PrivateAtRest, SameView, Known
  <2>6. flow'.shown \subseteq ui'.visible
    BY <1>2, <1>5, <1>9, <2>1 DEF NotesPrivate, SameView
  <2> QED BY <1>9, <2>4, <2>5, <2>6 DEF NotesPrivate
<1>19. MarksOK'
  BY <1>1, <1>2, <1>7, <1>8, <1>9, <1>10 DEF CarefulOK, MarksOK, MarksTrue
<1> QED BY <1>11, <1>12, <1>15, <1>16, <1>17, <1>18, <1>19 DEF CarefulOK, MarksOK

\* A private change is kept with the notes that the handler captured.
LEMMA ChangeKept ==
  ASSUME CarefulOK, Withdrawing, flow.bundle.change, flow' = Idle,
         vault' = UpsertSandboxNoteVaultRecord(flow.vault, flow.bundle.out, "local-note", NoLeaf),
         ui' = Status(SelectNoteRecordForWithdrawal(Show(ui, flow.bundle.out), flow.bundle.out)),
         UNCHANGED <<unlocks, live, notes, chain, feed, files, imported, mode>>
  PROVE  CarefulOK'
<1> DEFINE out == ui.bundle.out
           u1 == Show(ui, out)
           u2 == SelectNoteRecordForWithdrawal(u1, out)
<1>1. flow.bundle = ui.bundle /\ ui.bundle \in Bundles /\ flow # Idle /\ ~Sent /\ HoldsVault
  BY DEF Withdrawing, SpendsSelected, Idle, Sent, HoldsVault
<1>2. /\ chain.pending = {} /\ feed = {} /\ live = {}
      /\ \A i \in UnlockIds : unlocks[i] = Idle
  BY <1>1, BeforeSending
<1>3. IsSession(ui) /\ SessionOK /\ TypesOK /\ VaultOK(flow.vault)
  BY <1>1 DEF CarefulOK, SessionOK, FlowVaultOK
<1>4. out \in Known /\ out \in Nat
  <2>1. ui.bundle # None /\ ui.bundle.change
    BY <1>1, PanelConstants
  <2>2. out \in Nat
    BY <1>1 DEF Bundles
  <2> QED BY <1>3, <2>1, <2>2 DEF SessionOK
<1>5. vault' = UpsertSandboxNoteVaultRecord(flow.vault, out, "local-note", NoLeaf) /\ ui' = Status(u2)
  BY <1>1
<1> HIDE DEF out
<1>6. /\ IsSession(ui') /\ ui'.account = ui.account /\ ui'.signature = ui.signature
      /\ ui'.bundle = ui.bundle /\ ui'.visible = ui.visible \cup {out}
  <2>1. /\ IsSession(u1) /\ u1.account = ui.account /\ u1.signature = ui.signature
        /\ u1.bundle = ui.bundle /\ u1.visible = ui.visible \cup {out}
    BY <1>3, <1>4, NoteShows
  <2> HIDE DEF u1
  <2>2. /\ IsSession(u2) /\ u2.account = u1.account /\ u2.signature = u1.signature
        /\ u2.bundle = u1.bundle /\ u2.visible = u1.visible
    BY <2>1, NoteSelects
  <2> HIDE DEF u2
  <2> QED BY <1>5, <2>1, <2>2, StatusKeeps DEF SameView
<1> HIDE DEF u1, u2
<1>7. /\ VaultOK(vault')
      /\ DOMAIN vault' = DOMAIN flow.vault \cup {out}
      /\ \A m \in DOMAIN flow.vault : m # out => vault'[m] = flow.vault[m]
      /\ vault'[out].spent => out \in DOMAIN flow.vault /\ flow.vault[out].spent
  <2>1. "local-note" \in {"local-note", "recovery-kit"}
    OBVIOUS
  <2>2. Upserted(UpsertSandboxNoteVaultRecord(flow.vault, out, "local-note", NoLeaf),
                 flow.vault, out, "local-note")
    BY <1>3, <1>4, <2>1, UpsertOK, Zenon
  <2>3. Upserted(vault', flow.vault, out, "local-note")
    BY <1>5, <2>2, Zenon
  <2> QED BY <2>3 DEF Upserted
<1>8. SessionOK'
  BY <1>3, <1>4, <1>6 DEF SessionOK, Known
<1>9. TypesOK'
  BY <1>3, <1>7 DEF TypesOK, VaultOK, EntryOK, Known
<1>10. (\A i \in UnlockIds : UnlockOK(i))' /\ (DOMAIN unlocks = UnlockIds)'
  BY <1>2, UnlocksFrame DEF CarefulOK
<1>11. "record" \notin mode.imports => PrivateAtRest'
  <2> SUFFICES ASSUME "record" \notin mode.imports PROVE PrivateAtRest'
    OBVIOUS
  <2>1. NotesPrivate
    BY DEF CarefulOK
  <2>2. notes[out].key = ui.signature
    BY <1>1, <2>1, PanelConstants DEF NotesPrivate, PrivateAtRest, out
  <2>3. \A n \in ui'.visible : Shows(vault, n)'
    BY <1>1, <1>6, <1>7, <2>1, <2>2 DEF NotesPrivate, Shows
  <2> QED BY <1>6, <2>1, <2>3 DEF NotesPrivate, PrivateAtRest, Known
<1>12. ~mode.diagnostics => MarksTrue(vault)'
  BY <1>1, <1>7 DEF CarefulOK, MarksTrue
<1> QED BY <1>2, <1>8, <1>9, <1>10, <1>11, <1>12, IdleInv

\* After a full exit the next unspent note of those shown is selected.
LEMMA NextSelected ==
  ASSUME CarefulOK, Withdrawing, flow' = Idle, NEW n \in LargestAvailable(flow.vault, flow.shown),
         ui' = Status(ClearWithdrawalProofBundle(SelectNoteRecordForWithdrawal(Show(ui, n), n))),
         UNCHANGED <<vault, unlocks, live, notes, chain, feed, files, imported, mode>>
  PROVE  CarefulOK'
<1> DEFINE u1 == Show(ui, n)
           u2 == SelectNoteRecordForWithdrawal(u1, n)
           u3 == ClearWithdrawalProofBundle(u2)
<1>1. flow # Idle /\ ~Sent /\ HoldsVault /\ HoldsShown
  BY DEF Withdrawing, Idle, Sent, HoldsVault, HoldsShown
<1>2. /\ chain.pending = {} /\ feed = {} /\ live = {}
      /\ \A i \in UnlockIds : unlocks[i] = Idle
  BY <1>1, BeforeSending
<1>3. IsSession(ui) /\ SessionOK /\ TypesOK /\ VaultOK(flow.vault) /\ Len(notes) \in Nat
  BY <1>1 DEF CarefulOK, SessionOK, FlowVaultOK, TypesOK
<1>4. n \in DOMAIN flow.vault /\ n \in flow.shown /\ n \in Known /\ n \in Nat
  <2>1. n \in DOMAIN flow.vault \cap flow.shown
    BY DEF LargestAvailable, Available
  <2>2. n \in Known
    BY <1>3, <2>1 DEF VaultOK
  <2> QED BY <1>3, <2>1, <2>2 DEF Known
<1>5. /\ IsSession(ui') /\ ui'.account = ui.account /\ ui'.signature = ui.signature
      /\ ui'.bundle = None /\ ui'.visible = ui.visible \cup {n}
  <2>1. /\ IsSession(u1) /\ u1.account = ui.account /\ u1.signature = ui.signature
        /\ u1.visible = ui.visible \cup {n}
    BY <1>3, <1>4, NoteShows
  <2>0. ui' = Status(u3)
    OBVIOUS
  <2> HIDE DEF u1
  <2>2. /\ IsSession(u2) /\ u2.account = u1.account /\ u2.signature = u1.signature
        /\ u2.visible = u1.visible
    BY <2>1, NoteSelects
  <2> HIDE DEF u2
  <2>3. /\ IsSession(u3) /\ u3.account = u2.account /\ u3.signature = u2.signature
        /\ u3.visible = u2.visible /\ u3.bundle = None
    BY <2>2, BundleClears
  <2> HIDE DEF u3
  <2> QED BY <2>0, <2>1, <2>2, <2>3, StatusKeeps DEF SameView
<1> HIDE DEF u1, u2, u3
<1>6. SessionOK' /\ TypesOK'
  BY <1>3, <1>4, <1>5, TypesFrame DEF SessionOK, Known
<1>7. (\A i \in UnlockIds : UnlockOK(i))' /\ (DOMAIN unlocks = UnlockIds)'
  BY <1>2, UnlocksFrame DEF CarefulOK
<1>8. "record" \notin mode.imports => PrivateAtRest'
  <2> SUFFICES ASSUME "record" \notin mode.imports PROVE PrivateAtRest'
    OBVIOUS
  <2>1. NotesPrivate
    BY DEF CarefulOK
  <2>2. ui'.visible = ui.visible
    BY <1>1, <1>4, <1>5, <2>1 DEF NotesPrivate
  <2> QED BY <1>5, <2>1, <2>2 DEF NotesPrivate, PrivateAtRest, Shows, Known
<1>9. ~mode.diagnostics => MarksTrue(vault)'
  BY DEF CarefulOK, MarksTrue
<1> QED BY <1>2, <1>6, <1>7, <1>8, <1>9, IdleInv

LEMMA WithdrawalOutputStep ==
  ASSUME CarefulOK, WithdrawalOutput
  PROVE  CarefulOK'
<1>1. flow.pc = "output" /\ flow' = Idle
      /\ UNCHANGED <<unlocks, live, notes, chain, feed, files, imported, mode>>
  BY DEF WithdrawalOutput, Quiet
<1>2. Withdrawing /\ flow # Idle /\ ~Sent
  BY <1>1, FlowAt DEF Sent, Idle
<1>3. CASE /\ flow.bundle.change
           /\ vault' = UpsertSandboxNoteVaultRecord(flow.vault, flow.bundle.out, "local-note", NoLeaf)
           /\ ui' = Status(SelectNoteRecordForWithdrawal(Show(ui, flow.bundle.out), flow.bundle.out))
  BY <1>1, <1>2, <1>3, ChangeKept
<1>4. CASE UNCHANGED vault /\ ui' = Status(ui)
  BY <1>1, <1>2, <1>4, BeforeSending, Released
<1>5. CASE /\ UNCHANGED vault
           /\ \E u \in SelectNextUnspent(ui, flow.vault, flow.shown) : ui' = Status(u)
  <2>1. PICK u \in SelectNextUnspent(ui, flow.vault, flow.shown) : ui' = Status(u)
    BY <1>5
  <2>2. \/ u = ui
        \/ \E n \in LargestAvailable(flow.vault, flow.shown) :
             u = ClearWithdrawalProofBundle(SelectNoteRecordForWithdrawal(Show(ui, n), n))
    BY <2>1 DEF SelectNextUnspent
  <2>3. CASE u = ui
    BY <1>4, <1>5, <2>1, <2>3
  <2>4. ASSUME NEW n \in LargestAvailable(flow.vault, flow.shown),
               u = ClearWithdrawalProofBundle(SelectNoteRecordForWithdrawal(Show(ui, n), n))
        PROVE  CarefulOK'
    BY <1>1, <1>2, <1>5, <2>1, <2>4, NextSelected
  <2> QED BY <2>2, <2>3, <2>4
<1> QED BY <1>3, <1>4, <1>5 DEF WithdrawalOutput

-----------------------------------------------------------------------------
(* Selecting, saving and importing notes.                                  *)

\* A click that leaves the notes shown and the vault alone.
LEMMA QuietClick ==
  ASSUME CarefulOK, Careful, Click, IsSession(ui'),
         ui'.account = ui.account, ui'.signature = ui.signature, ui'.visible = ui.visible,
         ui'.bundle \in {ui.bundle, None},
         \A f \in files' : f \in files \/ (f.note \in Known /\ f.kind \in {"kit", "record"}),
         UNCHANGED <<vault, flow, unlocks, live, notes, chain, feed, imported>>
  PROVE  CarefulOK'
<1>1. /\ flow = Idle /\ feed = {} /\ live = {} /\ chain.pending = {}
      /\ \A i \in UnlockIds : unlocks[i] = Idle
      /\ mode' = mode
  BY ClickIsQuiet
<1>2. SessionOK'
  BY DEF CarefulOK, SessionOK, Known
<1>3. TypesOK'
  BY DEF CarefulOK, TypesOK, VaultOK, EntryOK, Known
<1>4. (\A i \in UnlockIds : UnlockOK(i))' /\ (DOMAIN unlocks = UnlockIds)'
  BY <1>1, UnlocksFrame DEF CarefulOK
<1>5. "record" \notin mode.imports => PrivateAtRest'
  BY DEF CarefulOK, NotesPrivate, PrivateAtRest, Shows, Known
<1>6. ~mode.diagnostics => MarksTrue(vault)'
  BY DEF CarefulOK, MarksTrue
<1> QED BY <1>1, <1>2, <1>3, <1>4, <1>5, <1>6, IdleInv

LEMMA SelectStep ==
  ASSUME CarefulOK, Careful, NEW n, SelectPill(n)
  PROVE  CarefulOK'
<1> DEFINE u1 == SelectNoteRecordForWithdrawal(ui, n)
           u2 == ClearWithdrawalProofBundle(u1)
<1>1. /\ Click /\ ui' = Status(u2)
      /\ UNCHANGED <<vault, flow, unlocks, live, notes, chain, feed, files, imported>>
  BY DEF SelectPill
<1>2. /\ IsSession(u1) /\ u1.account = ui.account /\ u1.signature = ui.signature
      /\ u1.visible = ui.visible
  BY NoteSelects DEF CarefulOK, SessionOK
<1> HIDE DEF u1
<1>3. /\ IsSession(u2) /\ u2.account = u1.account /\ u2.signature = u1.signature
      /\ u2.visible = u1.visible /\ u2.bundle = None
  BY <1>2, BundleClears
<1> HIDE DEF u2
<1>4. IsSession(ui') /\ SameView(ui', u2)
  BY <1>1, <1>3, StatusKeeps
<1> QED BY <1>1, <1>2, <1>3, <1>4, QuietClick DEF SameView

LEMMA EditStep ==
  ASSUME CarefulOK, Careful, EditWithdrawal
  PROVE  CarefulOK'
<1>1. /\ Click /\ ui' = ClearWithdrawalProofBundle(ui)
      /\ UNCHANGED <<vault, flow, unlocks, live, notes, chain, feed, files, imported>>
  BY DEF EditWithdrawal
<1>2. /\ IsSession(ui') /\ ui'.account = ui.account /\ ui'.signature = ui.signature
      /\ ui'.visible = ui.visible /\ ui'.bundle = None
  BY <1>1, BundleClears DEF CarefulOK, SessionOK
<1> QED BY <1>1, <1>2, QuietClick

\* A file that is saved is of a note in the vault.
LEMMA SaveSteps ==
  ASSUME CarefulOK, Careful, (\E n : DownloadRecoveryKit(n)) \/ CopyNoteRecord
  PROVE  CarefulOK'
<1>1. IsSession(ui) /\ DOMAIN vault \subseteq Known
  BY DEF CarefulOK, SessionOK, TypesOK, VaultOK
<1>2. \E n \in DOMAIN vault, kind \in {"kit", "record"} : \E leaf :
        /\ Click /\ files' = files \cup {[kind |-> kind, note |-> n, leaf |-> leaf]}
        /\ UNCHANGED <<ui, vault, flow, unlocks, live, notes, chain, feed, imported>>
  <2>1. ASSUME NEW n, DownloadRecoveryKit(n)
        PROVE  /\ n \in DOMAIN vault
               /\ Click /\ files' = files \cup {[kind |-> "kit", note |-> n, leaf |-> LeafIndexHint(vault[n].leaf)]}
               /\ UNCHANGED <<ui, vault, flow, unlocks, live, notes, chain, feed, imported>>
    BY <2>1 DEF DownloadRecoveryKit, Available
  <2>2. ASSUME CopyNoteRecord
        PROVE  /\ ui.selected \in DOMAIN vault
               /\ Click /\ files' = files \cup {[kind |-> "record", note |-> ui.selected, leaf |-> vault[ui.selected].leaf]}
               /\ UNCHANGED <<ui, vault, flow, unlocks, live, notes, chain, feed, imported>>
    BY <2>2 DEF CopyNoteRecord
  <2> QED BY <2>1, <2>2
<1>3. \A f \in files' : f \in files \/ (f.note \in Known /\ f.kind \in {"kit", "record"})
  BY <1>1, <1>2
<1> QED BY <1>1, <1>2, <1>3, QuietClick

\* What is imported is shown as imported; a kit is never split.
LEMMA ImportStep ==
  ASSUME CarefulOK, Careful, NEW f \in files, ImportNoteRecord(f)
  PROVE  CarefulOK'
<1> DEFINE n == f.note
           route == RouteOf(f.kind)
           u1 == ClearWithdrawalProofBundle(ui)
           u2 == Show(u1, n)
           u3 == SelectNoteRecordForWithdrawal(u2, n)
<1>1. /\ flow = Idle /\ feed = {} /\ live = {} /\ chain.pending = {}
      /\ \A i \in UnlockIds : unlocks[i] = Idle
      /\ mode' = mode
  BY ClickIsQuiet DEF ImportNoteRecord
<1>2. /\ f.kind \in mode.imports
      /\ vault' = UpsertSandboxNoteVaultRecord(vault, n, route, f.leaf)
      /\ ui' = Status(u3)
      /\ imported' = imported \cup {n}
      /\ UNCHANGED <<flow, unlocks, live, notes, chain, feed, files>>
  BY DEF ImportNoteRecord
<1>3. IsSession(ui) /\ SessionOK /\ TypesOK /\ VaultOK(vault)
  BY DEF CarefulOK, SessionOK, TypesOK
<1>4. /\ n \in Known /\ n \in Nat /\ f.kind \in {"kit", "record"}
      /\ route \in {"local-note", "recovery-kit"}
      /\ f.kind = "kit" => route = "recovery-kit"
  <2>1. n \in Known /\ f.kind \in {"kit", "record"} /\ Len(notes) \in Nat
    BY <1>3 DEF TypesOK
  <2> QED BY <2>1 DEF Known, RouteOf
<1> HIDE DEF n, route
<1>5. /\ IsSession(ui') /\ ui'.account = ui.account /\ ui'.signature = ui.signature
      /\ ui'.bundle = None /\ ui'.visible = ui.visible \cup {n}
  <2>1. /\ IsSession(u1) /\ u1.account = ui.account /\ u1.signature = ui.signature
        /\ u1.visible = ui.visible /\ u1.bundle = None
    BY <1>3, BundleClears
  <2> HIDE DEF u1
  <2>2. /\ IsSession(u2) /\ u2.account = u1.account /\ u2.signature = u1.signature
        /\ u2.visible = u1.visible \cup {n} /\ u2.bundle = u1.bundle
    BY <1>4, <2>1, NoteShows
  <2> HIDE DEF u2
  <2>3. /\ IsSession(u3) /\ u3.account = u2.account /\ u3.signature = u2.signature
        /\ u3.visible = u2.visible /\ u3.bundle = u2.bundle
    BY <2>2, NoteSelects
  <2> HIDE DEF u3
  <2> QED BY <1>2, <2>1, <2>2, <2>3, StatusKeeps DEF SameView
<1> HIDE DEF u1, u2, u3
<1>6. /\ VaultOK(vault')
      /\ DOMAIN vault' = DOMAIN vault \cup {n}
      /\ \A m \in DOMAIN vault : m # n => vault'[m] = vault[m]
      /\ vault'[n].route = route
      /\ vault'[n].spent => n \in DOMAIN vault /\ vault[n].spent
  <2>1. Upserted(UpsertSandboxNoteVaultRecord(vault, n, route, f.leaf), vault, n, route)
    BY <1>3, <1>4, UpsertOK, Zenon
  <2>2. Upserted(vault', vault, n, route)
    BY <1>2, <2>1, Zenon
  <2> QED BY <2>2 DEF Upserted
<1>7. SessionOK'
  BY <1>2, <1>3, <1>4, <1>5 DEF SessionOK, Known
<1>8. TypesOK'
  BY <1>2, <1>3, <1>6 DEF TypesOK, VaultOK, EntryOK, Known
<1>9. (\A i \in UnlockIds : UnlockOK(i))' /\ (DOMAIN unlocks = UnlockIds)'
  BY <1>1, <1>2, UnlocksFrame DEF CarefulOK
<1>10. "record" \notin mode.imports => PrivateAtRest'
  <2> SUFFICES ASSUME "record" \notin mode.imports PROVE PrivateAtRest'
    OBVIOUS
  <2>1. NotesPrivate /\ route = "recovery-kit"
    BY <1>2, <1>4 DEF CarefulOK
  <2>2. \A m \in ui'.visible : Shows(vault, m)'
    BY <1>2, <1>5, <1>6, <2>1 DEF NotesPrivate, PrivateAtRest, Shows
  <2> QED BY <1>2, <1>5, <2>1, <2>2 DEF NotesPrivate, PrivateAtRest, Known
<1>11. ~mode.diagnostics => MarksTrue(vault)'
  BY <1>2, <1>6 DEF CarefulOK, MarksTrue
<1> QED BY <1>1, <1>2, <1>7, <1>8, <1>9, <1>10, <1>11, IdleInv

-----------------------------------------------------------------------------
(* The invariant.                                                          *)

LEMMA CarefulInit ==
  ASSUME Init
  PROVE  CarefulOK
<1>1. /\ ui = FreshSession /\ vault = << >> /\ flow = Idle
      /\ unlocks = [i \in UnlockIds |-> Idle]
      /\ live = {} /\ feed = {} /\ files = {} /\ imported = {}
      /\ chain = [leaves |-> <<1>>, spent |-> {}, pending |-> {}, receipts |-> {}]
  BY DEF Init
<1>2. PICK w \in Wallets, a \in Amounts : notes = <<[amount |-> a, key |-> w, owner |-> w]>>
  BY DEF Init
<1>3. /\ notes \in Seq(NoteData) /\ \A n \in Known : notes[n].key = notes[n].owner
  <2>1. a \in Int
    BY PanelConstants
  <2>2. [amount |-> a, key |-> w, owner |-> w] \in NoteData
    BY <2>1 DEF NoteData
  <2> QED BY <1>2, <2>2 DEF Known
<1>4. /\ IsSession(ui) /\ ui.account = None /\ ui.signature = None /\ ui.visible = {}
      /\ ui.bundle = None
  BY <1>1 DEF FreshSession, IsSession
<1>5. SessionOK
  BY <1>4 DEF SessionOK
<1>6. TypesOK
  BY <1>1, <1>3 DEF TypesOK, Pools, VaultOK
<1>7. FlowOK /\ FlowVaultOK /\ ~HoldsVault /\ ~HoldsShown /\ flow.pc \notin {"path", "prove"}
  BY <1>1 DEF FlowOK, FlowVaultOK, HoldsVault, HoldsShown, Idle
<1>8. (\A i \in UnlockIds : UnlockOK(i)) /\ DOMAIN unlocks = UnlockIds
  BY <1>1 DEF UnlockOK
<1>9. NetworkOK
  BY <1>1 DEF NetworkOK, PendingIsOwn, ReceiptsOK, FeedIsOwn, LiveIsOwn
<1>10. NotesPrivate
  BY <1>3, <1>4, <1>7 DEF NotesPrivate, PrivateAtRest
<1>11. MarksTrue(vault)
  BY <1>1 DEF MarksTrue
<1> QED BY <1>5, <1>6, <1>7, <1>8, <1>9, <1>10, <1>11 DEF CarefulOK

LEMMA ModeStays ==
  ASSUME [Next]_vars
  PROVE  mode' = mode
<1>1. CASE FlowStep
  BY <1>1 DEF FlowStep, WalletAnswersConnect, CheckFails, DepositMaterial, DepositConfirmed, ReceiptPoll,
     TransactionReverted, DepositMined, WithdrawalPath, ProofRefused, ProofAccepted, Preflight, Relay,
     WithdrawalMined, WithdrawalOutput, Quiet
<1>2. CASE RequestFails \/ (\E i \in UnlockIds : UnlockStep(i)) \/ LogStep \/ MineStep
  BY <1>2 DEF RequestFails, UnlockStep, UnlockGetsAccount, UnlockGetsSignature, UnlockScans, UnlockIngests,
     LogStep, HandleSpentLog, HandleNoteLog, LiveNoteRecovered, MineStep, Mine, Quiet
<1>3. CASE UserStep
  BY <1>3 DEF UserStep, ConnectWallet, DisconnectWallet, Reload, ManualWithdrawal, CopyNoteRecord,
     EditWithdrawal, UnlockPrivateBalance, SendDeposit, GuidedWithdrawal, SelectPill, DownloadRecoveryKit,
     ImportNoteRecord, Click
<1>4. CASE UNCHANGED vars
  BY <1>4 DEF vars
<1> QED BY <1>1, <1>2, <1>3, <1>4 DEF Next

LEMMA CarefulStutters ==
  ASSUME CarefulOK, UNCHANGED vars
  PROVE  CarefulOK'
<1>1. /\ UNCHANGED <<ui, vault, flow, unlocks, live, notes, chain, feed, files, imported, mode>>
      /\ IsSession(ui') /\ SameView(ui', ui)
  BY DEF vars, CarefulOK, SessionOK, SameView
<1>2. SessionOK' /\ TypesOK' /\ FlowOK' /\ FlowVaultOK'
  BY <1>1, SessionFrame, TypesFrame, FlowFrame, FlowVaultFrame DEF CarefulOK
<1>3. (\A i \in UnlockIds : UnlockOK(i))' /\ (DOMAIN unlocks = UnlockIds)'
  <2>1. \A u : UnlockStage(u) <=> UnlockStage(u)'
    BY <1>1 DEF UnlockStage, OutIsOwn, Known
  <2> QED BY <1>1, <2>1 DEF CarefulOK, UnlockOK
<1>4. NetworkOK'
  BY <1>1 DEF CarefulOK, NetworkOK, PendingIsOwn, ReceiptsOK, FeedIsOwn, LiveIsOwn, LogOfFlow, Mined,
     HasReceipt, Sent, Known
<1>5. ("record" \notin mode.imports => NotesPrivate)'
  BY <1>1, PrivateFrame DEF CarefulOK
<1>6. MarksOK'
  BY <1>1 DEF CarefulOK, MarksOK, MarksTrue, HoldsVault
<1> QED BY <1>2, <1>3, <1>4, <1>5, <1>6 DEF CarefulOK, MarksOK

LEMMA CarefulStep ==
  ASSUME CarefulOK, Careful, [Next]_vars
  PROVE  CarefulOK'
<1>1. CASE FlowStep \/ RequestFails
  <2>1. CASE WalletAnswersConnect
    BY <2>1, ConnectSteps
  <2>2. CASE RequestFails \/ CheckFails \/ TransactionReverted
    BY <2>2, FailureSteps
  <2>3. CASE DepositMaterial
    BY <2>3, DepositMaterialStep
  <2>4. CASE DepositConfirmed
    BY <2>4, DepositConfirmedStep
  <2>5. CASE ReceiptPoll
    BY <2>5, ReceiptPollStep
  <2>6. CASE DepositMined
    BY <2>6, DepositMinedStep
  <2>7. CASE WithdrawalPath \/ Preflight
    BY <2>7, WithdrawalChecks
  <2>8. CASE ProofRefused
    BY <2>8, WithdrawalChecks, FailureSteps
  <2>9. CASE ProofAccepted
    BY <2>9, ProofAcceptedStep
  <2>10. CASE Relay
    BY <2>10, RelayStep
  <2>11. CASE WithdrawalMined
    BY <2>11, WithdrawalMinedStep
  <2>12. CASE WithdrawalOutput
    BY <2>12, WithdrawalOutputStep
  <2> QED BY <1>1, <2>1, <2>2, <2>3, <2>4, <2>5, <2>6, <2>7, <2>8, <2>9, <2>10, <2>11, <2>12 DEF FlowStep
<1>2. CASE \E i \in UnlockIds : UnlockStep(i)
  BY <1>2, UnlockAccountStep, UnlockSignatureStep, UnlockScanStep, UnlockIngestStep DEF UnlockStep
<1>3. CASE LogStep
  BY <1>3, SpentLogStep, NoteLogStep, LiveStep DEF LogStep
<1>4. CASE MineStep
  BY <1>4, MineStepOK DEF MineStep
<1>5. CASE UserStep
  <2>1. CASE ConnectWallet \/ DisconnectWallet
    BY <2>1, ConnectSteps
  <2>2. CASE Reload
    BY <2>2, ReloadStep
  <2>3. CASE ManualWithdrawal
    BY <2>3, ManualStarts
  <2>4. CASE CopyNoteRecord \/ \E n \in Ids : DownloadRecoveryKit(n)
    BY <2>4, SaveSteps
  <2>5. CASE EditWithdrawal
    BY <2>5, EditStep
  <2>6. CASE \E i \in UnlockIds : UnlockPrivateBalance(i)
    BY <2>6, UnlockStarts
  <2>7. CASE \E a \in Amounts : SendDeposit(a) \/ GuidedWithdrawal(a)
    BY <2>7, DepositStarts, GuidedStarts
  <2>8. CASE \E n \in Ids : SelectPill(n)
    BY <2>8, SelectStep
  <2>9. CASE \E f \in files : ImportNoteRecord(f)
    BY <2>9, ImportStep
  <2> QED BY <1>5, <2>1, <2>2, <2>3, <2>4, <2>5, <2>6, <2>7, <2>8, <2>9 DEF UserStep
<1>6. CASE UNCHANGED vars
  BY <1>6, CarefulStutters
<1> QED BY <1>1, <1>2, <1>3, <1>4, <1>5, <1>6 DEF Next

\* A careful user's session stays consistent with what its handlers captured,
\* over any number of clicks, reloads, failures and live logs.
THEOREM PanelStaysConsistent == Spec => []PanelInv
<1>1. Init => PanelInv
  BY CarefulInit DEF Init, PanelInv
<1>2. PanelInv /\ [Next]_vars => PanelInv'
  <2> SUFFICES ASSUME PanelInv, [Next]_vars PROVE PanelInv'
    OBVIOUS
  <2>1. mode' = mode
    BY ModeStays
  <2>2. Careful' <=> Careful
    BY <2>1 DEF Careful
  <2>3. Careful => CarefulOK'
    BY CarefulStep DEF PanelInv
  <2> QED BY <2>1, <2>2, <2>3 DEF PanelInv
<1> QED BY <1>1, <1>2, PTL DEF Spec

-----------------------------------------------------------------------------
(* The properties.                                                         *)

\* Every note that a careful user puts into the pool is encrypted to the
\* wallet whose money it holds (sendDeposit, encryptOutputNoteForWithdrawal).
THEOREM NotesReachTheirWallet == Spec => []NotesGoToTheirWallet
<1>1. PanelInv => NotesGoToTheirWallet
  BY DEF PanelInv, CarefulOK, NotesPrivate, PrivateAtRest, NotesGoToTheirWallet, Known
<1> QED BY <1>1, PanelStaysConsistent, PTL

\* What a session shows is its own or was imported by hand, whatever the vault
\* holds of other wallets (unlockPrivateBalance, handleLiveLog, sendDeposit).
THEOREM SessionsStayIsolated == Spec => []SessionIsolated
<1>1. PanelInv => SessionIsolated
  BY DEF PanelInv, CarefulOK, NotesPrivate, PrivateAtRest, SessionIsolated, Shows
<1> QED BY <1>1, PanelStaysConsistent, PTL

\* A note that the vault calls spent is spent in the pool (sendWithdrawal,
\* handleLiveLog, ingestRecoveredNoteEntries).
THEOREM MarksStayTrue == Spec => []MarksAreTrue
<1>1. PanelInv => MarksAreTrue
  BY DEF PanelInv, CarefulOK, MarksTrue, MarksAreTrue
<1> QED BY <1>1, PanelStaysConsistent, PTL
=============================================================================
