---------------------------- MODULE SpendEvidence ---------------------------
(***************************************************************************)
(* Around a v1.2 withdrawal of SpendBinding: what a wallet checks between  *)
(* the prover's answer and the calldata, and what the indexer confirms     *)
(* about the event afterwards.                                             *)
(*                                                                         *)
(* The readiness evidence that the indexer asks for is taken to be the     *)
(* approved one of this deployment.                                        *)
(***************************************************************************)
EXTENDS SpendBinding

-----------------------------------------------------------------------------
(* Faulty variants of the definitions below, for mutation checks. *)
IndexerOutputNoteHash_LegacyShape(nullifier, outputCommitment, note) ==
    <<"nullark.encrypted-output-note.v2", 2, Here.chainId, Here.pool, "withdraw_context_v1_1",
      WithdrawNoteBounds, nullifier, outputCommitment, Keccak256(note)>>

-----------------------------------------------------------------------------
(* The wallets: the public signals against the intent of the witness ...   *)
SdkOutputIntentHolds(inputs, p) == \A f \in DOMAIN inputs : inputs[f] = SpendInputs(p)[f]
WebOutputIntentHolds(inputs, p) == \A f \in DOMAIN inputs : inputs[f] = SpendInputs(p)[f]

(* ... the public inputs against the plan (the SDK requires the root to be *)
(* still the current one, the panel hands over the proof's own root) ...   *)
PlanBound(inputs, p) ==
    /\ inputs.nullifier = PlanNullifier(p)
    /\ inputs.outputCommitment = p.out /\ p.out # NoCommitment
    /\ inputs.destination = p.destination
    /\ inputs.grossAmount = p.gross
    /\ inputs.chainId = Here.chainId
    /\ inputs.verifyingContract = Here.pool

SdkOutputBindingHolds(inputs, p) == inputs.root = currentRoot /\ PlanBound(inputs, p)
WebOutputBindingHolds(inputs, p) == PlanBound(inputs, p)

(* ... and the arguments of the calldata; the SDK decodes it again for the *)
(* request to the relayer.                                                 *)
ArgumentsEncodable(p) ==
    /\ p.note # EmptyNote
    /\ p.gross > 0
    /\ {p.policy.minNetAmount, p.policy.maxFeeAmount} \subseteq 0..p.gross

SdkOutputEncodes(p) == ArgumentsEncodable(p)
WebOutputEncodes(p) == ArgumentsEncodable(p)

SdkOutputDecodes(call) ==
    /\ call.selector = WithdrawNoteBounds
    /\ call.note # EmptyNote
    /\ call.gross > 0
    /\ {call.policy.minNetAmount, call.policy.maxFeeAmount} \subseteq 0..call.gross

(* A wallet builds the calldata of plan p from a proof with these inputs.  *)
SdkBuildsOutput(p, inputs) ==
    /\ SdkOutputIntentHolds(inputs, p)
    /\ SdkOutputBindingHolds(inputs, p)
    /\ SdkOutputEncodes(p)
    /\ SdkOutputDecodes(WalletCall(p))

WebBuildsOutput(p, inputs) ==
    /\ WebOutputIntentHolds(inputs, p)
    /\ WebOutputBindingHolds(inputs, p)
    /\ WebOutputEncodes(p)

-----------------------------------------------------------------------------
(* The indexer, about a withdrawal with an output note. *)
OutputEvent(e) ==
    [eventType |-> IF e.selector \in WithdrawSelectors THEN "withdraw-output" ELSE "private-transfer",
     chainId |-> Here.chainId, pool |-> Here.pool, commitment |-> e.out,
     nullifier |-> Nullifier(e.leaf, Here), encryptedNote |-> e.note]

IndexerEnvelopeMatches(note, outputCommitment) == note = Envelope(Here, outputCommitment)

IndexerOutputNoteHash(nullifier, outputCommitment, note) ==
    <<"nullark.encrypted-output-note.v2", 2, Here.chainId, Here.pool, WITHDRAW_CONTEXT_SHAPE,
      WithdrawNoteBounds, nullifier, outputCommitment, Keccak256(note)>>

IndexerOutputEventMatches(inputs, note, event) ==
    /\ event.chainId = Here.chainId /\ event.pool = Here.pool
    /\ event.eventType = "withdraw-output"
    /\ event.commitment = inputs.outputCommitment
    /\ event.encryptedNote = note
    /\ event.nullifier = inputs.nullifier

(* validateV12UnlinkableWithdrawOutputNoteIndexerBinding without errors.   *)
IndexerConfirmsOutput(inputs, note, event, policy) ==
    LET noteHash == IndexerOutputNoteHash(inputs.nullifier, inputs.outputCommitment, note)
    IN  /\ inputs.chainId = Here.chainId
        /\ inputs.verifyingContract = Here.pool
        /\ inputs.outputCommitment # NoCommitment
        /\ NoteAccepted(note)
        /\ IndexerEnvelopeMatches(note, inputs.outputCommitment)
        /\ IndexerOutputEventMatches(inputs, note, event)
        /\ inputs.encryptedNoteHash = noteHash
        /\ inputs.proofContextHash =
              RelayProofContextHash(Here, WithdrawNoteBounds, inputs.root, inputs.nullifier,
                                    inputs.destination, inputs.grossAmount, inputs.fee, noteHash,
                                    policy)

-----------------------------------------------------------------------------
(* The calldata that the SDK or the web application builds: their own      *)
(* checks let their own proofs through and nothing else, and the relay     *)
(* admits the call with the SDK's deadline as long as the fee it was built *)
(* for is the pool's and none activates before that deadline. A deposit    *)
(* that the web application proved passes the pool's checks.               *)
WalletCallsAdmissible ==
    /\ DepositsAcceptedFrom("web")
    /\ \A p \in plans :
        p.client \in {"web", "sdk"} =>
            /\ p.client = "sdk" /\ p.root = currentRoot => SdkBuildsOutput(p, SpendInputs(p))
            /\ p.client = "web" => WebBuildsOutput(p, SpendInputs(p))
            /\ (/\ p.fee = FeeOf(p.gross)
                /\ pendingFeeBps # 0 =>
                      pendingFeeActivationTime > timestamp + SDK_DEADLINE_SECONDS)
               => RelayAllows(WalletCall(p), timestamp + SDK_DEADLINE_SECONDS)

(* A withdrawal through the overload the wallets use is confirmed by its   *)
(* own event; and whatever published proof and bytes are put before the    *)
(* indexer, it confirms them for an executed withdrawal only when they     *)
(* were proved for that note, that output, those bytes, that overload and  *)
(* this deployment.                                                        *)
OutputsConfirmed ==
    \A e \in executed : e.selector # DepositSelector =>
        \A p \in plans :
            /\ (/\ p.deployment = Here /\ e.selector = WithdrawNoteBounds
                /\ <<p.selector, p.leaf, p.root, p.out, p.destination, p.gross, p.fee, p.note>>
                      = <<e.selector, e.leaf, e.root, e.out, e.destination, e.gross, e.fee, e.note>>)
               => IndexerConfirmsOutput(SpendInputs(p), e.note, OutputEvent(e), p.policy)
            /\ \A note \in Notes :
                  IndexerConfirmsOutput(SpendInputs(p), note, OutputEvent(e), p.policy) =>
                      /\ p.deployment = Here
                      /\ <<p.selector, p.leaf, p.out, note>>
                            = <<WithdrawNoteBounds, e.leaf, e.out, e.note>>
=============================================================================
