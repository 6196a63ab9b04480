--------------------------- MODULE FeePolicyProofs ---------------------------
(* Fee governance: the reliance horizon holds for every delay, cap and     *)
(* schedule of blocks.                                                     *)
EXTENDS FeePolicy, TLAPS

(* The inductive invariant: the horizon of a reading survives because every *)
(* pending increase is due at or after it.                                 *)
FeeInv ==
    /\ FeeTypeOK
    /\ PendingIsIncrease
    /\ quote.until <= timestamp + FEE_INCREASE_DELAY
    /\ PendingOutlastsQuote
    /\ QuoteHonoured

(* The constructor's fee is capped and nothing is pending. *)
LEMMA FeeInitInv == FeeInit => FeeInv
BY FeeAssumption DEF FeeInit, FeeInv, FeeTypeOK, PendingIsIncrease,
   PendingOutlastsQuote, QuoteHonoured

(* Each governance call, and each block, keeps FeeInv.                     *)
LEMMA FeeGovernanceInv == ASSUME FeeInv, FeeGovernance PROVE FeeInv'
<1> USE FeeAssumption DEF FeeInv, FeeTypeOK, PendingIsIncrease, PendingOutlastsQuote, QuoteHonoured,
        ClearPendingFee, FeeCapped, ActivationTime
<1>1. CASE \E newFeeBps \in FeeArguments : SetFeeBps(newFeeBps)
  <2> PICK newFeeBps \in FeeArguments : SetFeeBps(newFeeBps)
      BY <1>1
  <2>1. newFeeBps \in 0..MAX_FEE_BPS
      BY DEF SetFeeBps, FeeArguments
  <2>2. CASE newFeeBps <= feeBps
      BY <2>1, <2>2 DEF SetFeeBps
  <2>3. CASE newFeeBps > feeBps
      BY <2>1, <2>3 DEF SetFeeBps
  <2> QED BY <2>1, <2>2, <2>3
<1>2. CASE ExecutePendingFeeBps
    BY <1>2 DEF ExecutePendingFeeBps
<1>3. CASE CancelPendingFeeBps
    BY <1>3 DEF CancelPendingFeeBps
<1> QED BY <1>1, <1>2, <1>3 DEF FeeGovernance

(* Every fee operation and every block keeps the fee state in order. *)
LEMMA FeeStepInv == ASSUME FeeInv, [FeeNext]_feeVars PROVE FeeInv'
<1> USE FeeAssumption DEF FeeInv, FeeTypeOK, PendingIsIncrease, PendingOutlastsQuote, QuoteHonoured
<1>1. CASE FeeGovernance
    BY <1>1, FeeGovernanceInv
<1>2. CASE NextBlock
    BY <1>2 DEF NextBlock, feeState
<1>3. CASE QuoteFee
    BY <1>3 DEF QuoteFee, RelianceHorizon, feeState
<1>4. CASE UNCHANGED feeVars
    BY <1>4 DEF feeVars
<1> QED BY <1>1, <1>2, <1>3, <1>4 DEF FeeNext

(* The fee a client read from the pool is not exceeded before the horizon  *)
(* that setFeeBps' delay gives it, and the pending pair the relay checks is *)
(* always consistent.                                                      *)
THEOREM FeeCorrect ==
    FeeSpec => [](FeeTypeOK /\ PendingIsIncrease /\ PendingOutlastsQuote /\ QuoteHonoured)
<1>1. FeeInit => FeeInv
    BY FeeInitInv
<1>2. FeeInv /\ [FeeNext]_feeVars => FeeInv'
    BY FeeStepInv
<1>3. FeeInv => FeeTypeOK /\ PendingIsIncrease /\ PendingOutlastsQuote /\ QuoteHonoured
    BY DEF FeeInv
<1> QED BY <1>1, <1>2, <1>3, PTL DEF FeeSpec
=============================================================================
