------------------------------ MODULE FeePolicy ------------------------------
(***************************************************************************)
(* Fee governance of the v1.2 pool (contracts/src/v1_2/NullarkPool.sol):   *)
(* the fee controller lowers the withdrawal fee at once, but an increase   *)
(* waits FEE_INCREASE_DELAY seconds as a pending fee that anybody may then  *)
(* execute.                                                                *)
(*                                                                         *)
(* `quote' is an observation of a client: the fee it read from the pool    *)
(* and the time until which it may rely on that fee.  The withdrawal fee   *)
(* is a public input of the withdrawal proof, so the wallet and the relay  *)
(* have to know for how long the fee they read stands.                     *)
(***************************************************************************)
EXTENDS Integers

CONSTANTS
    INITIAL_FEE_BPS,        \* 33 in the contract
    MAX_FEE_BPS,            \* 100 in the contract
    FEE_INCREASE_DELAY,     \* 3 days in the contract
    StartTime,              \* timestamp of the block that deploys the pool
    TimeBound               \* TLC bound: no block is later than this

ASSUME FeeAssumption ==
    /\ MAX_FEE_BPS \in Nat
    /\ INITIAL_FEE_BPS \in 0..MAX_FEE_BPS
    /\ FEE_INCREASE_DELAY \in Nat \ {0}
    /\ StartTime \in Nat
    /\ TimeBound \in Nat

VARIABLES
    feeBps,
    pendingFeeBps,
    pendingFeeActivationTime,
    timestamp,              \* block.timestamp
    quote                   \* the last fee a client read, see QuoteFee

feeState == <<feeBps, pendingFeeBps, pendingFeeActivationTime>>
feeVars == <<feeBps, pendingFeeBps, pendingFeeActivationTime, timestamp, quote>>

-----------------------------------------------------------------------------
(* Faulty variants of the definitions below, for mutation checks.          *)
ActivationTime_NoDelay == timestamp

-----------------------------------------------------------------------------
(* The time until which a client that reads the fee now may rely on it: a  *)
(* pending increase can execute at its activation time, and an increase    *)
(* that is scheduled later needs the whole delay.                          *)
RelianceHorizon ==
    IF pendingFeeBps # 0 THEN pendingFeeActivationTime
                         ELSE timestamp + FEE_INCREASE_DELAY

FeeInit ==
    /\ feeBps = INITIAL_FEE_BPS
    /\ pendingFeeBps = 0
    /\ pendingFeeActivationTime = 0
    /\ timestamp = StartTime
    /\ quote = [fee |-> INITIAL_FEE_BPS, until |-> StartTime + FEE_INCREASE_DELAY]

FeeCapped(newFeeBps) == newFeeBps <= MAX_FEE_BPS

ActivationTime == timestamp + FEE_INCREASE_DELAY

ClearPendingFee ==
    /\ pendingFeeBps' = 0
    /\ pendingFeeActivationTime' = 0

(* setFeeBps, sent by the fee controller: a lower fee takes effect at once *)
(* and drops a pending increase, the current fee only drops it, a higher   *)
(* fee replaces whatever was pending and restarts the delay.               *)
SetFeeBps(newFeeBps) ==
    /\ FeeCapped(newFeeBps)
    /\ \/ /\ newFeeBps <= feeBps
          /\ feeBps' = newFeeBps
          /\ ClearPendingFee
       \/ /\ newFeeBps > feeBps
          /\ pendingFeeBps' = newFeeBps
          /\ pendingFeeActivationTime' = ActivationTime
          /\ UNCHANGED feeBps
    /\ UNCHANGED <<timestamp, quote>>

(* executePendingFeeBps, sent by anybody. *)
ExecutePendingFeeBps ==
    /\ pendingFeeBps # 0
    /\ timestamp >= pendingFeeActivationTime
    /\ feeBps' = pendingFeeBps
    /\ ClearPendingFee
    /\ UNCHANGED <<timestamp, quote>>

(* cancelPendingFeeBps, sent by the fee controller. *)
CancelPendingFeeBps ==
    /\ pendingFeeBps # 0
    /\ ClearPendingFee
    /\ UNCHANGED <<feeBps, timestamp, quote>>

(* The chain produces a later block. *)
NextBlock ==
    /\ timestamp < TimeBound
    /\ timestamp' = timestamp + 1
    /\ UNCHANGED <<feeState, quote>>

(* The relay reads the fee state. It refuses to work with a pending fee    *)
(* whose activation time has come until somebody executes it.              *)
QuoteFee ==
    /\ pendingFeeActivationTime # 0 => pendingFeeActivationTime > timestamp
    /\ quote' = [fee |-> feeBps, until |-> RelianceHorizon]
    /\ UNCHANGED <<feeState, timestamp>>

(* The arguments tried for setFeeBps, one above the cap included. *)
FeeArguments == 0..(MAX_FEE_BPS + 1)

FeeGovernance ==
    \/ \E newFeeBps \in FeeArguments : SetFeeBps(newFeeBps)
    \/ ExecutePendingFeeBps
    \/ CancelPendingFeeBps

FeeNext == FeeGovernance \/ NextBlock \/ QuoteFee

FeeSpec == FeeInit /\ [][FeeNext]_feeVars

-----------------------------------------------------------------------------
(* Types of the fee state; feeBps and pendingFeeBps never pass the cap     *)
(* that setFeeBps checks.                                                  *)
FeeTypeOK ==
    /\ feeBps \in 0..MAX_FEE_BPS
    /\ pendingFeeBps \in 0..MAX_FEE_BPS
    /\ pendingFeeActivationTime \in Nat
    /\ timestamp \in Nat
    /\ quote \in [fee : 0..MAX_FEE_BPS, until : Nat]

(* The relay rejects a fee state in which exactly one of the pending fee   *)
(* and its activation time is zero as inconsistent; no sequence of         *)
(* governance calls may produce one, and what is pending is always an      *)
(* increase due at most FEE_INCREASE_DELAY ahead, whatever was lowered,    *)
(* cancelled or rescheduled in between.                                    *)
PendingIsIncrease ==
    /\ (pendingFeeBps = 0) <=> (pendingFeeActivationTime = 0)
    /\ pendingFeeBps # 0 =>
          /\ pendingFeeBps > feeBps
          /\ pendingFeeActivationTime <= timestamp + FEE_INCREASE_DELAY

(* Whatever is pending was pending when the client read the fee, or was    *)
(* scheduled later and then carries the whole delay: it cannot become due  *)
(* before the horizon of the reading.                                      *)
PendingOutlastsQuote ==
    pendingFeeBps # 0 => pendingFeeActivationTime >= quote.until

(* A client that read the fee never meets a higher one before the horizon  *)
(* it could compute from that reading, whichever calls of setFeeBps,       *)
(* executePendingFeeBps and cancelPendingFeeBps follow.                    *)
QuoteHonoured == timestamp < quote.until => feeBps <= quote.fee
=============================================================================
