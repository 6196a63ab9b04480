--------------------------- MODULE RelayAdmission ---------------------------
(***************************************************************************)
(* What the withdrawal relayer decides before it submits a transaction     *)
(* (services/relayer-worker/src/index.ts): whether its configuration may   *)
(* relay at all, which fee the pool charges, and until when the fee of a   *)
(* request can be trusted.  Relayer models what happens to admitted        *)
(* requests; here a handler's awaits are the points at which the fee       *)
(* controller acts, blocks pass and the operator redeploys.                *)
(*                                                                         *)
(* The configuration is the worker's environment.  The operator's deploy   *)
(* reaches the worker at once and the durable object of the nonce queue    *)
(* when its isolate restarts, so the two may differ for a while.           *)
(*                                                                         *)
(* Every denomination is a multiple of BPS_DENOMINATOR wei, so the fee of  *)
(* a call and the fee in basis points determine each other: the model      *)
(* writes basis points.                                                    *)
(***************************************************************************)
EXTENDS FeePolicy, FiniteSets

CONSTANTS
    Unset,                      \* an environment variable that is not there
    Envs,                       \* configurations the operator may deploy
    ChainOf,                    \* the chain the node behind an RPC URL is on
    maxDeadlineSecondsFromNow,  \* 120 in the code
    MaxHandling,                \* seconds from a handler's first read to its policy check
    MaxTxs, MaxDeploys,         \* TLC bounds: submissions, redeploys
    GovernedEnvs,               \* TLC bound: configurations under which the fee changes
    Combined                    \* TLC bound: quotes, fee changes and deploys in one behaviour?

Chains == {"megaeth-mainnet", "megaeth-testnet"}

(* The fee delay outlasts a handler's reads and the longest deadline: the  *)
(* contract's three days against two minutes and a request's life time.    *)
ASSUME AdmissionAssumption ==
    /\ maxDeadlineSecondsFromNow \in Nat \ {0}
    /\ MaxHandling \in Nat
    /\ maxDeadlineSecondsFromNow + MaxHandling < FEE_INCREASE_DELAY
    /\ MaxTxs \in Nat /\ MaxDeploys \in Nat
    /\ \A e \in Envs : e.IDEMPOTENCY_KV \in BOOLEAN
    /\ Combined \in BOOLEAN

VARIABLES
    env,        \* the environment of the worker
    queueEnv,   \* the environment of the durable object
    deploys,
    handler,    \* the request in the making, see Idle
    sentTxs         \* transactions the node accepted

relayVars == <<env, queueEnv, deploys, handler, sentTxs>>
admissionVars == <<feeVars, relayVars>>

FeeFields == {"feeBps", "pendingFeeBps", "pendingFeeActivationTime"}
NotRead == -1
NothingRead == [f \in FeeFields |-> NotRead]
Idle == [at |-> "idle"]

-----------------------------------------------------------------------------
(* Faulty variants of the definitions below, for mutation checks.          *)
Simulates_AtAdmission(body) == TRUE
SignerBound_ConfiguredOnly(e) ==
    e.RELAYER_ENVIRONMENT = "megaeth-mainnet" =>
        e.WITHDRAWAL_RELAYER_ADDRESS = "approved relayer"

-----------------------------------------------------------------------------
(* The configuration.                                                      *)
OrElse(value, default) == IF value = Unset THEN default ELSE value

Environment(e) == OrElse(e.RELAYER_ENVIRONMENT, "megaeth-testnet")
Pool(e) == OrElse(e.SHIELDED_POOL_ADDRESS, "testnet pool")

RpcUrl(e) ==
    IF Environment(e) = "megaeth-mainnet"
    THEN OrElse(e.MEGAETH_MAINNET_RPC_URL, "mainnet rpc")
    ELSE OrElse(e.MEGAETH_TESTNET_RPC_URL, "testnet rpc")

(* Either variable of the v1.2 runtime selects it. *)
WantsV12(e) == e.RELAYER_V1_2_FEE_SOURCE # Unset \/ e.RELAYER_V1_2_WITHDRAW_SELECTOR # Unset

(* assertCurrentMainnetPool *)
CurrentMainnetPool(pool) == pool = "approved pool"

(* assertCurrentMainnetPublicArtifactBinding *)
ArtifactBinding(e) ==
    /\ CurrentMainnetPool(Pool(e))
    /\ e.RELAYER_V1_2_WITHDRAW_SELECTOR = "v1.2 bounded"
    /\ RpcUrl(e) = "mainnet rpc"
    /\ e.RELAYER_V1_2_FEE_SOURCE = "on-chain-feeBps"
    /\ e.HASHES_MATCH

(* The v1.2 runtime takes no defaults for the pool and the selector. *)
BuildsV12Runtime(e) ==
    /\ e.SHIELDED_POOL_ADDRESS # Unset
    /\ e.RELAYER_V1_2_WITHDRAW_SELECTOR # Unset
    /\ e.RELAYER_V1_2_FEE_SOURCE = "on-chain-feeBps"
    /\ Environment(e) = "megaeth-mainnet" => ArtifactBinding(e)

(* There is no mainnet runtime but the v1.2 one. *)
BuildsRelayRuntime(e) ==
    IF WantsV12(e)
    THEN /\ Environment(e) = "megaeth-mainnet" => e.MAINNET_RELAYER_APPROVED /\ ArtifactBinding(e)
         /\ BuildsV12Runtime(e)
    ELSE Environment(e) = "megaeth-testnet"

TestnetSelectors == {"v1.1 bounded", "v1.2 bounded"}

Runtime(e) ==
    [chain |-> Environment(e), rpcUrl |-> RpcUrl(e), pool |-> Pool(e), onChainFee |-> WantsV12(e),
     selectors |-> IF WantsV12(e) THEN {e.RELAYER_V1_2_WITHDRAW_SELECTOR} ELSE TestnetSelectors,
     signer |-> e.SIGNER, store |-> e.IDEMPOTENCY_KV, rateLimit |-> e.RATE_LIMIT_KV]

(* assertRelayerSignerBinding *)
SignerBound(e) ==
    Environment(e) = "megaeth-mainnet" =>
        /\ e.WITHDRAWAL_RELAYER_ADDRESS = "approved relayer"
        /\ e.SIGNER = e.WITHDRAWAL_RELAYER_ADDRESS

(* resolveRelayIdempotencyStore, resolveRelayRateLimitStore and            *)
(* resolveRelayNonceQueue: optional on the testnet only.                   *)
Resolves(bound, chain) == bound \/ chain # "megaeth-mainnet"

-----------------------------------------------------------------------------
AdmissionInit ==
    /\ FeeInit
    /\ env \in Envs
    /\ queueEnv = env
    /\ deploys = 0
    /\ handler = Idle
    /\ sentTxs = {}

HandlerAt(label) == handler.at = label

(* A request fails: a check refuses it or an awaited call rejects. *)
Refuse ==
    /\ ~HandlerAt("idle")
    /\ handler' = Idle
    /\ UNCHANGED <<feeVars, env, queueEnv, deploys, sentTxs>>

(* queueMainnetRelayRequestIfNeeded in the worker: a request goes to the   *)
(* durable object if there is one, unless it says it comes from there; the *)
(* handler then starts from the environment of wherever it runs.           *)
Queues(e) == e.NONCE_QUEUE

StartHandler(e) ==
    /\ BuildsRelayRuntime(e)
    /\ SignerBound(e)
    /\ handler' = [at |-> "chainId", queued |-> e = queueEnv, runtime |-> Runtime(e),
                   reads |-> NothingRead, since |-> timestamp]

(* TLC bound: a behaviour has either a wallet's quotes or relayed requests. *)
Unquoted == Combined \/ quote = [fee |-> INITIAL_FEE_BPS, until |-> StartTime + FEE_INCREASE_DELAY]

PostToQueue ==
    /\ HandlerAt("idle") /\ Unquoted /\ Cardinality(sentTxs) < MaxTxs
    /\ BuildsRelayRuntime(env) /\ SignerBound(env)
    /\ Queues(env)
    /\ StartHandler(queueEnv)
    /\ UNCHANGED <<feeVars, env, queueEnv, deploys, sentTxs>>

(* The request carries the header of the nonce queue, or there is no queue *)
(* and the network does not require one.                                   *)
PostDirectly(marked) ==
    /\ HandlerAt("idle") /\ Unquoted /\ Cardinality(sentTxs) < MaxTxs
    /\ ~marked => /\ BuildsRelayRuntime(env) /\ SignerBound(env)
                  /\ ~Queues(env) /\ Resolves(FALSE, Environment(env))
    /\ StartHandler(env)
    /\ UNCHANGED <<feeVars, env, queueEnv, deploys, sentTxs>>

GetChainId ==
    /\ HandlerAt("chainId")
    /\ ChainOf[handler.runtime.rpcUrl] = handler.runtime.chain
    /\ handler' = [handler EXCEPT !.at = "fee", !.since = timestamp]
    /\ UNCHANGED <<feeVars, env, queueEnv, deploys, sentTxs>>

(* readPoolFeeState: the fee fields come in separate calls, answered in    *)
(* any order and at different blocks.  The fee controller of the model is  *)
(* that of the mainnet pool; the testnet's pools keep their fee.           *)
StaticFee == [feeBps |-> INITIAL_FEE_BPS, pendingFeeBps |-> 0, pendingFeeActivationTime |-> 0]

PoolFee(chain) ==
    IF chain # "megaeth-mainnet" THEN StaticFee
    ELSE [feeBps |-> feeBps, pendingFeeBps |-> pendingFeeBps,
          pendingFeeActivationTime |-> pendingFeeActivationTime]

ReadPoolFeeState(field) ==
    /\ HandlerAt("fee") /\ handler.runtime.onChainFee
    /\ handler.reads[field] = NotRead
    /\ handler' = [handler EXCEPT !.reads[field] = PoolFee(handler.runtime.chain)[field]]
    /\ UNCHANGED <<feeVars, env, queueEnv, deploys, sentTxs>>

(* resolveRelayRuntimeFeePolicy *)
FeePolicyResolves(reads) ==
    /\ \A f \in FeeFields : reads[f] # NotRead
    /\ reads.feeBps <= MAX_FEE_BPS /\ reads.pendingFeeBps <= MAX_FEE_BPS
    /\ (reads.pendingFeeBps = 0) = (reads.pendingFeeActivationTime = 0)
    /\ reads.pendingFeeActivationTime # 0 => reads.pendingFeeActivationTime > timestamp

(* The fee checks of validateWithdrawalRelayCalldata and                   *)
(* validateWithdrawalFeePolicy.                                            *)
FeePolicyAdmits(policy, body) ==
    /\ body.fee = policy.feeBps
    /\ policy.pendingFeeBps # 0 =>
          /\ policy.pendingFeeActivationTime > body.deadline
          /\ body.fee # policy.pendingFeeBps

(* validateRelayBroadcastRequest with the policy of the runtime; on the    *)
(* mainnet it also names the production pool and selector itself.          *)
DeadlineOpen(deadline) ==
    /\ deadline > timestamp
    /\ deadline <= timestamp + maxDeadlineSecondsFromNow

BroadcastPolicyAdmits(runtime, body) ==
    /\ body.chain = runtime.chain
    /\ body.to = runtime.pool
    /\ body.selector \in runtime.selectors
    /\ runtime.chain = "megaeth-mainnet" =>
          /\ runtime.pool = "approved pool"
          /\ runtime.selectors = {"v1.2 bounded"}
    /\ body.valueWei = 0
    /\ DeadlineOpen(body.deadline)

(* What a request may ask for. *)
Bodies ==
    [chain : Chains, to : {"approved pool", "testnet pool", "old pool"},
     selector : {"v1.1 bounded", "v1.2 bounded", "v1.2 unbounded"}, valueWei : {0, 1},
     fee : 0..MAX_FEE_BPS, deadline : 0..(TimeBound + maxDeadlineSecondsFromNow)]

(* normalizeRelayRequest is the first to look at the request's body; then  *)
(* the stores are resolved, used and left as Relayer describes.            *)
NormalizeRelayRequest(body) ==
    LET runtime == handler.runtime
        policy == IF runtime.onChainFee THEN handler.reads ELSE StaticFee
    IN  /\ runtime.onChainFee => FeePolicyResolves(handler.reads)
        /\ BroadcastPolicyAdmits(runtime, body)
        /\ FeePolicyAdmits(policy, body)
        /\ Resolves(runtime.rateLimit, runtime.chain)
        /\ Resolves(runtime.store, runtime.chain)
        /\ handler' = [at |-> "estimate", queued |-> handler.queued, runtime |-> runtime, body |-> body]
        /\ UNCHANGED <<feeVars, env, queueEnv, deploys, sentTxs>>

(* estimateGas executes the call against the pool as it is now, which      *)
(* recomputes the fee; the policy is then checked a second time.           *)
Simulates(body) == body.fee = PoolFee(body.chain).feeBps

EstimateRelayGas ==
    /\ HandlerAt("estimate")
    /\ Simulates(handler.body)
    /\ handler' = [handler EXCEPT !.at = "policy"]
    /\ UNCHANGED <<feeVars, env, queueEnv, deploys, sentTxs>>

ValidatePolicy ==
    /\ HandlerAt("policy")
    /\ BroadcastPolicyAdmits(handler.runtime, handler.body)
    /\ handler' = [handler EXCEPT !.at = "send"]
    /\ UNCHANGED <<feeVars, env, queueEnv, deploys, sentTxs>>

(* sendTransaction signs for the runtime's chain; a node of another chain  *)
(* would refuse it.                                                        *)
SendTransaction ==
    /\ HandlerAt("send")
    /\ ChainOf[handler.runtime.rpcUrl] = handler.runtime.chain
    /\ sentTxs' = sentTxs \cup {[chain |-> handler.runtime.chain, signer |-> handler.runtime.signer,
                         recorded |-> handler.runtime.store, body |-> handler.body]}
    /\ handler' = Idle
    /\ UNCHANGED <<feeVars, env, queueEnv, deploys>>

-----------------------------------------------------------------------------
(* The operator, the fee controller and the chain.  TLC bound: deploys and *)
(* fee changes do not happen in the same behaviour.                        *)
FeeUntouched ==
    Combined \/ (feeState = <<INITIAL_FEE_BPS, 0, 0>> /\ timestamp = StartTime)

Deploy(e) ==
    /\ FeeUntouched /\ deploys < MaxDeploys
    /\ env' = e
    /\ deploys' = deploys + 1
    /\ UNCHANGED <<feeVars, queueEnv, handler, sentTxs>>

(* The durable object's isolate restarts with the deployed environment and *)
(* loses the request it had.                                               *)
RestartQueue ==
    /\ queueEnv # env
    /\ queueEnv' = env
    /\ handler' = IF HandlerAt("idle") \/ ~handler.queued THEN handler ELSE Idle
    /\ UNCHANGED <<feeVars, env, deploys, sentTxs>>

(* The fee changes and time passes; a handler that reads the fee has       *)
(* MaxHandling seconds for it.                                             *)
Governed == Combined \/ (deploys = 0 /\ env \in GovernedEnvs)

Timely == HandlerAt("fee") => timestamp - handler.since < MaxHandling

Governance ==
    /\ Governed
    /\ \/ FeeGovernance
       \/ Timely /\ NextBlock
       \/ (Combined \/ (HandlerAt("idle") /\ sentTxs = {})) /\ QuoteFee
    /\ UNCHANGED relayVars

AdmissionNext ==
    \/ Governance
    \/ \E e \in Envs : Deploy(e)
    \/ RestartQueue
    \/ PostToQueue
    \/ \E marked \in BOOLEAN : PostDirectly(marked)
    \/ GetChainId
    \/ \E field \in FeeFields : ReadPoolFeeState(field)
    \/ HandlerAt("fee") /\ \E body \in Bodies : NormalizeRelayRequest(body)
    \/ EstimateRelayGas \/ ValidatePolicy \/ SendTransaction
    \/ Refuse

AdmissionSpec == AdmissionInit /\ [][AdmissionNext]_admissionVars

-----------------------------------------------------------------------------
(* A withdrawal the relayer submitted does not meet a higher fee before    *)
(* the deadline its client asked for, although the fee fields are read one *)
(* by one, the fee controller may schedule, cancel, replace and lower fees *)
(* at any point, and anybody may execute a due increase.                   *)
SubmittedFeeHolds ==
    \A tx \in sentTxs : timestamp <= tx.body.deadline =>
        PoolFee(tx.chain).feeBps <= tx.body.fee

(* What the relayer submits on the mainnet is a bounded v1.2 withdrawal    *)
(* from the approved pool, carries no value, is signed by the approved     *)
(* relayer and is recorded for idempotency, whichever variable of the      *)
(* environment is wrong or missing and whatever is deployed while a        *)
(* request is queued or handled.                                           *)
MainnetSubmissionsApproved ==
    \A tx \in sentTxs : tx.chain = "megaeth-mainnet" =>
        /\ tx.body.to = "approved pool"
        /\ tx.body.selector = "v1.2 bounded"
        /\ tx.body.valueWei = 0
        /\ tx.signer = "approved relayer"
        /\ tx.recorded
=============================================================================
