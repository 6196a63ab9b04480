-------------------------- MODULE MCRelayAdmission --------------------------
(* The approved mainnet configuration, a v1.2 and a plain testnet one, and *)
(* all that differ from one of them in a single variable.                  *)
EXTENDS RelayAdmission

MainnetEnv ==
    [RELAYER_ENVIRONMENT |-> "megaeth-mainnet", SHIELDED_POOL_ADDRESS |-> "approved pool",
     MEGAETH_MAINNET_RPC_URL |-> Unset, MEGAETH_TESTNET_RPC_URL |-> Unset,
     MAINNET_RELAYER_APPROVED |-> TRUE, HASHES_MATCH |-> TRUE,
     RELAYER_V1_2_WITHDRAW_SELECTOR |-> "v1.2 bounded",
     RELAYER_V1_2_FEE_SOURCE |-> "on-chain-feeBps",
     WITHDRAWAL_RELAYER_ADDRESS |-> "approved relayer", SIGNER |-> "approved relayer",
     IDEMPOTENCY_KV |-> TRUE, RATE_LIMIT_KV |-> TRUE, NONCE_QUEUE |-> TRUE]

V12TestnetEnv ==
    [MainnetEnv EXCEPT !.RELAYER_ENVIRONMENT = "megaeth-testnet",
                       !.SHIELDED_POOL_ADDRESS = "testnet pool",
                       !.MAINNET_RELAYER_APPROVED = FALSE,
                       !.SIGNER = "other relayer", !.IDEMPOTENCY_KV = FALSE]

PlainTestnetEnv ==
    [V12TestnetEnv EXCEPT !.RELAYER_ENVIRONMENT = Unset, !.SHIELDED_POOL_ADDRESS = Unset,
                          !.RELAYER_V1_2_WITHDRAW_SELECTOR = Unset,
                          !.RELAYER_V1_2_FEE_SOURCE = Unset, !.NONCE_QUEUE = FALSE]

Values(field) ==
    CASE field = "RELAYER_ENVIRONMENT" -> Chains \cup {Unset}
      [] field = "SHIELDED_POOL_ADDRESS" -> {"approved pool", "testnet pool", "old pool", Unset}
      [] field \in {"MEGAETH_MAINNET_RPC_URL", "MEGAETH_TESTNET_RPC_URL"} ->
             {"mainnet rpc", "testnet rpc", "other rpc", Unset}
      [] field = "RELAYER_V1_2_WITHDRAW_SELECTOR" -> {"v1.1 bounded", "v1.2 bounded", "v1.2 unbounded", Unset}
      [] field = "RELAYER_V1_2_FEE_SOURCE" -> {"on-chain-feeBps", "other", Unset}
      [] field = "WITHDRAWAL_RELAYER_ADDRESS" -> {"approved relayer", "other relayer", Unset}
      [] field = "SIGNER" -> {"approved relayer", "other relayer"}
      [] OTHER -> BOOLEAN

MCEnvs ==
    UNION {{[base EXCEPT ![field] = v] : v \in Values(field)} :
              base \in {MainnetEnv, V12TestnetEnv, PlainTestnetEnv}, field \in DOMAIN MainnetEnv}
MCGovernedEnvs == {MainnetEnv}
MCChainOf == [url \in {"mainnet rpc", "testnet rpc", "other rpc"} |->
                 IF url = "testnet rpc" THEN "megaeth-testnet" ELSE "megaeth-mainnet"]
=============================================================================
