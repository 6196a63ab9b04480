------------------------- MODULE MCRootLogRecovery --------------------------
(* Instances of RootLogRecovery for TLC. *)
EXTENDS RootLogRecovery

CONSTANTS c1, c2

(* Block 1 deploys the pool, block 9 is beyond every chain. *)
MCBlockHints == {None, 1, 3, 9}
MCLeafIndexHints == {None, 1}

(* A testnet client without and a mainnet client with a finality policy,   *)
(* and a mainnet client that forgot it.                                    *)
MCPolicies == {[confirmations |-> 0, mainnet |-> FALSE], [confirmations |-> 2, mainnet |-> TRUE],
               [confirmations |-> 0, mainnet |-> TRUE]}
=============================================================================
