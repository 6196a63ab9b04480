--------------------------- MODULE MCLegacyBinding --------------------------
(* An instance of LegacyBinding for TLC. *)
EXTENDS LegacyBinding, TLC

CONSTANTS c1, c2, c3, c4, relayer, user, alice, bob

(* Notes of 4 and twice 2, and one of 3, which is no denomination. *)
MCOpenAmount == [c \in Commitments |-> CASE c = c1 -> 4 [] c = c3 -> 3 [] OTHER -> 2]

MCHere == [chainId |-> 4326, pool |-> "pool"]
MCDeployments == {MCHere, [chainId |-> 6343, pool |-> "pool"]}

MCPolicies ==
    { [relayer |-> NoRelayer, minNetAmount |-> 0, maxFeeAmount |-> 1, deadlineOrZero |-> 0],
      [relayer |-> relayer, minNetAmount |-> 1, maxFeeAmount |-> 2, deadlineOrZero |-> 2] }

MCSymmetry == Permutations({alice, bob}) \cup Permutations({c2, c4})
=============================================================================
