--------------------------- MODULE MCSpendBinding ---------------------------
(* Instances of SpendBinding and SpendEvidence for TLC. *)
EXTENDS SpendEvidence, TLC

CONSTANTS c1, c2, c3, c4, relayer, user, alice, bob

MCAmountOf ==
    [c \in Commitments |-> CASE c = c1 -> 4 [] c \in {c2, c3} -> 2 [] c = c4 -> 0]

MCHere == [chainId |-> 4326, pool |-> "pool"]
MCDeployments ==
    {MCHere, [chainId |-> 6343, pool |-> "pool"], [chainId |-> 4326, pool |-> "otherPool"]}

MCPolicies ==
    { [relayer |-> NoRelayer, minNetAmount |-> 0, maxFeeAmount |-> 4, deadlineOrZero |-> 0],
      [relayer |-> relayer, minNetAmount |-> 1, maxFeeAmount |-> 2, deadlineOrZero |-> 2] }

MCSymmetry ==
    {p @@ q : p \in Permutations({alice, bob}), q \in Permutations({c2, c3})}
=============================================================================
