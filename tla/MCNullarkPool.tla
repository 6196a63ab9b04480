---------------------------- MODULE MCNullarkPool ----------------------------
(* Instances of NullarkPool for TLC. *)
EXTENDS NullarkPool, TLC

CONSTANTS c1, c2, c3, c4, c5, relayer, user

(* Amounts such that fees of a quarter round down: both 6 and 3 leave a rest. *)
MCAmountOf == (c1 :> 6) @@ (c2 :> 3) @@ (c3 :> 3) @@ (c4 :> 0) @@ (c5 :> 6)

MCPolicies ==
    { [relayer |-> NoRelayer, minNetAmount |-> 0, maxFeeAmount |-> 6, deadlineOrZero |-> 0],
      [relayer |-> relayer, minNetAmount |-> 3, maxFeeAmount |-> 1, deadlineOrZero |-> 1] }
=============================================================================
