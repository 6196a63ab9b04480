---------------------------- MODULE MCProofSession ---------------------------
(* Instance of ProofSession: two releases of the proving files, v1.1's and *)
(* v1.2's, and a withdrawn one; a note on every network.                   *)
EXTENDS ProofSession, TLC

CONSTANTS r1, r2, r3, rt, m1, t1, l1

MCReleaseInfo ==
    LET info(circuit, schema, net, approved, superseded) ==
            [circuit |-> circuit, schema |-> schema, deployment |-> net, recorded |-> net # "testnet",
             approved |-> approved, superseded |-> superseded]
    IN [r \in {r1, r2, r3, rt} |->
          CASE r = r1 -> info("withdraw_v1_1", "v1.1", "legacy", TRUE, FALSE)
            [] r = r2 -> info("withdraw_v1_2", "v1.2-unlinkable", "mainnet", TRUE, FALSE)
            [] r = r3 -> info("withdraw_v1_2_draft", "v1.2-unlinkable", "mainnet", TRUE, TRUE)
            [] r = rt -> info("withdraw_v1_2", "v1.2-unlinkable", "testnet", FALSE, FALSE)]
MCPinned == [net \in Networks |-> CASE net = "mainnet" -> r2 [] net = "legacy" -> r1 [] OTHER -> rt]
MCNetOf == [n \in {m1, t1, l1} |-> CASE n = m1 -> "mainnet" [] n = t1 -> "testnet" [] OTHER -> "legacy"]
MCAmountOf == [n \in {m1, t1, l1} |-> IF n = t1 THEN 1 ELSE 2]
MCSymmetry == Permutations(Destinations)
MCUserBounds == {[max |-> NoBound, min |-> NoBound], [max |-> 1, min |-> NoBound],
                 [max |-> NoBound, min |-> 1]}
==============================================================================
