------------------------------ MODULE MCRelayer ------------------------------
(* Two clients want to spend one note, with different calldata, and each   *)
(* may ask again and again.                                                *)
EXTENDS Relayer

CONSTANTS n1, c1, c2, r1, r2, ip, global

MCNullifierOf == [c \in Calldatas |-> n1]
MCCalldataOf == [r \in Requests |-> IF r = r1 THEN c1 ELSE c2]
MCLimit == [k \in RateKeys |-> IF k = ip THEN 1 ELSE 2]
MCRateKeysOf == [r \in Requests |-> IF r = r1 THEN RateKeys ELSE RateKeys \ {ip}]
=============================================================================
