--------------------------- MODULE ShieldedLedger ---------------------------
(***************************************************************************)
(* What a pool promises its users, without trees, roots, nullifiers,       *)
(* proofs, locks or events: notes that hold value, a purse that backs them *)
(* and the fees that were taken.  A note that was spent is worth nothing,  *)
(* whoever asks again.  The v1.2 pool is shown to implement this ledger.   *)
(***************************************************************************)
EXTENDS Integers

CONSTANTS
    Ids,            \* the places a note may be at
    Amounts         \* the amounts of deposits

VARIABLES
    value,          \* value[i] is what the note at i is still worth
    fees,           \* fees taken and not swept yet
    cash            \* the ether in the purse

ledgerVars == <<value, fees, cash>>

LedgerInit ==
    /\ value = [i \in Ids |-> 0]
    /\ fees = 0
    /\ cash = 0

(* A new note for the ether that came with it. *)
PayIn(i, amount) ==
    /\ value[i] = 0
    /\ value' = [value EXCEPT ![i] = amount]
    /\ cash' = cash + amount
    /\ UNCHANGED fees

(* The note at i becomes the note at j. *)
Move(i, j) ==
    /\ i # j /\ value[i] > 0 /\ value[j] = 0
    /\ value' = [value EXCEPT ![i] = 0, ![j] = value[i]]
    /\ UNCHANGED <<fees, cash>>

(* Part of the note at i, or all of it, leaves; a fee stays behind, and    *)
(* the rest of the note is now at j.                                       *)
PayOut(i, j, gross, fee) ==
    /\ i # j /\ value[j] = 0
    /\ value' = [value EXCEPT ![i] = 0, ![j] = value[i] - gross]
    /\ fees' = fees + fee
    /\ cash' = cash - (gross - fee)

(* Fees leave, and nothing but fees. *)
SweepOut(amount) ==
    /\ fees' = fees - amount
    /\ cash' = cash - amount
    /\ UNCHANGED value

LedgerNext ==
    \/ \E i \in Ids, amount \in Amounts : PayIn(i, amount)
    \/ \E i, j \in Ids : Move(i, j)
    \/ \E i, j \in Ids : \E gross \in 1..value[i] : \E fee \in 0..gross : PayOut(i, j, gross, fee)
    \/ \E amount \in 1..fees : SweepOut(amount)

LedgerSpec == LedgerInit /\ [][LedgerNext]_ledgerVars
=============================================================================
