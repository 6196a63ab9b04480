--------------------------- MODULE MCNoteRecovery ---------------------------
(* Mainnet, with the testnet as the other deployment. *)
EXTENDS NoteRecovery

Mainnet == [chain |-> 4326, pool |-> "pool", spelling |-> "checksum"]
Testnet == [chain |-> 6343, pool |-> "testnetPool", spelling |-> "checksum"]
=============================================================================
