--------------------------- MODULE NoteEnvelopes ---------------------------
(***************************************************************************)
(* The encrypted notes of the pool's events, as the two clients write and  *)
(* open them: the web application (apps/web/src/recovery) and the SDK      *)
(* (packages/sdk/src/recovery), which implement the format independently.  *)
(*                                                                         *)
(* Cryptography is symbolic: a key is the record of what it was derived    *)
(* from, a ciphertext is the record of its key, nonce, associated data and *)
(* plaintext, and opens only under an equal key, nonce and data.  A        *)
(* commitment is the record of the note material it commits to.            *)
(*                                                                         *)
(* A deployment is [chain, pool, spelling]: keys are derived from the      *)
(* lower-case pool address, the associated data hold it as spelled.        *)
(***************************************************************************)
EXTENDS Naturals

CONSTANT None

Chains == {4326, 6343}                     \* MegaETH mainnet and testnet
AppId == "nullark"
LegacyAppId == "shielded-balance-transfers"
AppIds == {AppId, LegacyAppId}
EpochId(chain) == <<"megaeth", chain, "nullark-v1">>
LegacyEpochId == <<"megaeth-testnet-v1">>
SdkEpochId(chain) == <<"megaeth", chain, "nullark-v1">>

Commitment(note) == [amount |-> note.amount, secret |-> note.secret]
NoteNullifier(note, leaf, d) == [secret |-> note.secret, leaf |-> leaf, chain |-> d.chain, pool |-> d.pool]

SpendMaterial(note, d) ==
  [chain |-> d.chain, pool |-> d.pool, amount |-> note.amount, secret |-> note.secret,
   commitment |-> Commitment(note)]

-----------------------------------------------------------------------------
(* Unlock signatures.  Both clients ask the wallet for the same typed data. *)

TypedData(w, d) ==
  [domain |-> [name |-> "Shielded Balance Transfers", chain |-> d.chain, contract |-> d.pool],
   wallet |-> w, pool |-> d.pool, recoveryVersion |-> 1, encryptionVersion |-> 1,
   issuedAt |-> "2026-05-02"]
SdkTypedData(w, d) ==
  [domain |-> [name |-> "Shielded Balance Transfers", chain |-> d.chain, contract |-> d.pool],
   wallet |-> w, pool |-> d.pool, recoveryVersion |-> 1, encryptionVersion |-> 1,
   issuedAt |-> "2026-05-02"]

\* eth_signTypedData_v4: deterministic in the account and the data (RFC 6979)
Signature(w, data) == [signer |-> w, data |-> data]
RequestWalletRecoverySignature(w, d) ==
  IF d.chain \in Chains THEN Signature(w, TypedData(w, d)) ELSE None
SdkRequestWalletRecoverySignature(w, d) ==
  IF d.chain \in Chains THEN Signature(w, SdkTypedData(w, d)) ELSE None

-----------------------------------------------------------------------------
(* Keys, associated data, AES-GCM.                                         *)

DeriveWalletRecoveryKey(sig, d, app) == [from |-> sig, salt |-> <<app, d.chain, d.pool>>]
DeriveNoteKey(rk, c, epoch) == [from |-> rk, salt |-> epoch, info |-> c]
MakeRecoveryAssociatedData(d, action, c) ==
  [chain |-> d.chain, pool |-> <<d.pool, d.spelling>>, action |-> action, commitment |-> c,
   encryptionVersion |-> 1]

SdkDeriveWalletRecoveryKey(sig, d, app) == [from |-> sig, salt |-> <<app, d.chain, d.pool>>]
SdkDeriveNoteKey(rk, c, epoch) == [from |-> rk, salt |-> epoch, info |-> c]
SdkMakeRecoveryAssociatedData(d, action, c) ==
  [chain |-> d.chain, pool |-> <<d.pool, d.spelling>>, action |-> action, commitment |-> c,
   encryptionVersion |-> 1]

Seal(key, nonce, aad, plain) == [key |-> key, nonce |-> nonce, aad |-> aad, plain |-> plain]
Open(sealed, key, nonce, aad) ==
  IF sealed # None /\ sealed.key = key /\ sealed.nonce = nonce /\ sealed.aad = aad
  THEN sealed.plain ELSE None

-----------------------------------------------------------------------------
(* Version 1: {version, algorithm, kdf, nonce, ciphertext} around the whole *)
(* spend material.  None as a ciphertext stands for bytes nobody sealed.    *)

EncryptSpendMaterialEnvelope(key, aad, plain) ==
  [version |-> 1, nonce |-> "n12", ciphertext |-> Seal(key, "n12", aad, plain)]
ParseEncryptedNoteEnvelope(bytes) == IF bytes.version = 1 THEN bytes ELSE None
DecryptEncryptedNoteEnvelope(bytes, key, aad) == Open(bytes.ciphertext, key, bytes.nonce, aad)

SdkEncryptSpendMaterialEnvelope(key, aad, plain) ==
  [version |-> 1, nonce |-> "n12", ciphertext |-> Seal(key, "n12", aad, plain)]
SdkParseEncryptedNoteEnvelope(bytes) == IF bytes.version = 1 THEN bytes ELSE None
SdkValidSpendMaterial(plain) == plain.chain > 0 /\ plain.amount > 0
SdkDecryptEncryptedNoteEnvelope(bytes, key, aad) ==
  LET plain == Open(bytes.ciphertext, key, bytes.nonce, aad)
  IN IF plain # None /\ SdkValidSpendMaterial(plain) THEN plain ELSE None

-----------------------------------------------------------------------------
(* Version 2: the withdraw-output envelope, padded to a fixed length.  Its  *)
(* compact payload is [amount, ownerCommitment, noteSecret, blinding].      *)

PaddedBytes == 256
AmountDigits == 18                      \* a whole number of finney, in wei
CompactPayloadBytes == 13 + AmountDigits + 3 * 64 + 16      \* JSON, digits, three words, tag

EncryptCompactOutputNoteV2Payload(key, aad, plain) ==
  [nonce |-> "n24", bytes |-> CompactPayloadBytes,
   ciphertext |-> Seal(key, "n24", aad, [amount |-> plain.amount, secret |-> plain.secret])]

EnvelopeV2(d, c, nonce, ciphertext, bytes) ==
  [version |-> 2, chain |-> d.chain, contract |-> d.pool, commitment |-> c, nonce |-> nonce,
   ciphertext |-> ciphertext, size |-> bytes, padding |-> PaddedBytes - bytes]

\* None: the ciphertext exceeds the padded length and the builder throws
CreateEncryptedOutputNoteV2Envelope(d, c, payload) ==
  IF payload.bytes > PaddedBytes \/ d.chain \notin Chains THEN None
  ELSE EnvelopeV2(d, c, payload.nonce, payload.ciphertext, payload.bytes)
\* The SDK's builder is given no nonce by its caller: the envelope states zero.
SdkCreateEncryptedOutputNoteV2Envelope(d, c, payload) ==
  IF payload.bytes > PaddedBytes \/ d.chain \notin Chains THEN None
  ELSE EnvelopeV2(d, c, "zero", payload.ciphertext, payload.bytes)

V2ShapeOK(e) ==
  /\ e.version = 2
  /\ e.chain \in Chains
  /\ e.size > 0
  /\ e.size + e.padding = PaddedBytes
V2BoundTo(e, d, c) == e.chain = d.chain /\ e.contract = d.pool /\ e.commitment = c

ValidateEncryptedOutputNoteV2Envelope(bytes, d, c) == V2ShapeOK(bytes) /\ V2BoundTo(bytes, d, c)
SdkV2ShapeOK(e) == e.version = 2 /\ e.chain \in Chains /\ e.size > 0 /\ e.size + e.padding = PaddedBytes
SdkValidateEncryptedOutputNoteV2Envelope(bytes, d, c) == SdkV2ShapeOK(bytes) /\ V2BoundTo(bytes, d, c)

\* Bytes that are no envelope: an empty note and a note of random bytes.
Empty == [version |-> 0, empty |-> TRUE]
Garbage == [version |-> 0, empty |-> FALSE]
=============================================================================
