---------------------------- MODULE NoteRecovery ----------------------------
(***************************************************************************)
(* How a wallet finds its notes again, in the web application              *)
(* (apps/web/src/product/onChainNoteRecovery.ts) and in the SDK            *)
(* (packages/sdk/src/recovery, packages/sdk/src/notes/recover.ts), and the *)
(* recovery kits of both.                                                  *)
(*                                                                         *)
(* The pool's note events are a sequence, one in every other block.        *)
(* Anybody may write one with any bytes.  A scan reads the head, then the logs in  *)
(* chunks, then opens event after event and looks each nullifier up, while *)
(* the chain moves on and requests fail.                                   *)
(***************************************************************************)
EXTENDS NoteEnvelopes, Sequences, FiniteSets

CONSTANTS
  Wallets,
  Scanners,     \* bound: the wallets that scan, and that used earlier releases
  D,            \* the deployment the clients are configured for
  Elsewhere,    \* another deployment, whose notes may be copied here
  SdkRuntimeId, \* runtime.productVersion of the SDK
  WebRuntimeId, \* recoveryKitRuntimeId of the web application
  ChunkSize,    \* logChunkSize
  MaxLogs       \* bound: note events

Material == [amount : Nat, secret : Nat]
SpendMaterials == [chain : Chains, pool : {D.pool}, amount : Nat, secret : Nat, commitment : Material]
NoteKeys ==
  [from : {DeriveWalletRecoveryKey(RequestWalletRecoverySignature(w, D), D, app) : w \in Wallets, app \in AppIds},
   salt : {EpochId(D.chain), LegacyEpochId}, info : Material]
Labels == {"deposit", "withdraw", "withdraw-change", "withdraw-output"}
RecoveryAssociatedData ==
  [chain : {D.chain}, pool : {<<D.pool, D.spelling>>}, action : Labels, commitment : Material, encryptionVersion : {1}]
Sealed ==
  [key : NoteKeys, nonce : {"n12", "n24", "zero"}, aad : RecoveryAssociatedData, plain : Material \cup SpendMaterials]
EnvelopesV1 == [version : {1}, nonce : {"n12"}, ciphertext : Sealed]
NoteRecords == [leaf : Nat, amount : Nat, secret : Nat, commitment : Material, spent : BOOLEAN]

ASSUME RecoveryConstants ==
  /\ ChunkSize \in Nat \ {0}
  /\ MaxLogs \in Nat
  /\ Scanners \subseteq Wallets
  /\ D.chain \in Chains
  /\ D.chain # Elsewhere.chain \/ D.pool # Elsewhere.pool \/ D.spelling # Elsewhere.spelling

\* None is no wallet and no value of the formats.
ASSUME NoneIsNoValue ==
  /\ None \notin Wallets
  /\ None \notin Material
  /\ None \notin SpendMaterials
  /\ None \notin Sealed
  /\ None \notin EnvelopesV1
  /\ None \notin NoteRecords

VARIABLES
  logs,     \* note events: [action, version, commitment, bytes, owner, note]
  spentLeaves,  \* leaves whose nullifier the pool has recorded
  scan,     \* the running scan
  kit,      \* a recovery kit file
  outcome   \* the last kit import: [by, kit, evidence, note]

noteRecoveryVars == <<logs, spentLeaves, scan, kit, outcome>>

Readers == {"web", "sdk"}
Idle == [pc |-> "idle"]
Leaves == 0..(Len(logs) - 1)
BlockOf(i) == 2 * i - 1
HeadBlock == 2 * Len(logs)
NoteOf(i) == [amount |-> 1, secret |-> i]        \* fresh material: its own secret

-----------------------------------------------------------------------------
(* Writers.  `owner' and `note' are for the properties only: the wallet     *)
(* that is meant to find the note, and the note.                            *)

Emit(action, version, note, bytes, owner) ==
  logs' = Append(logs, [action |-> action, version |-> version, commitment |-> Commitment(note),
                        bytes |-> bytes, owner |-> owner, note |-> note])

Room == Len(logs) < MaxLogs
Fresh == NoteOf(Len(logs) + 1)

\* encryptSpendMaterialForWalletRecovery, and the same in the deposit handler
EncryptSpendMaterialForWalletRecovery(w, note, action) ==
  LET key == DeriveNoteKey(DeriveWalletRecoveryKey(RequestWalletRecoverySignature(w, D), D, AppId),
                           Commitment(note), EpochId(D.chain))
  IN EncryptSpendMaterialEnvelope(key, MakeRecoveryAssociatedData(D, action, Commitment(note)),
                                  SpendMaterial(note, D))

WebDeposit(w) == Room /\ Emit("deposit", 1, Fresh, EncryptSpendMaterialForWalletRecovery(w, Fresh, "deposit"), w)
WebChange(w) ==
  Room /\ Emit("withdraw-change", 1, Fresh, EncryptSpendMaterialForWalletRecovery(w, Fresh, "withdraw-change"), w)

\* prepareDepositNote of the SDK
SdkDeposit(w) ==
  LET key == SdkDeriveNoteKey(SdkDeriveWalletRecoveryKey(SdkRequestWalletRecoverySignature(w, D), D, AppId),
                              Commitment(Fresh), SdkEpochId(D.chain))
  IN /\ Room
     /\ Emit("deposit", 1, Fresh,
             SdkEncryptSpendMaterialEnvelope(key, SdkMakeRecoveryAssociatedData(D, "deposit", Commitment(Fresh)),
                                             SpendMaterial(Fresh, D)), w)

\* encryptOutputNoteForWithdrawal: without an unlock signature, random bytes.
EncryptOutputNoteForWithdrawal(w, note) ==
  IF w = None THEN [nonce |-> "zero", bytes |-> 32, ciphertext |-> None]
  ELSE LET key == DeriveNoteKey(DeriveWalletRecoveryKey(RequestWalletRecoverySignature(w, D), D, AppId),
                                Commitment(note), EpochId(D.chain))
       IN EncryptCompactOutputNoteV2Payload(key, MakeRecoveryAssociatedData(D, "withdraw-output", Commitment(note)),
                                            SpendMaterial(note, D))

\* A withdrawal of the web application: change for the wallet, or the zero-value
\* output of a full exit with its dummy ciphertext (w = None).
WebOutput(w) ==
  LET note == IF w = None THEN [Fresh EXCEPT !.amount = 0] ELSE Fresh
      bytes == CreateEncryptedOutputNoteV2Envelope(D, Commitment(note), EncryptOutputNoteForWithdrawal(w, note))
  IN Room /\ bytes # None /\ Emit("withdraw-output", 2, note, bytes, w)

\* A withdrawal of the SDK: its caller encrypts (encryptOutputNote) under a nonce
\* of its choice, which the envelope cannot carry.
SdkOutput(w, nonce) ==
  LET key == DeriveNoteKey(DeriveWalletRecoveryKey(RequestWalletRecoverySignature(w, D), D, AppId),
                           Commitment(Fresh), EpochId(D.chain))
      sealed == EncryptCompactOutputNoteV2Payload(key,
                  MakeRecoveryAssociatedData(D, "withdraw-output", Commitment(Fresh)), SpendMaterial(Fresh, D))
      payload == [nonce |-> nonce, bytes |-> sealed.bytes, ciphertext |-> [sealed.ciphertext EXCEPT !.nonce = nonce]]
      bytes == SdkCreateEncryptedOutputNoteV2Envelope(D, Commitment(Fresh), payload)
  IN Room /\ bytes # None /\ Emit("withdraw-output", 2, Fresh, bytes, IF nonce = "zero" THEN w ELSE None)

\* Earlier releases: the old application id, epoch and action labels.
LegacyLabels == [action : {"deposit"}, label : {"deposit"}]
  \cup [action : {"withdraw-change"}, label : {"withdraw-change", "withdraw"}]
  \cup [action : {"withdraw-output"}, label : {"withdraw-output", "withdraw-change", "withdraw"}]

LegacyNote(w, app, epoch, form) ==
  LET key == DeriveNoteKey(DeriveWalletRecoveryKey(RequestWalletRecoverySignature(w, D), D, app),
                           Commitment(Fresh), epoch)
  IN /\ Room
     /\ Emit(form.action, 1, Fresh,
             EncryptSpendMaterialEnvelope(key, MakeRecoveryAssociatedData(D, form.label, Commitment(Fresh)),
                                          SpendMaterial(Fresh, D)), w)

\* Bytes from anywhere: none, random ones, those of another event, the wallet's
\* own envelope of another deployment, or material that is not of the commitment.
StrayBytes(w) ==
  LET sealed(d, c, plain) ==
        EncryptSpendMaterialEnvelope(
          DeriveNoteKey(DeriveWalletRecoveryKey(RequestWalletRecoverySignature(w, d), d, AppId), c, EpochId(d.chain)),
          MakeRecoveryAssociatedData(d, "deposit", c), plain)
  IN {Empty, Garbage} \cup {logs[i].bytes : i \in 1..Len(logs)}
     \cup {sealed(Elsewhere, Commitment(Fresh), SpendMaterial(Fresh, Elsewhere)),
           sealed(D, Commitment(Fresh), SpendMaterial(NoteOf(0), D))}
StrayNote(bytes) ==
  /\ Room
  /\ \E kind \in {<<"deposit", 1>>, <<"withdraw-output", 2>>} : Emit(kind[1], kind[2], Fresh, bytes, None)

Spend(leaf) == kit = None /\ leaf \in Leaves \ spentLeaves /\ spentLeaves' = spentLeaves \cup {leaf}

-----------------------------------------------------------------------------
(* The web application opens an event.                                      *)

CompatibleActions(action) ==
  CASE action = "withdraw-output" -> {"withdraw-output", "withdraw-change", "withdraw"}
    [] action = "withdraw-change" -> {"withdraw-change", "withdraw"}
    [] OTHER -> {action}

Opened(plains) == IF plains \subseteq {None} THEN None ELSE CHOOSE p \in plains : p # None

\* tryDecryptV2OutputEvent with decryptCompactOutputNoteV2Payload
TryDecryptV2OutputEvent(e, keys) ==
  LET opened == Opened({Open(e.bytes.ciphertext, DeriveNoteKey(rk, e.commitment, epoch), e.bytes.nonce,
                             MakeRecoveryAssociatedData(D, "withdraw-output", e.commitment)) :
                        rk \in keys, epoch \in {EpochId(D.chain), LegacyEpochId}})
  IN IF ~ValidateEncryptedOutputNoteV2Envelope(e.bytes, D, e.commitment) \/ opened = None THEN None
     ELSE [chain |-> D.chain, pool |-> D.pool, amount |-> opened.amount, secret |-> opened.secret,
           commitment |-> e.commitment]

TryDecryptEvent(e, keys) ==
  IF e.action = "withdraw-output" /\ e.version = 2 THEN TryDecryptV2OutputEvent(e, keys)
  ELSE IF ParseEncryptedNoteEnvelope(e.bytes) = None THEN None
  ELSE Opened({DecryptEncryptedNoteEnvelope(e.bytes, DeriveNoteKey(rk, e.commitment, epoch),
                                            MakeRecoveryAssociatedData(D, action, e.commitment)) :
               rk \in keys, epoch \in {EpochId(D.chain), LegacyEpochId}, action \in CompatibleActions(e.action)})

RecoveryKeys(w) == {DeriveWalletRecoveryKey(RequestWalletRecoverySignature(w, D), D, app) : app \in AppIds}

\* createSandboxSpendMaterialNoteRecord accepts material worth at least one wei.
CreateNoteRecord(plain, leaf, c, isSpent) ==
  [leaf |-> leaf, amount |-> plain.amount, secret |-> plain.secret, commitment |-> c, spent |-> isSpent]

\* recoverWalletNoteFromLogWithContext: the note, or None; every exception is None.
WebOpens(e, w) ==
  LET plain == IF e.bytes = Empty THEN None ELSE TryDecryptEvent(e, RecoveryKeys(w))
  IN IF plain # None /\ Commitment(plain) = e.commitment /\ plain.amount > 0 THEN plain ELSE None

-----------------------------------------------------------------------------
(* The SDK opens an event.                                                  *)

\* validateEncryptedOutputNoteV2Events: the well-formed version 2 outputs, unopened
ValidatedOutputs(events) ==
  {i \in events : /\ logs[i].action = "withdraw-output" /\ logs[i].version = 2
                  /\ SdkValidateEncryptedOutputNoteV2Envelope(logs[i].bytes, D, logs[i].commitment)}

\* A version 2 output is validated and left closed, whatever it holds.
SdkTryDecryptEvent(e, keys) ==
  IF e.bytes = Empty \/ (e.action = "withdraw-output" /\ e.version = 2) THEN None
  ELSE IF SdkParseEncryptedNoteEnvelope(e.bytes) = None THEN None
  ELSE Opened({SdkDecryptEncryptedNoteEnvelope(e.bytes, SdkDeriveNoteKey(rk, e.commitment, epoch),
                                               SdkMakeRecoveryAssociatedData(D, action, e.commitment)) :
               rk \in keys, epoch \in {SdkEpochId(D.chain), LegacyEpochId}, action \in CompatibleActions(e.action)})

SdkRecoveryKeys(w) == {SdkDeriveWalletRecoveryKey(SdkRequestWalletRecoverySignature(w, D), D, app) : app \in AppIds}

SdkOpens(e, w) ==
  LET plain == SdkTryDecryptEvent(e, SdkRecoveryKeys(w))
  IN IF plain # None /\ plain.chain = D.chain /\ plain.pool = D.pool /\ Commitment(plain) = e.commitment
     THEN plain ELSE None

Opens(r, e, w) == IF r = "web" THEN WebOpens(e, w) ELSE SdkOpens(e, w)

-----------------------------------------------------------------------------
(* A scan.                                                                  *)

StartScan(r, w) ==
  /\ scan.pc = "idle" /\ kit = None
  /\ scan' = [pc |-> "head", reader |-> r, wallet |-> w, spentBefore |-> spentLeaves]
  /\ UNCHANGED <<logs, spentLeaves, kit, outcome>>

\* eth_blockNumber; the chain may grow afterwards.
ReadHead ==
  /\ scan.pc = "head"
  /\ scan' = [pc |-> "logs", reader |-> scan.reader, wallet |-> scan.wallet, spentBefore |-> scan.spentBefore,
              head |-> HeadBlock, cursor |-> 1, fetched |-> {}]
  /\ UNCHANGED <<logs, spentLeaves, kit, outcome>>

ChunkEnd(start) == IF start + ChunkSize > scan.head THEN scan.head ELSE start + ChunkSize
NextChunk_Overlooks(r, start) == start + ChunkSize + 2
NextChunk(r, start) == IF r = "web" THEN start + ChunkSize + 1 ELSE ChunkEnd(start) + 1

\* fetchNoteLogsInChunks, fetchNoteEventLogs
FetchChunk ==
  /\ scan.pc = "logs" /\ scan.cursor <= scan.head
  /\ scan' = [scan EXCEPT !.fetched = @ \cup {i \in 1..Len(logs) : BlockOf(i) \in scan.cursor..ChunkEnd(scan.cursor)},
                          !.cursor = NextChunk(scan.reader, scan.cursor)]
  /\ UNCHANGED <<logs, spentLeaves, kit, outcome>>

LogsFetched ==
  /\ scan.pc = "logs" /\ scan.cursor > scan.head
  /\ scan' = [pc |-> "events", reader |-> scan.reader, wallet |-> scan.wallet, spentBefore |-> scan.spentBefore,
              head |-> scan.head, todo |-> scan.fetched, found |-> {}, blind |-> {}]
  /\ UNCHANGED <<logs, spentLeaves, kit, outcome>>

Earliest(events) == CHOOSE b \in events : \A c \in events : b <= c

\* spentNullifiers(nullifier) at the latest block
IsNullifierSpent_NextLeaf(leaf) == leaf + 1 \in spentLeaves
IsNullifierSpent(leaf) == leaf \in spentLeaves

\* One event, in order.  The web application takes a failed nullifier lookup for
\* "unspent" (the leaf is then `blind'); the SDK gives the scan up.
OpenEvent(lookup) ==
  /\ scan.pc = "events" /\ scan.todo # {}
  /\ LET b == Earliest(scan.todo)
         plain == Opens(scan.reader, logs[b], scan.wallet)
         isSpent == lookup /\ IsNullifierSpent(b - 1)
     IN IF plain = None
        THEN lookup /\ scan' = [scan EXCEPT !.todo = @ \ {b}]
        ELSE /\ lookup \/ scan.reader = "web"
             /\ scan' = [scan EXCEPT !.todo = @ \ {b},
                           !.found = @ \cup {CreateNoteRecord(plain, b - 1, logs[b].commitment, isSpent)},
                           !.blind = IF lookup THEN @ ELSE @ \cup {b - 1}]
  /\ UNCHANGED <<logs, spentLeaves, kit, outcome>>

FinishScan ==
  /\ scan.pc = "events" /\ scan.todo = {}
  /\ scan' = [scan EXCEPT !.pc = "done"]
  /\ UNCHANGED <<logs, spentLeaves, kit, outcome>>

\* A request fails: the head, a chunk of logs or, for the SDK, a lookup.
ScanFails ==
  /\ scan.pc \in {"head", "logs"} \/ (scan.pc = "events" /\ scan.reader = "sdk")
  /\ scan' = Idle
  /\ UNCHANGED <<logs, spentLeaves, kit, outcome>>

-----------------------------------------------------------------------------
(* Recovery kits.                                                           *)

\* A kit's checksum covers every other field.  origin is for the properties.
Kit(maker, record, leafHint, note, intact) ==
  [by |-> maker, runtimeId |-> IF maker = "web" THEN WebRuntimeId ELSE SdkRuntimeId,
   chain |-> D.chain, pool |-> D.pool, amount |-> note.amount, secret |-> note.secret,
   commitment |-> record.commitment, leafHint |-> leafHint, checksumMatches |-> intact,
   origin |-> record]

\* createRecoveryKitV1FromNoteRecord; leafIndexHint: record.leafIndex ?? 0
CreateRecoveryKitV1FromNoteRecord(record, leafKnown) ==
  Kit("web", record, IF leafKnown THEN record.leaf ELSE 0, record, TRUE)
CreateRecoveryKitV1(record) == Kit("sdk", record, record.leaf, record, TRUE)

\* A web record made at deposit time does not know its leaf; a recovered one does.
ExportKit(leafKnown) ==
  /\ scan.pc = "done" /\ kit = None
  /\ \E record \in scan.found :
       kit' = IF scan.reader = "web" THEN CreateRecoveryKitV1FromNoteRecord(record, leafKnown)
              ELSE CreateRecoveryKitV1(record)
  /\ scan' = Idle
  /\ UNCHANGED <<logs, spentLeaves, outcome>>

\* The file is damaged, or rewritten by hand with a matching checksum.
DamageKit(intact) ==
  /\ kit # None /\ outcome = None /\ kit.leafHint < MaxLogs
  /\ \/ kit' = Kit(kit.by, kit.origin, kit.leafHint, NoteOf(0), intact)
     \/ kit' = Kit(kit.by, kit.origin, kit.leafHint + 1, kit, intact)
  /\ UNCHANGED <<logs, spentLeaves, scan, outcome>>

ValidateRecoveryKitV1(k) == k.checksumMatches /\ k.chain \in Chains /\ k.amount > 0
SdkValidateRecoveryKitV1(k) == k.checksumMatches /\ k.chain > 0 /\ k.amount > 0

\* resolveExpectedNoteRecordDeployment
ForThisDeployment(k) == k.chain = D.chain /\ k.pool = D.pool

\* parseRecoveryKitV1ToNoteRecord: the record says its commitment is derived.
ParseRecoveryKitV1ToNoteRecord(k) ==
  IF ValidateRecoveryKitV1(k) /\ ForThisDeployment(k)
  THEN CreateNoteRecord(k, k.leafHint, k.commitment, FALSE) ELSE None

AssertRecoveryKitMatchesRuntime(k) == k.chain = D.chain /\ k.pool = D.pool /\ k.runtimeId = SdkRuntimeId

\* Evidence: the leaf of the kit's commitment in the accepted roots, or None,
\* which only a testnet import may lack.
AssertRecoveryKitRootAcceptedEvidence_AnyLeaf(k, evidence) == evidence # None \/ D.chain # 4326
AssertRecoveryKitRootAcceptedEvidence(k, evidence) ==
  IF evidence = None THEN D.chain # 4326
  ELSE evidence.commitment = k.commitment /\ evidence.leaf = k.leafHint

\* importRecoveryKitV1ToSpendableNote
ImportRecoveryKitV1ToSpendableNote(k, evidence) ==
  IF /\ SdkValidateRecoveryKitV1(k) /\ AssertRecoveryKitMatchesRuntime(k)
     /\ AssertRecoveryKitRootAcceptedEvidence(k, evidence)
     /\ Commitment(k) = k.commitment
  THEN CreateNoteRecord(k, k.leafHint, k.commitment, IsNullifierSpent(k.leafHint)) ELSE None

Evidences == {None} \cup {[commitment |-> logs[i].commitment, leaf |-> i - 1] : i \in 1..Len(logs)}

ImportKit(r, evidence) ==
  /\ kit # None /\ outcome = None
  /\ r = "web" => evidence = None
  /\ outcome' = [by |-> r, kit |-> kit, evidence |-> evidence,
                 note |-> IF r = "web" THEN ParseRecoveryKitV1ToNoteRecord(kit)
                          ELSE ImportRecoveryKitV1ToSpendableNote(kit, evidence)]
  /\ UNCHANGED <<logs, spentLeaves, scan, kit>>

-----------------------------------------------------------------------------
NoteRecoveryInit == logs = <<>> /\ spentLeaves = {} /\ scan = Idle /\ kit = None /\ outcome = None

\* Bound: the chain and the readers rest while a kit is about.
Write ==
  /\ kit = None
  /\ \/ \E w \in Wallets : WebDeposit(w) \/ SdkDeposit(w) \/ WebChange(w)
     \/ \E w \in Wallets \cup {None} : WebOutput(w)
     \/ \E w \in Wallets, nonce \in {"zero", "n24"} : SdkOutput(w, nonce)
     \/ \E w \in Scanners, app \in AppIds, epoch \in {EpochId(D.chain), LegacyEpochId}, form \in LegacyLabels :
          LegacyNote(w, app, epoch, form)
     \/ \E w \in Scanners : \E bytes \in StrayBytes(w) : StrayNote(bytes)
  /\ UNCHANGED <<spentLeaves, scan, kit, outcome>>

NoteRecoveryNext ==
  \/ Write
  \/ \E leaf \in Leaves : Spend(leaf) /\ UNCHANGED <<logs, scan, kit, outcome>>
  \/ \E r \in Readers, w \in Scanners : StartScan(r, w)
  \/ ReadHead \/ FetchChunk \/ LogsFetched \/ FinishScan \/ ScanFails
  \/ \E lookup \in BOOLEAN : OpenEvent(lookup)
  \/ \E leafKnown \in BOOLEAN : ExportKit(leafKnown)
  \/ \E intact \in BOOLEAN : DamageKit(intact)
  \/ \E r \in Readers, evidence \in Evidences : ImportKit(r, evidence)

NoteRecoverySpec == NoteRecoveryInit /\ [][NoteRecoveryNext]_noteRecoveryVars

-----------------------------------------------------------------------------
(* Properties.                                                              *)

\* What a client can be expected to find among the events up to a block.
Findable(r, w, head) ==
  {b \in 1..Len(logs) : BlockOf(b) <= head /\ logs[b].owner = w /\ (r = "sdk" => logs[b].version = 1)}

\* A finished scan has found, with their material and leaves, exactly the notes
\* written for its wallet up to the block it read as the head: by either client,
\* by earlier releases, in any chunking, and whatever other bytes the events
\* hold.  The SDK leaves version 2 outputs closed, but validates every one that
\* was written for a wallet.
NotesFound ==
  scan.pc = "done" =>
    /\ {b \in 1..Len(logs) : logs[b].version = 2 /\ logs[b].owner \in Wallets} \subseteq ValidatedOutputs(1..Len(logs))
    /\ {[leaf |-> r.leaf, note |-> [amount |-> r.amount, secret |-> r.secret]] : r \in scan.found}
      = {[leaf |-> b - 1, note |-> logs[b].note] : b \in Findable(scan.reader, scan.wallet, scan.head)}

\* A note the scan reports spent is spent; a note that was spent before the scan
\* began is reported so, unless the web application's lookup failed, in which
\* case it is offered as spendable.
SpentMarksTrue ==
  scan.pc = "done" =>
    \A r \in scan.found :
      /\ r.spent => r.leaf \in spentLeaves
      /\ r.leaf \in scan.spentBefore \ scan.blind => r.spent

\* A kit that was damaged is imported by nobody.  The SDK imports only material
\* of the kit's commitment and, on mainnet, only at that commitment's leaf, even
\* if somebody rewrote the kit with a matching checksum.  An untouched kit with a
\* known leaf is accepted by the client that made it.
KitsImportFaithfully ==
  outcome # None =>
    LET k == outcome.kit
        n == outcome.note
        untouched == k.checksumMatches /\ Commitment(k) = k.commitment
    IN /\ n # None => k.checksumMatches
       /\ n # None /\ outcome.by = "sdk" =>
            /\ Commitment(n) = n.commitment
            /\ D.chain = 4326 => n.leaf \in Leaves /\ logs[n.leaf + 1].commitment = n.commitment
       /\ untouched /\ outcome.by = k.by /\ k.leafHint = k.origin.leaf
            /\ (k.by = "sdk" => outcome.evidence # None /\ outcome.evidence.leaf = k.leafHint) => n # None
=============================================================================
