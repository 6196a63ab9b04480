---------------------------- MODULE WalletPanel ----------------------------
(***************************************************************************)
(* The web application's panel (apps/web/src/product/                      *)
(* ShieldedTransfersPanel.tsx): one React component whose asynchronous     *)
(* handlers interleave with each other, with the user's clicks, with the   *)
(* log subscription and with the chain.                                    *)
(*                                                                         *)
(*  - A handler under runAction (connect, deposit, the guided and the      *)
(*    manual withdrawal) excludes the others: it is `flow'.  Unlocking,    *)
(*    importing, selecting and disconnecting take no lock.                 *)
(*  - A handler works on the state of the render in which it was clicked:  *)
(*    what it captured is in the fields of its record.  What it reads      *)
(*    through a ref (the vault on recovery, the selected note) is current. *)
(*  - The vault is kept in the browser's storage and survives a reload.    *)
(*                                                                         *)
(* A note is its number; its data are what decides who can find it: the    *)
(* wallet whose recovery key its encrypted envelope was made with (None    *)
(* for random bytes) and the wallet whose money it holds.  Amounts are in  *)
(* units of the smallest denomination.                                     *)
(***************************************************************************)
EXTENDS Naturals, Sequences, FiniteSets

CONSTANTS
  Wallets,        \* accounts of the injected wallet
  None,           \* "" or null in the code
  Amounts,        \* deposit denominations, in units
  RootWindow,     \* roots the pool still accepts
  MaxNotes,       \* bound: notes ever created
  MaxReloads,     \* bound: reloads of the page
  Polls,          \* 20 receipt polls
  ProofAttempts,  \* WITHDRAWAL_PROOF_VERIFIER_ATTEMPTS
  UnlockIds,      \* bound: unlock handlers running at once
  Modes           \* the users and networks considered, see Mode

\* A withdrawal proof: the note it spends, its output (Dummy for a full exit),
\* the root it proves and whether the change can still be kept.
Bundles == [note : Nat, out : Nat, root : Nat, change : BOOLEAN]

ASSUME PanelConstants ==
  /\ None \notin Wallets \cup Nat \cup Bundles
  /\ Amounts \subseteq Nat \ {0}
  /\ RootWindow \in Nat \ {0} /\ Polls \in Nat \ {0} /\ ProofAttempts \in Nat \ {0}

\* patient: the user starts nothing new while a click of his is unanswered.
\* prompt: the subscription delivers a log before anybody sees the receipt.
\* reliable: no answer of the relayer is lost and receipts come within the polls.
\* imports: what the user pastes, kits or plain note records.
\* diagnostics: the development build with its manual controls.
\* clicks: bound on the user's clicks.
Mode == [patient : BOOLEAN, prompt : BOOLEAN, reliable : BOOLEAN, diagnostics : BOOLEAN,
         imports : SUBSET {"kit", "record"}, clicks : Nat]

ASSUME ModesAssumption == \A m \in Modes : m \in Mode

VARIABLES
  ui,        \* React state of the session
  vault,     \* noteVaultEntries and its copy in localStorage: note -> entry
  flow,      \* the handler that holds actionInFlightRef
  unlocks,   \* running unlockPrivateBalance calls
  live,      \* running recoverWalletNoteFromLog calls: [note, wallet]
  notes,     \* spend material ever created: [amount, key, owner]
  chain,     \* the pool: leaves, spent notes, pending and executed transactions
  feed,      \* logs the subscription has not delivered yet
  files,     \* kits and records the user has saved
  imported,  \* notes pasted in this session (observation)
  clicks, reloads, mode

vars == <<ui, vault, flow, unlocks, live, notes, chain, feed, files, imported, clicks, reloads, mode>>

Ids == 1..MaxNotes
Dummy == 0                     \* the zero-value output of a full exit
NoLeaf == MaxNotes * 2 + 1     \* leafIndex: null
Idle == [pc |-> "idle"]

-----------------------------------------------------------------------------
(* The pool as the panel sees it.                                          *)

Inserted(n) == \E i \in 1..Len(chain.leaves) : chain.leaves[i] = n
Position(n) == CHOOSE i \in 1..Len(chain.leaves) : chain.leaves[i] = n
LeafOf(n) == Position(n) - 1
RootIsAccepted(k) == k \in 1..Len(chain.leaves) /\ k + RootWindow > Len(chain.leaves)
Mined(tx, ok) == [tx |-> tx, ok |-> ok] \in chain.receipts
HasReceipt(tx) == Mined(tx, TRUE) \/ Mined(tx, FALSE)

Broadcast(tx) == IF HasReceipt(tx) THEN chain ELSE [chain EXCEPT !.pending = @ \cup {tx}]

\* A pending transaction executes, or reverts: its note is spent or its root has expired.
Mine(tx) ==
  LET ok == tx.spends = None \/ (tx.spends \notin chain.spent /\ RootIsAccepted(tx.root))
  IN /\ tx \in chain.pending
     /\ chain' = [chain EXCEPT
          !.pending = @ \ {tx},
          !.receipts = @ \cup {[tx |-> tx, ok |-> ok]},
          !.spent = IF ok /\ tx.spends # None THEN @ \cup {tx.spends} ELSE @,
          !.leaves = IF ok THEN Append(@, tx.creates) ELSE @]
     /\ feed' = feed \cup
          (IF ~ok THEN {}
           ELSE (IF tx.spends = None THEN {} ELSE {[topic |-> "NullifierSpent", note |-> tx.spends]})
                \cup (IF tx.creates = Dummy THEN {} ELSE {[topic |-> "NoteCreated", note |-> tx.creates]}))
     /\ UNCHANGED <<ui, vault, flow, unlocks, live, notes, files, imported, clicks, reloads, mode>>

-----------------------------------------------------------------------------
(* The note vault.                                                         *)

Entry == [spent : BOOLEAN, route : {"local-note", "recovery-kit"}, leaf : 0..NoLeaf]

UpsertSandboxNoteVaultRecord(entries, n, route, leaf) ==
  [m \in DOMAIN entries \cup {n} |->
     IF m # n THEN entries[m]
     ELSE [spent |-> n \in DOMAIN entries /\ entries[n].spent, route |-> route, leaf |-> leaf]]

MarkSandboxNoteVaultRecordSpent(entries, n) ==
  IF n \in DOMAIN entries THEN [entries EXCEPT ![n].spent = TRUE] ELSE entries

Available(entries, shown) == {n \in DOMAIN entries \cap shown : ~entries[n].spent}

SmallestCovering(entries, shown, gross) ==
  LET fit == {n \in Available(entries, shown) : notes[n].amount >= gross}
  IN {n \in fit : \A m \in fit : notes[n].amount <= notes[m].amount}

LargestAvailable(entries, shown) ==
  {n \in Available(entries, shown) : \A m \in Available(entries, shown) : notes[m].amount <= notes[n].amount}

\* exitChoicesForNoteRecord and selectedWithdrawalGrossAmountWei
GrossFor(entries, n, requested) ==
  IF entries[n].route = "recovery-kit" \/ requested > notes[n].amount
  THEN notes[n].amount ELSE requested

-----------------------------------------------------------------------------
(* Session state.                                                          *)

FreshSession ==
  [account |-> None, signature |-> None, visible |-> {}, selected |-> None,
   bundle |-> None, scanFailed |-> FALSE, unlocking |-> FALSE]

ClearWithdrawalProofBundle(u) == [u EXCEPT !.bundle = None]
ClearSelectedSessionNote_KeepsVisible(u) == [u EXCEPT !.selected = None, !.scanFailed = FALSE]
ClearSelectedSessionNote(u) == [u EXCEPT !.visible = {}, !.selected = None, !.scanFailed = FALSE]
Show(u, n) == [u EXCEPT !.visible = @ \cup {n}]
SelectNoteRecordForWithdrawal_IfNone(u, n) == [u EXCEPT !.selected = IF @ = None THEN n ELSE @]
SelectNoteRecordForWithdrawal(u, n) == [u EXCEPT !.selected = n]
Status(u) == [u EXCEPT !.unlocking = FALSE]     \* a status that hides the unlock's own

Init ==
  /\ mode \in Modes
  /\ ui = FreshSession
  /\ vault = << >>
  /\ flow = Idle
  /\ unlocks = [i \in UnlockIds |-> Idle]
  /\ live = {}
  /\ \E w \in Wallets, a \in Amounts : notes = <<[amount |-> a, key |-> w, owner |-> w]>>
  /\ chain = [leaves |-> <<1>>, spent |-> {}, pending |-> {}, receipts |-> {}]
  /\ feed = {} /\ files = {} /\ imported = {}
  /\ clicks = 0 /\ reloads = 0

NothingPending == flow = Idle /\ live = {} /\ \A i \in UnlockIds : unlocks[i] = Idle

Click ==
  /\ clicks < mode.clicks
  /\ mode.patient => NothingPending
  /\ clicks' = clicks + 1
  /\ UNCHANGED <<reloads, mode>>

Quiet == UNCHANGED <<clicks, reloads, mode>>
-----------------------------------------------------------------------------
(* Wallet sessions: connect, disconnect, unlock, reload.                   *)

ConnectWallet ==
  /\ Click /\ flow = Idle
  /\ flow' = [pc |-> "connect", account |-> ui.account]
  /\ ui' = Status(ui)
  /\ UNCHANGED <<vault, unlocks, live, notes, chain, feed, files, imported>>

SwitchAccount_KeepsSignature(u, previous, next) ==
  IF next = previous THEN [u EXCEPT !.account = next]
  ELSE ClearSelectedSessionNote(ClearWithdrawalProofBundle([u EXCEPT !.account = next]))

\* setAccount; another account than the one at the click ends its session.
SwitchAccount(u, previous, next) ==
  IF next = previous THEN [u EXCEPT !.account = next]
  ELSE ClearSelectedSessionNote(ClearWithdrawalProofBundle(
         [u EXCEPT !.account = next, !.signature = None]))

WalletAnswersConnect ==
  /\ flow.pc = "connect"
  /\ \/ \E w \in Wallets : ui' = Status(SwitchAccount(ui, flow.account, w))
     \/ ui' = Status(ui)                     \* the request is rejected
  /\ flow' = Idle
  /\ Quiet /\ UNCHANGED <<vault, unlocks, live, notes, chain, feed, files, imported>>

DisconnectWallet ==
  /\ Click /\ ui.account # None
  /\ ui' = Status(SwitchAccount(ui, ui.account, None))
  /\ UNCHANGED <<vault, flow, unlocks, live, notes, chain, feed, files, imported>>

Unlocking(u) == [u EXCEPT !.unlocking = TRUE]

UnlockPrivateBalance(i) ==
  /\ Click /\ flow = Idle /\ ~ui.unlocking /\ unlocks[i] = Idle
  /\ unlocks' = [unlocks EXCEPT ![i] =
       IF ui.account = None THEN [pc |-> "account"] ELSE [pc |-> "sign", wallet |-> ui.account]]
  /\ ui' = Unlocking(ui)
  /\ UNCHANGED <<vault, flow, live, notes, chain, feed, files, imported>>

\* eth_requestAccounts: the account is set without ending a session.
UnlockGetsAccount(i) ==
  /\ unlocks[i].pc = "account"
  /\ \/ \E w \in Wallets : /\ ui' = Unlocking([ui EXCEPT !.account = w])
                           /\ unlocks' = [unlocks EXCEPT ![i] = [pc |-> "sign", wallet |-> w]]
     \/ ui' = Status(ui) /\ unlocks' = [unlocks EXCEPT ![i] = Idle]
  /\ Quiet /\ UNCHANGED <<vault, flow, live, notes, chain, feed, files, imported>>

UnlockGetsSignature(i) ==
  /\ unlocks[i].pc = "sign"
  /\ \/ /\ ui' = Unlocking([ui EXCEPT !.signature = unlocks[i].wallet])
        /\ unlocks' = [unlocks EXCEPT ![i].pc = "scan"]
     \/ ui' = Status(ui) /\ unlocks' = [unlocks EXCEPT ![i] = Idle]
  /\ Quiet /\ UNCHANGED <<vault, flow, live, notes, chain, feed, files, imported>>

\* recoverWalletNotesFromChain: notes in the logs that decrypt under the key,
\* each with its leaf and with what isNullifierSpent says.
Found(w) == {n \in Ids \cap 1..Len(notes) : Inserted(n) /\ notes[n].key = w}
\* A lookup that fails says unspent.
Recovered(ns, failed) == [n \in ns |-> [leaf |-> LeafOf(n), spent |-> n \in chain.spent \ failed]]

UnlockScans(i) ==
  /\ unlocks[i].pc = "scan"
  /\ \/ /\ \E failed \in SUBSET (chain.spent \cap Found(unlocks[i].wallet)) :
             unlocks' = [unlocks EXCEPT ![i] =
               [pc |-> "ingest", found |-> Recovered(Found(unlocks[i].wallet), failed)]]
        /\ UNCHANGED ui
     \/ /\ ui' = Status([ui EXCEPT !.scanFailed = TRUE])
        /\ unlocks' = [unlocks EXCEPT ![i] = Idle]
  /\ Quiet /\ UNCHANGED <<vault, flow, live, notes, chain, feed, files, imported>>

\* ingestRecoveredNoteEntries works on noteVaultEntriesRef, the current vault.
Ingested(entries, found) ==
  [n \in DOMAIN entries \cup DOMAIN found |->
     IF n \notin DOMAIN found THEN entries[n]
     ELSE [spent |-> found[n].spent \/ (n \in DOMAIN entries /\ entries[n].spent),
           route |-> "local-note", leaf |-> found[n].leaf]]

FirstAvailable(found) ==
  LET free == {n \in DOMAIN found : ~found[n].spent}
  IN IF free = {} THEN None ELSE CHOOSE n \in free : \A m \in free : found[n].leaf <= found[m].leaf

UnlockIngests(i) ==
  LET found == unlocks[i].found
  IN /\ unlocks[i].pc = "ingest"
     /\ vault' = Ingested(vault, found)
     /\ ui' = Status([ui EXCEPT !.scanFailed = FALSE,
                        !.visible = IF found = << >> THEN @ ELSE DOMAIN found,
                        !.selected = IF found = << >> THEN @ ELSE FirstAvailable(found)])
     /\ unlocks' = [unlocks EXCEPT ![i] = Idle]
     /\ Quiet /\ UNCHANGED <<flow, live, notes, chain, feed, files, imported>>

\* A reload forgets everything but localStorage.
Reload ==
  /\ reloads < MaxReloads
  /\ mode.patient => NothingPending
  /\ reloads' = reloads + 1
  /\ ui' = FreshSession /\ flow' = Idle /\ live' = {} /\ feed' = {} /\ imported' = {}
  /\ unlocks' = [i \in UnlockIds |-> Idle]
  /\ UNCHANGED <<vault, notes, chain, files, clicks, mode>>

-----------------------------------------------------------------------------
(* The log subscription.                                                   *)

\* handleLiveLog, NullifierSpent: the log is compared with the nullifier of the
\* proof bundle, and the note that is selected is marked.
MarkedByLog(log) ==
  IF /\ ui.bundle # None /\ ui.bundle.note = log.note
     /\ ui.selected # None
  THEN MarkSandboxNoteVaultRecordSpent(vault, ui.selected) ELSE vault

HandleSpentLog(log) ==
  /\ log \in feed /\ log.topic = "NullifierSpent"
  /\ feed' = feed \ {log}
  /\ vault' = MarkedByLog(log)
  /\ Quiet /\ UNCHANGED <<ui, flow, unlocks, live, notes, chain, files, imported>>

HandleNoteLog(log) ==
  /\ log \in feed /\ log.topic = "NoteCreated"
  /\ feed' = feed \ {log}
  /\ live' = IF ui.signature = None THEN live
             ELSE live \cup {[note |-> log.note, wallet |-> ui.signature]}
  /\ Quiet /\ UNCHANGED <<ui, vault, flow, unlocks, notes, chain, files, imported>>

\* recoverWalletNoteFromLog resolves: to nothing when the note is of another key.
LiveNoteRecovered(r) ==
  LET found == Recovered({r.note}, {})
      opens == notes[r.note].key = r.wallet
      first == FirstAvailable(found)
      shown == Show(ui, r.note)
  IN /\ r \in live
     /\ live' = live \ {r}
     /\ vault' = IF opens THEN Ingested(vault, found) ELSE vault
     /\ ui' = IF ~opens THEN ui
              ELSE IF first = None THEN shown
              ELSE Status([shown EXCEPT !.scanFailed = FALSE,
                             !.selected = IF @ = None THEN first ELSE @])
     /\ Quiet /\ UNCHANGED <<flow, unlocks, notes, chain, feed, files, imported>>

-----------------------------------------------------------------------------
(* Deposits.  Account, signature and vault are those of the click.         *)

\* prompt: whoever sees a receipt has seen the logs too.
LogsSeen == mode.prompt => feed = {} /\ live = {}

Fails == flow' = Idle /\ ui' = Status(ui)

\* A rejected wallet prompt, a failing RPC request, a proof that cannot be
\* made, a refusal of the relayer: the error is shown and the lock released.
RequestFails ==
  /\ flow # Idle /\ (mode.reliable => flow.pc \notin {"receipt", "output"})
  /\ Fails
  /\ Quiet /\ UNCHANGED <<vault, unlocks, live, notes, chain, feed, files, imported>>

SendDeposit(a) ==
  /\ Click /\ flow = Idle
  /\ flow' = [pc |-> "deposit", amount |-> a, account |-> ui.account,
              signature |-> ui.signature, vault |-> vault]
  /\ ui' = Status(ui)
  /\ UNCHANGED <<vault, unlocks, live, notes, chain, feed, files, imported>>

MayDeposit(signature) == signature # None    \* unlock before depositing

\* The sender is found, the note made and encrypted, its proof generated.
DepositMaterial ==
  /\ flow.pc = "deposit"
  /\ \E sender \in IF flow.account = None THEN Wallets ELSE {flow.account} :
       /\ ui' = Status(IF flow.account = None THEN [ui EXCEPT !.account = sender] ELSE ui)
       /\ IF MayDeposit(flow.signature)
          THEN /\ Len(notes) < MaxNotes
               /\ notes' = Append(notes, [amount |-> flow.amount, key |-> flow.signature, owner |-> sender])
               /\ flow' = [pc |-> "confirm", out |-> Len(notes) + 1, vault |-> flow.vault]
          ELSE flow' = Idle /\ UNCHANGED notes
  /\ Quiet /\ UNCHANGED <<vault, unlocks, live, chain, feed, files, imported>>

DepositTx(n) == [spends |-> None, creates |-> n, root |-> 0]

DepositConfirmed ==
  /\ flow.pc = "confirm"
  /\ chain' = Broadcast(DepositTx(flow.out))
  /\ flow' = [kind |-> "deposit", pc |-> "receipt", tx |-> DepositTx(flow.out), polls |-> Polls,
              vault |-> flow.vault, out |-> flow.out]
  /\ ui' = Status(ui)
  /\ Quiet /\ UNCHANGED <<vault, unlocks, live, notes, feed, files, imported>>

ReceiptPoll_Forever ==
  /\ flow.pc = "receipt" /\ ~HasReceipt(flow.tx)
  /\ flow' = flow /\ UNCHANGED ui
  /\ Quiet /\ UNCHANGED <<vault, unlocks, live, notes, chain, feed, files, imported>>

\* waitForReceipt; with a reliable network the receipt comes before the last poll.
ReceiptPoll ==
  /\ flow.pc = "receipt" /\ ~HasReceipt(flow.tx)
  /\ \/ flow.polls > 1 /\ flow' = [flow EXCEPT !.polls = @ - 1] /\ UNCHANGED ui
     \/ flow.polls = 1 /\ ~mode.reliable /\ Fails
  /\ Quiet /\ UNCHANGED <<vault, unlocks, live, notes, chain, feed, files, imported>>

TransactionReverted ==
  /\ flow.pc = "receipt" /\ Mined(flow.tx, FALSE)
  /\ Fails
  /\ Quiet /\ UNCHANGED <<vault, unlocks, live, notes, chain, feed, files, imported>>

\* The bundle of an earlier withdrawal stays, without its private change.
ForgetPendingChange(u) ==
  [u EXCEPT !.bundle = IF @ = None THEN None ELSE [@ EXCEPT !.change = FALSE]]

DepositMined ==
  /\ flow.pc = "receipt" /\ flow.kind = "deposit"
  /\ Mined(flow.tx, TRUE) /\ LogsSeen
  /\ vault' = UpsertSandboxNoteVaultRecord(flow.vault, flow.out, "local-note", NoLeaf)
  /\ ui' = Status(ForgetPendingChange(SelectNoteRecordForWithdrawal(Show(ui, flow.out), flow.out)))
  /\ flow' = Idle
  /\ Quiet /\ UNCHANGED <<unlocks, live, notes, chain, feed, files, imported>>

-----------------------------------------------------------------------------
(* Withdrawals.                                                            *)

ScanHealthy == ~(ui.signature # None /\ ui.scanFailed)

\* The smallest note that covers the amount is selected and withdrawn, with
\* the signature, the vault and the visible notes of the click.
GuidedWithdrawal(requested) ==
  \E n \in SmallestCovering(vault, ui.visible, requested) :
    /\ Click /\ flow = Idle /\ ScanHealthy
    /\ flow' = [pc |-> "path", record |-> n, leaf |-> vault[n].leaf,
                gross |-> GrossFor(vault, n, requested),
                signature |-> ui.signature, vault |-> vault, shown |-> ui.visible]
    /\ ui' = Status(ClearWithdrawalProofBundle(SelectNoteRecordForWithdrawal(ui, n)))
    /\ UNCHANGED <<vault, unlocks, live, notes, chain, feed, files, imported>>

\* reconstructHintedAcceptedBrowserMerklePath: newest accepted root first; the
\* record's leaf index, when it has one, must be the leaf found.
PathFound(n, leaf) == Inserted(n) /\ leaf \in {NoLeaf, LeafOf(n)}

WithdrawalPath ==
  /\ flow.pc = "path" /\ PathFound(flow.record, flow.leaf)
  /\ flow' = [pc |-> "prove", record |-> flow.record, gross |-> flow.gross, signature |-> flow.signature,
              vault |-> flow.vault, shown |-> flow.shown, root |-> Len(chain.leaves), attempt |-> 1]
  /\ ui' = Status(ui)
  /\ Quiet /\ UNCHANGED <<vault, unlocks, live, notes, chain, feed, files, imported>>

\* The deployed verifier refuses the proof: it is made again.
ProofRefused ==
  /\ flow.pc = "prove"
  /\ \/ flow.attempt < ProofAttempts /\ flow' = [flow EXCEPT !.attempt = @ + 1] /\ ui' = Status(ui)
     \/ flow.attempt = ProofAttempts /\ Fails
  /\ Quiet /\ UNCHANGED <<vault, unlocks, live, notes, chain, feed, files, imported>>

\* encryptOutputNoteForWithdrawal: without a signature, random bytes.
OutputNote(n, gross, signature) ==
  [amount |-> notes[n].amount - gross, key |-> signature, owner |-> notes[n].owner]

\* buildWithdrawalProofBundle returns, applyWithdrawalProofBundle shows it.
ProofAccepted ==
  LET split == flow.gross < notes[flow.record].amount
      bundle == [note |-> flow.record, out |-> IF split THEN Len(notes) + 1 ELSE Dummy,
                 root |-> flow.root, change |-> split]
  IN /\ flow.pc = "prove"
     /\ split => Len(notes) < MaxNotes
     /\ notes' = IF split THEN Append(notes, OutputNote(flow.record, flow.gross, flow.signature)) ELSE notes
     /\ ui' = Status([ui EXCEPT !.bundle = bundle])
     /\ flow' = [kind |-> "guided", pc |-> "preflight", record |-> flow.record, bundle |-> bundle,
                 vault |-> flow.vault, shown |-> flow.shown]
     /\ Quiet /\ UNCHANGED <<vault, unlocks, live, chain, feed, files, imported>>

\* sendWithdrawal sends the bundle on the screen; what it will mark is the note
\* selected at the click.
ManualWithdrawal ==
  /\ Click /\ flow = Idle /\ ScanHealthy
  /\ mode.diagnostics /\ ui.bundle # None
  /\ IF ui.bundle.root = Len(chain.leaves)
     THEN flow' = [kind |-> "manual", pc |-> "preflight", record |-> ui.selected, bundle |-> ui.bundle,
                   vault |-> vault, shown |-> ui.visible]
     ELSE flow' = Idle
  /\ ui' = Status(ui)
  /\ UNCHANGED <<vault, unlocks, live, notes, chain, feed, files, imported>>

\* assertWithdrawalPreflightSucceeds: the pool would execute the withdrawal.
Preflight ==
  /\ flow.pc = "preflight"
  /\ RootIsAccepted(flow.bundle.root) /\ flow.bundle.note \notin chain.spent
  /\ flow' = [flow EXCEPT !.pc = "relay"]
  /\ ui' = Status(ui)
  /\ Quiet /\ UNCHANGED <<vault, unlocks, live, notes, chain, feed, files, imported>>

\* The path or the preflight is refused, or the bound on notes is reached.
CheckFails ==
  /\ \/ flow.pc = "path" /\ ~PathFound(flow.record, flow.leaf)
     \/ flow.pc = "preflight" /\ ~(RootIsAccepted(flow.bundle.root) /\ flow.bundle.note \notin chain.spent)
     \/ flow.pc \in {"deposit", "prove"} /\ Len(notes) = MaxNotes
  /\ Fails
  /\ Quiet /\ UNCHANGED <<vault, unlocks, live, notes, chain, feed, files, imported>>

WithdrawTx(b) == [spends |-> b.note, creates |-> b.out, root |-> b.root]

\* relayPoolTransaction; the answer may be lost although the relayer submitted.
Relay ==
  /\ flow.pc = "relay"
  /\ chain' = Broadcast(WithdrawTx(flow.bundle))
  /\ \/ ~mode.reliable /\ Fails
     \/ /\ flow' = [kind |-> flow.kind, pc |-> "receipt", tx |-> WithdrawTx(flow.bundle), polls |-> Polls,
                    record |-> flow.record, bundle |-> flow.bundle, vault |-> flow.vault, shown |-> flow.shown]
        /\ ui' = Status(ui)
  /\ Quiet /\ UNCHANGED <<vault, unlocks, live, notes, feed, files, imported>>

WithdrawalMined ==
  LET marked == IF flow.record = None THEN flow.vault
                ELSE MarkSandboxNoteVaultRecordSpent(flow.vault, flow.record)
  IN /\ flow.pc = "receipt" /\ flow.kind \in {"guided", "manual"}
     /\ Mined(flow.tx, TRUE) /\ LogsSeen
     /\ vault' = IF flow.record = None THEN vault ELSE marked
     /\ flow' = [kind |-> flow.kind, pc |-> "output", record |-> flow.record, bundle |-> flow.bundle,
                 vault |-> marked, shown |-> flow.shown]
     /\ ui' = Status(ui)
     /\ Quiet /\ UNCHANGED <<unlocks, live, notes, chain, feed, files, imported>>

\* selectNextUnspentNoteAfterWithdrawal
SelectNextUnspent(u, entries, shown) ==
  LET next == LargestAvailable(entries, shown)
  IN IF next = {} THEN {u}
     ELSE {ClearWithdrawalProofBundle(SelectNoteRecordForWithdrawal(Show(u, n), n)) : n \in next}

WithdrawalOutput ==
  /\ flow.pc = "output"
  /\ \/ /\ flow.bundle.change
        /\ vault' = UpsertSandboxNoteVaultRecord(flow.vault, flow.bundle.out, "local-note", NoLeaf)
        /\ ui' = Status(SelectNoteRecordForWithdrawal(Show(ui, flow.bundle.out), flow.bundle.out))
     \/ /\ ~flow.bundle.change /\ flow.kind = "guided"
        /\ \E u \in SelectNextUnspent(ui, flow.vault, flow.shown) : ui' = Status(u)
        /\ UNCHANGED vault
     \/ /\ ~flow.bundle.change /\ flow.kind = "manual"
        /\ ui' = Status(ui) /\ UNCHANGED vault
  /\ flow' = Idle
  /\ Quiet /\ UNCHANGED <<unlocks, live, notes, chain, feed, files, imported>>

-----------------------------------------------------------------------------
(* Selecting, saving and importing notes: no lock is taken.                *)

SelectPill(n) ==
  /\ Click /\ n \in Available(vault, ui.visible)
  /\ ui' = Status(ClearWithdrawalProofBundle(SelectNoteRecordForWithdrawal(ui, n)))
  /\ UNCHANGED <<vault, flow, unlocks, live, notes, chain, feed, files, imported>>

\* createRecoveryKitV1FromNoteRecord: leafIndexHint is record.leafIndex ?? 0.
LeafIndexHint(leaf) == IF leaf = NoLeaf THEN 0 ELSE leaf

DownloadRecoveryKit(n) ==
  /\ Click /\ n \in Available(vault, ui.visible)
  /\ files' = files \cup {[kind |-> "kit", note |-> n, leaf |-> LeafIndexHint(vault[n].leaf)]}
  /\ UNCHANGED <<ui, vault, flow, unlocks, live, notes, chain, feed, imported>>

\* The development build shows the record of the selected note.
CopyNoteRecord ==
  /\ Click /\ mode.diagnostics /\ ui.selected \in DOMAIN vault
  /\ files' = files \cup {[kind |-> "record", note |-> ui.selected, leaf |-> vault[ui.selected].leaf]}
  /\ UNCHANGED <<ui, vault, flow, unlocks, live, notes, chain, feed, imported>>

RouteOf(kind) == IF kind = "kit" THEN "recovery-kit" ELSE "local-note"

ImportNoteRecord(f) ==
  /\ Click /\ f \in files /\ f.kind \in mode.imports
  /\ vault' = UpsertSandboxNoteVaultRecord(vault, f.note, RouteOf(f.kind), f.leaf)
  /\ ui' = Status(SelectNoteRecordForWithdrawal(Show(ClearWithdrawalProofBundle(ui), f.note), f.note))
  /\ imported' = imported \cup {f.note}
  /\ UNCHANGED <<flow, unlocks, live, notes, chain, feed, files>>

\* Another exit amount or destination makes the proof on the screen useless.
EditWithdrawal ==
  /\ Click /\ ui.bundle # None
  /\ ui' = ClearWithdrawalProofBundle(ui)
  /\ UNCHANGED <<vault, flow, unlocks, live, notes, chain, feed, files, imported>>

-----------------------------------------------------------------------------
FlowStep ==
  \/ WalletAnswersConnect \/ CheckFails \/ DepositMaterial \/ DepositConfirmed
  \/ ReceiptPoll \/ TransactionReverted \/ DepositMined
  \/ WithdrawalPath \/ ProofRefused \/ ProofAccepted \/ Preflight \/ Relay
  \/ WithdrawalMined \/ WithdrawalOutput

UnlockStep(i) ==
  UnlockGetsAccount(i) \/ UnlockGetsSignature(i) \/ UnlockScans(i) \/ UnlockIngests(i)

LogStep ==
  \/ \E log \in feed : HandleSpentLog(log) \/ HandleNoteLog(log)
  \/ \E r \in live : LiveNoteRecovered(r)

MineStep == \E tx \in chain.pending : Mine(tx)

UserStep ==
  \/ ConnectWallet \/ DisconnectWallet \/ Reload \/ ManualWithdrawal \/ CopyNoteRecord \/ EditWithdrawal
  \/ \E i \in UnlockIds : UnlockPrivateBalance(i)
  \/ \E a \in Amounts : SendDeposit(a) \/ GuidedWithdrawal(a)
  \/ \E n \in Ids : SelectPill(n) \/ DownloadRecoveryKit(n)
  \/ \E f \in files : ImportNoteRecord(f)

Next == FlowStep \/ RequestFails \/ (\E i \in UnlockIds : UnlockStep(i)) \/ LogStep \/ MineStep \/ UserStep

Spec == Init /\ [][Next]_vars

\* Requests are answered: every handler runs on a promise of its own, and the
\* wallet closes its prompts.  Failures are never assumed, and a transaction is
\* certain to be mined only on a reliable network.
Fairness == WF_vars(FlowStep) /\ WF_vars(mode.reliable /\ MineStep) /\ WF_vars(mode.prompt /\ LogStep)
FairSpec == Spec /\ Fairness

-----------------------------------------------------------------------------
(* What holds for a user who waits, on a network without losses and delays. *)

Careful == mode.patient /\ mode.prompt /\ mode.reliable

\* Every note that reaches the pool is encrypted to the wallet whose money it
\* holds, over any sequence of connections, unlocks, deposits and exits, so that
\* this wallet alone recovers it (sendDeposit, encryptOutputNoteForWithdrawal).
NotesGoToTheirWallet ==
  Careful /\ "record" \notin mode.imports =>
    \A n \in 1..Len(notes) : Inserted(n) => notes[n].key = notes[n].owner

\* The balance shown belongs to the wallet that unlocked it or was imported by
\* hand: nothing of the vault or of an earlier account leaks into the session.
SessionIsolated ==
  Careful /\ "record" \notin mode.imports =>
    \A n \in ui.visible : n \in imported \/ notes[n].key = ui.signature

\* Without late logs and lost answers the vault calls no note spent that the
\* pool would still pay, however withdrawals, changes and live logs interleave.
MarksAreTrue ==
  Careful /\ ~mode.diagnostics =>
    \A n \in DOMAIN vault : vault[n].spent => n \in chain.spent

\* Whatever fails or never answers, the handler that holds the lock releases it:
\* the panel does not stay disabled (runAction, waitForReceipt, the proof loop).
FlowsEnd == (flow # Idle) ~> (flow = Idle)
=============================================================================
