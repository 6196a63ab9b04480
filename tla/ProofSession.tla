---------------------------- MODULE ProofSession ----------------------------
(***************************************************************************)
(* The clients that turn recovered notes into withdrawal calls: the SDK's  *)
(* Nullark object (packages/sdk/src/client/client.ts), the command line    *)
(* with its memory-only session (packages/cli/src/index.ts) and the        *)
(* browser's proving worker (apps/web/src/proving).  A behaviour follows   *)
(* one of them.  Each of its commands awaits several answers - fee reads,  *)
(* proving files, a prover, nullifier lookups - and between two of them    *)
(* the fee controller, the publisher of the proving files, other wallets   *)
(* and the same client's other commands go on.                             *)
(*                                                                         *)
(* A withdrawal call is its destination, amounts and bounds, the note it   *)
(* spends, the network its proof names and the circuit it was proved with. *)
(***************************************************************************)
EXTENDS FeePolicy, ProverArtifacts, FiniteSets

CONSTANTS
    Notes, NetOf, AmountOf,   \* the wallet's notes, their pool and amount
    Destinations,
    NoBound,                  \* the user left maxFeeWei or minNetAmountWei out
    UserBounds,               \* [max, min] pairs tried for them
    BPS_DENOMINATOR,          \* 10000 in the code
    MaxInFlight,              \* TLC bound: commands awaiting something at once
    MaxPublishes,             \* TLC bound: files replaced in a behaviour
    MaxPlans,                 \* TLC bound: plans of a session, prepared withdrawals
    WITHDRAWAL_PROOF_VERIFIER_ATTEMPTS  \* 3 in the code

ASSUME SessionAssumption ==
    /\ NetOf \in [Notes -> Networks]
    /\ AmountOf \in [Notes -> Nat]
    /\ UserBounds \subseteq [max : Nat \cup {NoBound}, min : Nat \cup {NoBound}]
    /\ BPS_DENOMINATOR \in Nat \ {0}

VARIABLES
    client,      \* [kind, net]: which client, on which network's runtime
    notes,       \* recoveredNotes: {[id, net, spent]}
    plans,       \* the command line's withdrawalPlans
    bundles,     \* its proofBundles, or the withdrawals the others prepared
    inFlight,    \* commands that await an answer
    overlapped,  \* history: two commands were in flight at the same time
    spent,       \* notes whose nullifier the pools have seen
    served,      \* the directory or web site with the proving files
    publishes,   \* number of files replaced so far
    witnessed,   \* history: {[net, circuit]} that the browser ran a prover with
    paid         \* history: {[bundle, charged]}: prepared withdrawals that a pool executed

sessionVars == <<client, notes, plans, bundles, inFlight, overlapped>>
worldVars == <<spent, served, publishes>>
historyVars == <<witnessed, paid>>
vars == <<feeVars, sessionVars, worldVars, historyVars>>

-----------------------------------------------------------------------------
FeeOf(gross, bps) == (gross * bps) \div BPS_DENOMINATOR

(* Only the v1.2 mainnet pool's fee is changed here; the testnet's stands, *)
(* and the v1.1 pool's is a constant.                                      *)
PoolFeeBps(net) == IF net = "mainnet" THEN feeBps ELSE INITIAL_FEE_BPS

(* A pool executes a call: the proof verifies under its key and names its  *)
(* chain and address and an unspent note of its own, the fee is the one it *)
(* charges now, and the bounds hold.                                       *)
Executable(call, net) ==
    LET charged == FeeOf(call.gross, PoolFeeBps(net)) IN
    /\ call.net = net /\ NetOf[call.note] = net
    /\ call.circuit = VerifyingKey(net)
    /\ call.note \notin spent
    /\ call.fee = charged
    /\ charged <= call.maxFee
    /\ call.gross - charged >= call.minNet

Summaries(ids) == {[id |-> n, net |-> NetOf[n], spent |-> n \in spent] : n \in ids}

-----------------------------------------------------------------------------
(* Faulty variants of the definitions below, for mutation checks.          *)
ProverFiles_Refetched(c) == [wasm |-> served["wasm"], zkey |-> served["zkey"]]
Replaced_KeepsProofs == plans' = <<>> /\ UNCHANGED bundles
WithinUserBounds_RuntimeFee(c, bps) ==
    LET fee == FeeOf(c.gross, INITIAL_FEE_BPS) IN
    /\ c.max # NoBound => fee <= c.max
    /\ c.min # NoBound => c.gross - fee >= c.min

-----------------------------------------------------------------------------
Init ==
    /\ FeeInit
    /\ client \in {[kind |-> "cli", net |-> "mainnet"], [kind |-> "web", net |-> "mainnet"],
                   [kind |-> "web", net |-> "testnet"]}
                  \cup [kind : {"sdk"}, net : {"mainnet", "legacy"}]
    /\ notes = {} /\ plans = <<>> /\ bundles = {}
    /\ inFlight = {} /\ overlapped = FALSE
    /\ spent = {}
    /\ served = [f \in Files |-> Pinned[client.net]]
    /\ publishes = 0
    /\ witnessed = {} /\ paid = {}

(* A command that has to await something.  TLC bound: no two of a kind.    *)
Starts(c) ==
    /\ Cardinality(inFlight) < MaxInFlight
    /\ \A d \in inFlight : d.cmd # c.cmd
    /\ inFlight' = inFlight \cup {c}
    /\ overlapped' = (overlapped \/ inFlight # {})
    /\ UNCHANGED client

Continues(c, d) == inFlight' = (inFlight \ {c}) \cup {d} /\ UNCHANGED <<client, overlapped>>
Ends(c) == inFlight' = inFlight \ {c} /\ UNCHANGED <<client, overlapped>>

(* A request fails or a check refuses the answer: the command throws, and  *)
(* nothing it had not stored yet is stored.                                *)
Throws(c) ==
    /\ c \in inFlight
    /\ Ends(c)
    /\ UNCHANGED <<feeVars, notes, plans, bundles, worldVars, historyVars>>

-----------------------------------------------------------------------------
(* Recovered notes.                                                        *)

(* The command line takes its network from a flag of every command; the    *)
(* others have one runtime.                                                *)
CommandNets == IF client.kind = "cli" THEN {"mainnet", "testnet"} ELSE {client.net}

(* notes recover: the scan looks every note's nullifier up ... *)
RecoverNotes(net) ==
    /\ client.kind # "web" /\ net \in CommandNets
    /\ Starts([cmd |-> "recover", found |-> Summaries({n \in Notes : NetOf[n] = net})])
    /\ UNCHANGED <<feeVars, notes, plans, bundles, worldVars, historyVars>>

(* Replaced notes take the command line's plans and proofs with them. *)
Replaced == plans' = <<>> /\ bundles' = {}

DropsPlans == IF client.kind = "cli" THEN Replaced ELSE UNCHANGED <<plans, bundles>>

(* ... and its result replaces whatever the client holds. *)
NotesRecovered(c) ==
    /\ c \in inFlight /\ c.cmd = "recover"
    /\ notes' = c.found
    /\ DropsPlans
    /\ Ends(c)
    /\ UNCHANGED <<feeVars, worldVars, historyVars>>

(* notes import-kit: a kit of the runtime's chain and pool, whose          *)
(* nullifier is looked up.  A mainnet kit needs RootAccepted evidence,     *)
(* which the command line has no way to pass.                              *)
ImportRecoveryKit(n, net) ==
    /\ client.kind # "web" /\ net \in CommandNets
    /\ NetOf[n] = net
    /\ client.kind = "cli" => net # "mainnet"
    /\ Starts([cmd |-> "import", found |-> Summaries({n})])
    /\ UNCHANGED <<feeVars, notes, plans, bundles, worldVars, historyVars>>

KitImported(c) ==
    /\ c \in inFlight /\ c.cmd = "import"
    /\ LET ids == {e.id : e \in c.found} IN
       notes' = {e \in notes : e.id \notin ids} \cup c.found
    /\ DropsPlans
    /\ Ends(c)
    /\ UNCHANGED <<feeVars, worldVars, historyVars>>

-----------------------------------------------------------------------------
(* The command line's plans and proofs.                                    *)

(* withdraw plan --note: the note has to be in the session and unspent;    *)
(* that it is a note of the flag's network is left to the prover.  The fee *)
(* is the one the package's runtime ships with.                            *)
BuildNoteBackedWithdrawPlan(e, destination, gross, net) ==
    /\ client.kind = "cli" /\ Len(plans) < MaxPlans
    /\ e \in notes /\ ~e.spent
    /\ gross \in 1..AmountOf[e.id]
    /\ LET fee == FeeOf(gross, INITIAL_FEE_BPS) IN
       plans' = Append(plans, [note |-> e.id, destination |-> destination, gross |-> gross,
                               fee |-> fee, net |-> net])
    /\ UNCHANGED <<feeVars, client, notes, bundles, inFlight, overlapped, worldVars, historyVars>>

(* withdraw prove: finds the plan and its note, then awaits the prover.    *)
ProveWithdraw(i, net) ==
    /\ client.kind = "cli" /\ i \in DOMAIN plans
    /\ \E e \in notes : e.id = plans[i].note
    /\ Starts([cmd |-> "prove", planId |-> i, plan |-> plans[i], net |-> net, step |-> 1])
    /\ UNCHANGED <<feeVars, notes, plans, bundles, worldVars, historyVars>>

(* Verification of the artifact directory, one file at a time.             *)
VerifyLocalProverArtifact(c) ==
    /\ c \in inFlight /\ c.cmd = "prove" /\ c.step <= Len(SdkChecks(c.net))
    /\ c.plan.gross = AmountOf[c.plan.note]
    /\ LET file == SdkChecks(c.net)[c.step] IN SdkAccepts(file, served[file], c.net)
    /\ Continues(c, [c EXCEPT !.step = @ + 1])
    /\ UNCHANGED <<feeVars, notes, plans, bundles, worldVars, historyVars>>

CallOf(plan, net, circuit) ==
    [note |-> plan.note, destination |-> plan.destination, gross |-> plan.gross, fee |-> plan.fee,
     maxFee |-> plan.fee, minNet |-> plan.gross - plan.fee, net |-> net, circuit |-> circuit]

(* A bundle is stored only if its public inputs and its calldata are those *)
(* of the plan it is for.                                                  *)
CliProofBundleOK(call, plan) ==
    /\ call.net = plan.net
    /\ call.destination = plan.destination
    /\ call.gross = plan.gross
    /\ call.maxFee = plan.fee
    /\ call.minNet = plan.gross - plan.fee

StoreProof(c, call) ==
    /\ CliProofBundleOK(call, c.plan)
    /\ bundles' = {b \in bundles : b.planId # c.planId} \cup {[planId |-> c.planId, call |-> call]}
    /\ Ends(c)
    /\ UNCHANGED <<feeVars, notes, plans, worldVars, historyVars>>

(* The SDK's witness refuses a note of another chain or pool; the prover   *)
(* reads the two files by their paths.                                     *)
ProveWithdrawalPlan(c) ==
    /\ c \in inFlight /\ c.cmd = "prove" /\ c.step > Len(SdkChecks(c.net))
    /\ NetOf[c.plan.note] = c.net
    /\ served["wasm"] # Missing /\ served["zkey"] # Missing
    /\ Sha256("wasm", served["wasm"]) = Sha256("zkey", served["zkey"])
    /\ StoreProof(c, CallOf(c.plan, c.net, Sha256("wasm", served["wasm"])))

(* A prover adapter of the application answers instead: anything that      *)
(* passes the checks is stored.                                            *)
AdapterProves(c, call) ==
    /\ c \in inFlight /\ c.cmd = "prove" /\ c.step = 1
    /\ StoreProof(c, call)

(* What an adapter may answer: a bundle for this plan or one it made for   *)
(* another plan.                                                           *)
AdapterAnswer(c, d, g, net) ==
    CallOf([note |-> c.plan.note, destination |-> d, gross |-> g,
            fee |-> FeeOf(g, INITIAL_FEE_BPS)], net, VerifyingKey(net))

AdapterAnswers(c) ==
    {AdapterAnswer(c, d, g, net) :
        d \in Destinations, g \in {AmountOf[n] : n \in Notes}, net \in {"mainnet", "testnet"}}

(* withdraw preflight --proof: nullifier lookup, then two simulations.     *)
PreflightWithdraw(b, net) ==
    /\ client.kind = "cli" /\ b \in bundles
    /\ b.call.note \notin spent
    /\ Starts([cmd |-> "preflight", call |-> b.call, net |-> net, step |-> 1])
    /\ UNCHANGED <<feeVars, notes, plans, bundles, worldVars, historyVars>>

PreflightSimulates(c) ==
    /\ c \in inFlight /\ c.cmd = "preflight" /\ c.step \in 1..2
    /\ Executable(c.call, c.net)
    /\ Continues(c, [c EXCEPT !.step = @ + 1])
    /\ UNCHANGED <<feeVars, notes, plans, bundles, worldVars, historyVars>>

-----------------------------------------------------------------------------
(* Withdrawals of the SDK's client and of the browser.                     *)

FeeFields == {"active", "pending", "activation"}
Unread == [f \in FeeFields |-> -1]

(* withdrawals.prepare, or the browser's proof generation: a note the      *)
(* client holds, unspent as far as it knows, and an amount it covers.      *)
PrepareWithdrawal(n, destination, gross, b) ==
    /\ \/ client.kind = "sdk" /\ \E e \in notes : e.id = n /\ ~e.spent
       \/ client.kind = "web" /\ NetOf[n] = client.net /\ b = [max |-> NoBound, min |-> NoBound]
    /\ gross \in 1..AmountOf[n]
    /\ Cardinality(bundles) < MaxPlans
    /\ Starts([cmd |-> "prepare", note |-> n, destination |-> destination, gross |-> gross,
               max |-> b.max, min |-> b.min, reads |-> Unread, bps |-> -1,
               step |-> 0, manifest |-> Missing, wasm |-> Missing, zkey |-> Missing, attempt |-> 0])
    /\ UNCHANGED <<feeVars, notes, plans, bundles, worldVars, historyVars>>

(* A v1.1 runtime's fee is static.  A v1.2 client reads the pool's fee     *)
(* state in separate calls, which blocks may come between.                 *)
ReadFee(c, field) ==
    /\ c \in inFlight /\ c.cmd = "prepare" /\ c.bps = -1 /\ client.net = "mainnet"
    /\ c.reads[field] = -1
    /\ Continues(c, [c EXCEPT !.reads[field] = CASE field = "active" -> feeBps
                                                 [] field = "pending" -> pendingFeeBps
                                                 [] field = "activation" -> pendingFeeActivationTime])
    /\ UNCHANGED <<feeVars, notes, plans, bundles, worldVars, historyVars>>

FeeStateConsistent(reads) ==
    /\ \A f \in FeeFields : reads[f] # -1
    /\ reads.active <= MAX_FEE_BPS /\ reads.pending <= MAX_FEE_BPS
    /\ (reads.pending = 0) = (reads.activation = 0)

ActiveFeeBps(c) == IF client.net = "mainnet" THEN c.reads.active ELSE INITIAL_FEE_BPS

WithinUserBounds(c, bps) ==
    LET fee == FeeOf(c.gross, bps) IN
    /\ c.max # NoBound => fee <= c.max
    /\ c.min # NoBound => c.gross - fee >= c.min

FeeResolved(c) ==
    /\ c \in inFlight /\ c.cmd = "prepare" /\ c.bps = -1
    /\ client.net = "mainnet" => FeeStateConsistent(c.reads)
    /\ WithinUserBounds(c, ActiveFeeBps(c))
    /\ Continues(c, [c EXCEPT !.bps = ActiveFeeBps(c), !.reads = Unread, !.step = 1])
    /\ UNCHANGED <<feeVars, notes, plans, bundles, worldVars, historyVars>>

PreparedCall(c, circuit) ==
    LET fee == FeeOf(c.gross, c.bps) IN
    CallOf([note |-> c.note, destination |-> c.destination, gross |-> c.gross, fee |-> fee],
           client.net, circuit)

(* What was asked for is kept with what was prepared. *)
Prepared(c, call) ==
    bundles' = bundles \cup {[call |-> call, asked |-> [destination |-> c.destination,
                              gross |-> c.gross, max |-> c.max, min |-> c.min]]}

(* The application's local prover answers the SDK's client; the proof's    *)
(* inputs are checked against the request and the runtime, and a v1.1      *)
(* proof against the note, which a v1.2 proof does not name.               *)
ProofMatchesRuntime(call, c) ==
    /\ call.destination = c.destination
    /\ call.gross = c.gross
    /\ call.fee = FeeOf(c.gross, c.bps)
    /\ call.net = client.net
    /\ Schema(client.net) = "v1.1" => call.note = c.note

ClientProverAnswers(c, call) ==
    /\ client.kind = "sdk" /\ c \in inFlight /\ c.cmd = "prepare" /\ c.step = 1
    /\ ProofMatchesRuntime(call, c)
    /\ Prepared(c, [call EXCEPT !.maxFee = FeeOf(c.gross, c.bps),
                                !.minNet = c.gross - FeeOf(c.gross, c.bps)])
    /\ Ends(c)
    /\ UNCHANGED <<feeVars, notes, plans, worldVars, historyVars>>

ClientProverCall(c, n, d, f) ==
    [PreparedCall(c, VerifyingKey(client.net)) EXCEPT !.note = n, !.destination = d, !.fee = f]

ClientProverCalls(c) ==
    {ClientProverCall(c, n, d, f) :
        n \in {m \in Notes : NetOf[m] = client.net}, d \in Destinations,
        f \in {FeeOf(c.gross, c.bps), FeeOf(c.gross, INITIAL_FEE_BPS)}}

(* The browser checks the files twice, first the panel (steps 1 to 4), and *)
(* after the witness is built the worker itself (steps 5 to 8), which      *)
(* keeps the bytes whose hash it checked.                                  *)
LocalDev == client.net = "testnet"
FileAt(step) == BrowserChecks[((step - 1) % Len(BrowserChecks)) + 1]

BrowserFetches(c) ==
    /\ client.kind = "web" /\ c \in inFlight /\ c.cmd = "prepare" /\ c.step \in 1..8
    /\ LET file == FileAt(c.step) IN
       /\ IF LocalDev THEN LocalDevAccepts(file, served[file], c.manifest)
                      ELSE BrowserAccepts(file, served[file], c.manifest, client.net)
       /\ Continues(c, [[c EXCEPT !.step = @ + 1]
                        EXCEPT !.manifest = IF file = "manifest" THEN served[file] ELSE @,
                               !.wasm = IF file = "wasm" THEN served[file] ELSE @,
                               !.zkey = IF file = "zkey" THEN served[file] ELSE @])
    /\ UNCHANGED <<feeVars, notes, plans, bundles, worldVars, historyVars>>

(* The panel does not look at the files of a development prover. *)
SkipPanelCheck(c) ==
    /\ client.kind = "web" /\ LocalDev /\ c \in inFlight /\ c.cmd = "prepare" /\ c.step = 1
    /\ Continues(c, [c EXCEPT !.step = 5])
    /\ UNCHANGED <<feeVars, notes, plans, bundles, worldVars, historyVars>>

(* What the worker proves with: the bytes it verified. *)
ProverFiles(c) == [wasm |-> c.wasm, zkey |-> c.zkey]

WorkerProves(c) ==
    /\ client.kind = "web" /\ c \in inFlight /\ c.cmd = "prepare" /\ c.step = 9
    /\ LET files == ProverFiles(c)
           circuit == Sha256("wasm", files.wasm)
       IN /\ witnessed' = witnessed \cup {[net |-> client.net, circuit |-> circuit]}
          /\ Continues(c, [c EXCEPT !.step = 10, !.wasm = files.wasm, !.zkey = files.zkey,
                                    !.attempt = @ + 1])
    /\ UNCHANGED <<feeVars, notes, plans, bundles, worldVars, paid>>

(* A proof counts once the pool's verifier accepted one of its encodings;  *)
(* if it refuses them all the worker starts over, a few times.             *)
Verifies(c) ==
    /\ Sha256("wasm", c.wasm) = VerifyingKey(client.net)
    /\ Sha256("zkey", c.zkey) = VerifyingKey(client.net)

SelfCheckAccepts(c) ==
    /\ client.kind = "web" /\ c \in inFlight /\ c.cmd = "prepare" /\ c.step = 10
    /\ Verifies(c)
    /\ Prepared(c, PreparedCall(c, Sha256("zkey", c.zkey)))
    /\ Ends(c)
    /\ UNCHANGED <<feeVars, notes, plans, worldVars, historyVars>>

SelfCheckRefuses(c) ==
    /\ client.kind = "web" /\ c \in inFlight /\ c.cmd = "prepare" /\ c.step = 10
    /\ ~Verifies(c)
    /\ c.attempt < WITHDRAWAL_PROOF_VERIFIER_ATTEMPTS
    /\ Continues(c, [c EXCEPT !.step = 5])
    /\ UNCHANGED <<feeVars, notes, plans, bundles, worldVars, historyVars>>

-----------------------------------------------------------------------------
(* The world around the client.                                            *)

FeeUntouched == timestamp = StartTime /\ feeBps = INITIAL_FEE_BPS /\ pendingFeeBps = 0

(* A call is submitted, by the user's wallet or by the relayer, and mined. *)
Executes(b) ==
    /\ b \in bundles /\ Executable(b.call, b.call.net)
    /\ spent' = spent \cup {b.call.note}
    /\ paid' = IF client.kind = "cli" THEN paid
               ELSE paid \cup {[bundle |-> b, charged |-> FeeOf(b.call.gross, PoolFeeBps(b.call.net))]}
    /\ UNCHANGED <<feeVars, sessionVars, served, publishes, witnessed>>

(* The owner spends a note with another client; what the panel makes of    *)
(* that is WalletPanel's subject.                                          *)
SpentElsewhere(n) ==
    /\ client.kind # "web" /\ NetOf[n] \in CommandNets
    /\ n \notin spent
    /\ spent' = spent \cup {n}
    /\ UNCHANGED <<feeVars, sessionVars, served, publishes, historyVars>>

(* One file of another release is published.  To keep the state space      *)
(* small, a behaviour has either publications or fee changes, and the      *)
(* command line's directory is left alone: a check that fails is a command *)
(* that throws.                                                            *)
Publish(file, release) ==
    /\ client.kind = "web" /\ FeeUntouched
    /\ publishes < MaxPublishes /\ served[file] # release
    /\ served' = [served EXCEPT ![file] = release]
    /\ publishes' = publishes + 1
    /\ UNCHANGED <<feeVars, sessionVars, spent, historyVars>>

Governance ==
    /\ client.net = "mainnet" /\ client.kind # "cli" /\ publishes = 0
    /\ FeeGovernance \/ NextBlock
    /\ UNCHANGED <<sessionVars, worldVars, historyVars>>

Next ==
    \/ Governance
    \/ \E n \in Notes : SpentElsewhere(n)
    \/ \E f \in Files, r \in Releases : Publish(f, r)
    \/ \E b \in bundles : Executes(b)
    \/ \E net \in Networks : RecoverNotes(net)
    \/ \E n \in Notes, net \in Networks : ImportRecoveryKit(n, net)
    \/ \E e \in notes, d \in Destinations, net \in {"mainnet", "testnet"} :
           \E g \in 1..AmountOf[e.id] : BuildNoteBackedWithdrawPlan(e, d, g, net)
    \/ \E i \in DOMAIN plans, net \in {"mainnet", "testnet"} : ProveWithdraw(i, net)
    \/ \E b \in bundles, net \in {"mainnet", "testnet"} : PreflightWithdraw(b, net)
    \/ \E n \in Notes, d \in Destinations, bound \in UserBounds :
           \E g \in 1..AmountOf[n] : PrepareWithdrawal(n, d, g, bound)
    \/ \E c \in inFlight :
           \/ Throws(c)
           \/ NotesRecovered(c) \/ KitImported(c)
           \/ VerifyLocalProverArtifact(c) \/ ProveWithdrawalPlan(c)
           \/ c.cmd = "prove" /\ \E call \in AdapterAnswers(c) : AdapterProves(c, call)
           \/ PreflightSimulates(c)
           \/ \E f \in FeeFields : ReadFee(c, f)
           \/ FeeResolved(c)
           \/ c.cmd = "prepare" /\ \E call \in ClientProverCalls(c) : ClientProverAnswers(c, call)
           \/ BrowserFetches(c) \/ SkipPanelCheck(c) \/ WorkerProves(c)
           \/ SelfCheckAccepts(c) \/ SelfCheckRefuses(c)

Spec == Init /\ [][Next]_vars

-----------------------------------------------------------------------------
(* The browser hands a witness, which holds the note's secrets, only to a  *)
(* circuit that an approved trusted setup record of the configured         *)
(* deployment names, whatever is published between its fetches; on a       *)
(* development network, to one a manifest named.                           *)
WitnessGoesToApprovedCircuits ==
    \A w \in witnessed : w.net # "testnet" =>
        w.circuit \in ApprovedCircuits(w.net)

(* In a command line session whose commands ran one at a time, a stored    *)
(* proof belongs to the plan its id names now, with that plan's            *)
(* destination, amount and fee, for a note the session still holds: plan   *)
(* ids start over after a recovery or an import.                           *)
SessionIsCoherent ==
    client.kind = "cli" /\ ~overlapped =>
        \A b \in bundles :
            /\ b.planId \in DOMAIN plans
            /\ CliProofBundleOK(b.call, plans[b.planId])
            /\ \E e \in notes : e.id = plans[b.planId].note

(* A withdrawal that a pool executed went where its user asked for, for    *)
(* the amount asked for, and cost no more than the user's maximum and left *)
(* no less than the user's minimum, however the fee moved between the      *)
(* reads, the proof and the block.                                         *)
PaidAsAsked ==
    client.kind # "cli" =>
        \A p \in paid :
            LET asked == p.bundle.asked IN
            /\ p.bundle.call.destination = asked.destination
            /\ p.bundle.call.gross = asked.gross
            /\ asked.max # NoBound => p.charged <= asked.max
            /\ asked.min # NoBound => asked.gross - p.charged >= asked.min
=============================================================================
