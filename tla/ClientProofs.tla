---------------------------- MODULE ClientProofs ----------------------------
(***************************************************************************)
(* The clients' guarantees: the commands of a session (ProofSession), for  *)
(* every set of notes, releases and amounts, every schedule of fee changes *)
(* and publications and any number of commands in flight; and the recovery *)
(* of a wallet's notes (NoteRecovery), for any wallets, writers, chunk     *)
(* sizes and scans.                                                        *)
(*                                                                         *)
(* A command carries what it read or checked across its awaits, so the     *)
(* first invariant is about the commands in flight: what a browser         *)
(* withdrawal has fetched so far agrees with the manifest it fetched, a    *)
(* resolved fee is within the bounds of the request it belongs to, and a   *)
(* proof under way is for the plan that its id names as long as commands   *)
(* do not overlap.                                                         *)
(*                                                                         *)
(* Recovery needs to know of every event who can open it: an event that    *)
(* was written for a wallet opens under that wallet's keys, to the note of *)
(* its commitment, in whichever release it was written, and nothing else   *)
(* ever opens. The second invariant then says how far a scan is.           *)
(***************************************************************************)
EXTENDS ProofSession, NoteRecovery, FeePolicyProofs, FiniteInduction

Circuits == {ReleaseInfo[r].circuit : r \in Releases}
Bounds == Nat \cup {NoBound}

Entries == [id : Notes, net : Networks, spent : BOOLEAN]
Plans == [note : Notes, destination : Destinations, gross : Int, fee : Int, net : Networks]
Calls == [note : Notes, destination : Destinations, gross : Int, fee : Int,
          maxFee : Int, minNet : Int, net : Networks, circuit : Circuits]

StoredProofs == [planId : Nat, call : Calls]
PreparedCalls ==
    [call : Calls, asked : [destination : Destinations, gross : Int, max : Bounds, min : Bounds]]

Scans == [cmd : {"recover", "import"}, found : SUBSET Entries]
Provings == [cmd : {"prove"}, planId : Nat, plan : Plans, net : Networks, step : Int]
Preflights == [cmd : {"preflight"}, call : Calls, net : Networks, step : Int]
Preparations ==
    [cmd : {"prepare"}, note : Notes, destination : Destinations, gross : Int,
     max : Bounds, min : Bounds, reads : [FeeFields -> Int], bps : Int, step : Int,
     manifest : Releases \cup {Missing}, wasm : Releases \cup {Missing},
     zkey : Releases \cup {Missing}, attempt : Int]

(* Types; only the command line has plans to prove, and only the other     *)
(* clients prepare withdrawals.                                            *)
SessionTypeOK ==
    /\ FeeInv
    /\ client \in [kind : {"cli", "web", "sdk"}, net : Networks]
    /\ notes \subseteq Entries
    /\ plans \in Seq(Plans)
    /\ bundles \subseteq IF client.kind = "cli" THEN StoredProofs ELSE PreparedCalls
    /\ inFlight \subseteq Scans \cup IF client.kind = "cli" THEN Provings \cup Preflights
                                                            ELSE Preparations
    /\ overlapped \in BOOLEAN
    /\ served \in [Files -> Releases]

(* What a browser withdrawal holds at its step: past the manifest of a     *)
(* round it is a recorded one, past the record that record approves the    *)
(* manifest's own circuit, past the wasm that circuit is the wasm's.       *)
FetchedAgrees(c) ==
    /\ c.step \in {2, 3, 4, 6, 7, 8, 9} => c.manifest \in Releases
    /\ c.step \in {3, 4, 7, 8, 9} => RecordApproves(c.manifest, c.manifest, client.net)
    /\ c.step \in {4, 8, 9} =>
          c.wasm \in Releases /\ ReleaseInfo[c.wasm].circuit = ReleaseInfo[c.manifest].circuit

FetchesAgree ==
    client.kind = "web" /\ client.net # "testnet" =>
        \A c \in inFlight : c.cmd = "prepare" => FetchedAgrees(c)

(* A fee that was resolved, and the fee of a prepared call, are within the *)
(* bounds of the request.                                                  *)
ResolvedInBounds ==
    \A c \in inFlight : c.cmd = "prepare" /\ c.step >= 1 => WithinUserBounds(c, c.bps)

PreparedAsAsked(b) ==
    /\ b.call.destination = b.asked.destination
    /\ b.call.gross = b.asked.gross
    /\ b.asked.max # NoBound => b.call.fee <= b.asked.max
    /\ b.asked.min # NoBound => b.asked.gross - b.call.fee >= b.asked.min

AllPreparedAsAsked == client.kind # "cli" => \A b \in bundles : PreparedAsAsked(b)

(* While commands did not overlap, at most one is in flight, and a proof   *)
(* under way is for a plan and a note that the session has.                *)
ProvingCoherent ==
    client.kind = "cli" /\ ~overlapped =>
        /\ \A c, d \in inFlight : c = d
        /\ \A c \in inFlight : c.cmd = "prove" =>
              /\ c.planId \in DOMAIN plans
              /\ c.plan = plans[c.planId]
              /\ \E e \in notes : e.id = c.plan.note

-----------------------------------------------------------------------------
(* A fee is an integer. *)
LEMMA FeeIsInt == ASSUME NEW g \in Int, NEW bps \in Int PROVE FeeOf(g, bps) \in Int
<1> DEFINE product == g * bps
<1>1. product \in Int
    OBVIOUS
<1> HIDE DEF product
<1>2. product \div BPS_DENOMINATOR \in Int
    BY <1>1, SessionAssumption
<1> QED BY <1>2 DEF FeeOf, product

(* Governance and blocks are steps of the fee policy. *)
LEMMA GovernanceKeepsFees == ASSUME FeeInv, Governance PROVE FeeInv'
BY FeeStepInv DEF Governance, FeeNext

(* The commands in flight are told apart by their names. *)
LEMMA CommandKinds ==
    ASSUME SessionTypeOK, NEW c \in inFlight
    PROVE  /\ c.cmd \in {"recover", "import", "prove", "preflight", "prepare"}
           /\ c.cmd \in {"recover", "import"} => c \in Scans
           /\ c.cmd = "prove" => c \in Provings /\ client.kind = "cli"
           /\ c.cmd = "preflight" => c \in Preflights /\ client.kind = "cli"
           /\ c.cmd = "prepare" => c \in Preparations /\ client.kind # "cli"
BY DEF SessionTypeOK, Scans, Provings, Preflights, Preparations

(* What the pool of a network says about its notes is a list of entries.   *)
LEMMA SummariesAreEntries == ASSUME NEW ids \in SUBSET Notes PROVE Summaries(ids) \subseteq Entries
<1> SUFFICES ASSUME NEW n \in ids
             PROVE  [id |-> n, net |-> NetOf[n], spent |-> n \in spent] \in Entries
    BY Zenon DEF Summaries
<1>1. n \in Notes /\ NetOf[n] \in Networks
    BY SessionAssumption
<1>2. (n \in spent) \in BOOLEAN
    OBVIOUS
<1> QED BY <1>1, <1>2, Zenon DEF Entries

(* A plan's call is a call. *)
LEMMA CallOfPlan ==
    ASSUME NEW plan, plan.note \in Notes, plan.destination \in Destinations,
           plan.gross \in Int, plan.fee \in Int, NEW net \in Networks, NEW circuit \in Circuits
    PROVE  CallOf(plan, net, circuit) \in Calls
BY DEF CallOf, Calls

LEMMA KeysAreCircuits == ASSUME NEW net \in Networks PROVE VerifyingKey(net) \in Circuits
BY ReleaseAssumption DEF VerifyingKey, Circuits

-----------------------------------------------------------------------------
(* A command that starts, goes on or ends leaves commands of the right     *)
(* kind in flight.                                                         *)
CommandsOfClient ==
    Scans \cup IF client.kind = "cli" THEN Provings \cup Preflights ELSE Preparations

LEMMA StartsTyped ==
    ASSUME SessionTypeOK, NEW c \in CommandsOfClient, Starts(c),
           UNCHANGED <<feeVars, notes, plans, bundles, served>>
    PROVE  SessionTypeOK'
<1>1. FeeInv'
    BY DEF SessionTypeOK, feeVars, FeeInv, FeeTypeOK, PendingIsIncrease, PendingOutlastsQuote,
           QuoteHonoured
<1>2. inFlight' \subseteq CommandsOfClient
    BY DEF SessionTypeOK, Starts, CommandsOfClient
<1> QED BY <1>1, <1>2 DEF SessionTypeOK, Starts, CommandsOfClient

LEMMA ContinuesTyped ==
    ASSUME SessionTypeOK, NEW c, NEW d \in CommandsOfClient, Continues(c, d),
           UNCHANGED <<feeVars, notes, plans, bundles, served>>
    PROVE  SessionTypeOK'
<1>1. FeeInv'
    BY DEF SessionTypeOK, feeVars, FeeInv, FeeTypeOK, PendingIsIncrease, PendingOutlastsQuote,
           QuoteHonoured
<1>2. inFlight' \subseteq CommandsOfClient
    BY DEF SessionTypeOK, Continues, CommandsOfClient
<1> QED BY <1>1, <1>2 DEF SessionTypeOK, Continues, CommandsOfClient

LEMMA EndsTyped ==
    ASSUME SessionTypeOK, NEW c, Ends(c), UNCHANGED <<feeVars, served>>,
           notes' \subseteq Entries, plans' \in Seq(Plans),
           bundles' \subseteq IF client.kind = "cli" THEN StoredProofs ELSE PreparedCalls
    PROVE  SessionTypeOK'
<1>1. FeeInv'
    BY DEF SessionTypeOK, feeVars, FeeInv, FeeTypeOK, PendingIsIncrease, PendingOutlastsQuote,
           QuoteHonoured
<1> QED BY <1>1 DEF SessionTypeOK, Ends

-----------------------------------------------------------------------------
(* Every client starts with nothing stored and the pinned files served. *)
LEMMA InitTyped == Init => SessionTypeOK
<1> SUFFICES ASSUME Init PROVE SessionTypeOK
    OBVIOUS
<1>1. FeeInv
    BY FeeInitInv DEF Init
<1>2. client \in [kind : {"cli", "web", "sdk"}, net : Networks]
    BY DEF Init, Networks
<1>3. served \in [Files -> Releases]
    BY <1>2, ReleaseAssumption DEF Init
<1>4. plans \in Seq(Plans)
    BY DEF Init
<1> QED BY <1>1, <1>2, <1>3, <1>4 DEF Init, SessionTypeOK

(* The steps of the world around the client keep the types. *)
LEMMA WorldTyped ==
    ASSUME SessionTypeOK, UNCHANGED sessionVars,
           UNCHANGED <<feeVars, served>> \/ Governance
             \/ \E f \in Files, r \in Releases : Publish(f, r)
    PROVE  SessionTypeOK'
<1>1. FeeInv'
  <2>1. CASE Governance
      BY <2>1, GovernanceKeepsFees DEF SessionTypeOK
  <2>2. CASE UNCHANGED feeVars
      BY <2>2 DEF SessionTypeOK, feeVars, FeeInv, FeeTypeOK, PendingIsIncrease,
                  PendingOutlastsQuote, QuoteHonoured
  <2> QED BY <2>1, <2>2 DEF Publish
<1>2. served' \in [Files -> Releases]
    BY DEF SessionTypeOK, Publish, Governance, worldVars
<1> QED BY <1>1, <1>2 DEF SessionTypeOK, sessionVars

(* The commands that start, of each client. *)
LEMMA StartsOfTyped ==
    ASSUME SessionTypeOK,
           \/ \E net \in Networks : RecoverNotes(net)
           \/ \E n \in Notes, net \in Networks : ImportRecoveryKit(n, net)
           \/ \E i \in DOMAIN plans, net \in {"mainnet", "testnet"} : ProveWithdraw(i, net)
           \/ \E b \in bundles, net \in {"mainnet", "testnet"} : PreflightWithdraw(b, net)
           \/ \E n \in Notes, d \in Destinations, bound \in UserBounds :
                  \E g \in 1..AmountOf[n] : PrepareWithdrawal(n, d, g, bound)
    PROVE  SessionTypeOK'
<1>1. ASSUME NEW net \in Networks, RecoverNotes(net) PROVE SessionTypeOK'
  <2> DEFINE c == [cmd |-> "recover", found |-> Summaries({n \in Notes : NetOf[n] = net})]
  <2>1. c \in CommandsOfClient
      BY SummariesAreEntries DEF CommandsOfClient, Scans
  <2> QED BY <1>1, <2>1, StartsTyped DEF RecoverNotes, worldVars
<1>2. ASSUME NEW n \in Notes, NEW net \in Networks, ImportRecoveryKit(n, net)
      PROVE  SessionTypeOK'
  <2> DEFINE c == [cmd |-> "import", found |-> Summaries({n})]
  <2>1. c \in CommandsOfClient
      BY SummariesAreEntries DEF CommandsOfClient, Scans
  <2> QED BY <1>2, <2>1, StartsTyped DEF ImportRecoveryKit, worldVars
<1>3. ASSUME NEW i \in DOMAIN plans, NEW net \in {"mainnet", "testnet"}, ProveWithdraw(i, net)
      PROVE  SessionTypeOK'
  <2> DEFINE c == [cmd |-> "prove", planId |-> i, plan |-> plans[i], net |-> net, step |-> 1]
  <2>1. i \in Nat /\ plans[i] \in Plans
      BY DEF SessionTypeOK
  <2>2. c \in CommandsOfClient
      BY <1>3, <2>1 DEF CommandsOfClient, Provings, Networks, ProveWithdraw
  <2> QED BY <1>3, <2>2, StartsTyped DEF ProveWithdraw, worldVars
<1>4. ASSUME NEW b \in bundles, NEW net \in {"mainnet", "testnet"}, PreflightWithdraw(b, net)
      PROVE  SessionTypeOK'
  <2> DEFINE c == [cmd |-> "preflight", call |-> b.call, net |-> net, step |-> 1]
  <2>1. b.call \in Calls
      BY <1>4 DEF SessionTypeOK, StoredProofs, PreflightWithdraw
  <2>2. c \in CommandsOfClient
      BY <1>4, <2>1 DEF CommandsOfClient, Preflights, Networks, PreflightWithdraw
  <2> QED BY <1>4, <2>2, StartsTyped DEF PreflightWithdraw, worldVars
<1>5. ASSUME NEW n \in Notes, NEW d \in Destinations, NEW bound \in UserBounds,
             NEW g \in 1..AmountOf[n], PrepareWithdrawal(n, d, g, bound)
      PROVE  SessionTypeOK'
  <2> DEFINE c == [cmd |-> "prepare", note |-> n, destination |-> d, gross |-> g,
                   max |-> bound.max, min |-> bound.min, reads |-> Unread, bps |-> -1,
                   step |-> 0, manifest |-> Missing, wasm |-> Missing, zkey |-> Missing,
                   attempt |-> 0]
  <2>1. bound.max \in Bounds /\ bound.min \in Bounds /\ g \in Int
      BY SessionAssumption DEF Bounds
  <2>2. Unread \in [FeeFields -> Int]
      BY DEF Unread
  <2>3. client.kind # "cli"
      BY <1>5 DEF PrepareWithdrawal
  <2>4. c \in CommandsOfClient
      BY <2>1, <2>2, <2>3 DEF CommandsOfClient, Preparations
  <2> QED BY <1>5, <2>4, StartsTyped DEF PrepareWithdrawal, worldVars
<1> QED BY <1>1, <1>2, <1>3, <1>4, <1>5

(* The answers to a command of the command line or a scan. *)
LEMMA AnswersTyped ==
    ASSUME SessionTypeOK, NEW c \in inFlight,
           \/ Throws(c) \/ NotesRecovered(c) \/ KitImported(c)
           \/ VerifyLocalProverArtifact(c) \/ ProveWithdrawalPlan(c)
           \/ c.cmd = "prove" /\ \E call \in AdapterAnswers(c) : AdapterProves(c, call)
           \/ PreflightSimulates(c)
    PROVE  SessionTypeOK'
<1> USE CommandKinds
<1>0. /\ notes \subseteq Entries /\ plans \in Seq(Plans)
      /\ bundles \subseteq IF client.kind = "cli" THEN StoredProofs ELSE PreparedCalls
      /\ served \in [Files -> Releases]
    BY DEF SessionTypeOK
<1>1. CASE Throws(c)
    BY <1>0, <1>1, EndsTyped DEF Throws, worldVars
<1>2. DropsPlans =>
        /\ plans' \in Seq(Plans)
        /\ bundles' \subseteq IF client.kind = "cli" THEN StoredProofs ELSE PreparedCalls
  <2>1. <<>> \in Seq(Plans)
      OBVIOUS
  <2> QED BY <1>0, <2>1, Zenon DEF DropsPlans, Replaced
<1>3. CASE NotesRecovered(c)
  <2>1. notes' \subseteq Entries
      BY <1>3 DEF NotesRecovered, Scans
  <2> QED BY <1>2, <1>3, <2>1, EndsTyped DEF NotesRecovered, worldVars
<1>4. CASE KitImported(c)
  <2>1. notes' \subseteq Entries
      BY <1>0, <1>4 DEF KitImported, Scans
  <2> QED BY <1>2, <1>4, <2>1, EndsTyped DEF KitImported, worldVars
<1>5. CASE VerifyLocalProverArtifact(c)
  <2>1. [c EXCEPT !.step = @ + 1] \in CommandsOfClient
      BY <1>5 DEF VerifyLocalProverArtifact, CommandsOfClient, Provings
  <2> QED BY <1>5, <2>1, ContinuesTyped DEF VerifyLocalProverArtifact, worldVars
<1>6. ASSUME NEW call \in Calls, c.cmd = "prove", StoreProof(c, call) PROVE SessionTypeOK'
  <2>1. [planId |-> c.planId, call |-> call] \in StoredProofs /\ client.kind = "cli"
      BY <1>6 DEF StoredProofs, Provings
  <2>2. bundles' \subseteq StoredProofs
      BY <1>0, <1>6, <2>1 DEF StoreProof
  <2> QED BY <1>0, <1>6, <2>1, <2>2, EndsTyped DEF StoreProof, worldVars
<1>7. CASE ProveWithdrawalPlan(c)
  <2> DEFINE circuit == Sha256("wasm", served["wasm"])
  <2>1. circuit \in Circuits
      BY <1>0 DEF Sha256, Circuits, Files
  <2>2. c.cmd = "prove" /\ c.plan \in Plans /\ c.net \in Networks
      BY <1>7 DEF ProveWithdrawalPlan, Provings
  <2>3. CallOf(c.plan, c.net, circuit) \in Calls
      BY <2>1, <2>2, CallOfPlan DEF Plans
  <2> QED BY <1>6, <1>7, <2>2, <2>3 DEF ProveWithdrawalPlan
<1>8. ASSUME c.cmd = "prove", NEW call \in AdapterAnswers(c), AdapterProves(c, call)
      PROVE  SessionTypeOK'
  <2>1. c.plan \in Plans
      BY <1>8 DEF Provings
  <2>2. PICK d \in Destinations, g \in {AmountOf[n] : n \in Notes}, net \in {"mainnet", "testnet"} :
          call = AdapterAnswer(c, d, g, net)
      BY <1>8 DEF AdapterAnswers
  <2>3. g \in Int /\ net \in Networks /\ INITIAL_FEE_BPS \in Int
      BY SessionAssumption, FeeAssumption DEF Networks
  <2>4. FeeOf(g, INITIAL_FEE_BPS) \in Int
      BY <2>3, FeeIsInt
  <2> DEFINE plan == [note |-> c.plan.note, destination |-> d, gross |-> g,
                      fee |-> FeeOf(g, INITIAL_FEE_BPS)]
  <2>5. /\ plan.note \in Notes /\ plan.destination \in Destinations
        /\ plan.gross \in Int /\ plan.fee \in Int
      BY <2>1, <2>3, <2>4 DEF Plans
  <2>6. call \in Calls
      BY <2>2, <2>3, <2>5, CallOfPlan, KeysAreCircuits DEF AdapterAnswer
  <2> QED BY <1>6, <1>8, <2>6 DEF AdapterProves
<1>9. CASE PreflightSimulates(c)
  <2>1. [c EXCEPT !.step = @ + 1] \in CommandsOfClient
      BY <1>9 DEF PreflightSimulates, CommandsOfClient, Preflights
  <2> QED BY <1>9, <2>1, ContinuesTyped DEF PreflightSimulates, worldVars
<1> QED BY <1>1, <1>3, <1>4, <1>5, <1>7, <1>8, <1>9

(* A call that was prepared for a request. *)
LEMMA PreparedTyped ==
    ASSUME SessionTypeOK, NEW c \in Preparations, NEW call \in Calls,
           client.kind # "cli", Prepared(c, call), Ends(c),
           UNCHANGED <<feeVars, notes, plans, served>>
    PROVE  SessionTypeOK'
<1>1. [call |-> call, asked |-> [destination |-> c.destination, gross |-> c.gross,
                                 max |-> c.max, min |-> c.min]] \in PreparedCalls
    BY DEF Preparations, PreparedCalls
<1>2. bundles' \subseteq PreparedCalls
    BY <1>1 DEF SessionTypeOK, Prepared
<1> QED BY <1>2, EndsTyped DEF SessionTypeOK

LEMMA PreparedCallTyped ==
    ASSUME SessionTypeOK, NEW c \in Preparations, NEW circuit \in Circuits
    PROVE  PreparedCall(c, circuit) \in Calls
<1>1. FeeOf(c.gross, c.bps) \in Int
    BY FeeIsInt DEF Preparations
<1> DEFINE plan == [note |-> c.note, destination |-> c.destination, gross |-> c.gross,
                    fee |-> FeeOf(c.gross, c.bps)]
<1>2. /\ plan.note \in Notes /\ plan.destination \in Destinations
      /\ plan.gross \in Int /\ plan.fee \in Int
    BY <1>1 DEF Preparations
<1>3. client.net \in Networks
    BY DEF SessionTypeOK
<1>4. CallOf(plan, client.net, circuit) \in Calls
    BY <1>2, <1>3, CallOfPlan
<1> QED BY <1>4 DEF PreparedCall

(* What the application's prover may answer is a call. *)
LEMMA ClientProverCallTyped ==
    ASSUME SessionTypeOK, NEW c \in Preparations, NEW call \in ClientProverCalls(c)
    PROVE  call \in Calls
<1> DEFINE base == PreparedCall(c, VerifyingKey(client.net))
<1>1. base \in Calls
    BY KeysAreCircuits, PreparedCallTyped DEF SessionTypeOK
<1>2. c.gross \in Int /\ c.bps \in Int /\ INITIAL_FEE_BPS \in Int
    BY FeeAssumption DEF Preparations
<1>3. FeeOf(c.gross, c.bps) \in Int /\ FeeOf(c.gross, INITIAL_FEE_BPS) \in Int
    BY <1>2, FeeIsInt
<1>4. PICK n \in {m \in Notes : NetOf[m] = client.net}, d \in Destinations,
           f \in {FeeOf(c.gross, c.bps), FeeOf(c.gross, INITIAL_FEE_BPS)} :
        call = ClientProverCall(c, n, d, f)
    BY DEF ClientProverCalls
<1> DEFINE base1 == [base EXCEPT !.note = n]
           base2 == [base1 EXCEPT !.destination = d]
<1>5. call = [base2 EXCEPT !.fee = f]
    BY <1>4 DEF ClientProverCall
<1> HIDE DEF base
<1>6. base1 \in Calls
    BY <1>1 DEF Calls
<1>7. base2 \in Calls
    BY <1>6 DEF Calls
<1> HIDE DEF base2
<1> QED BY <1>3, <1>5, <1>7 DEF Calls

(* A withdrawal that is being prepared stays one whatever its step, fee,   *)
(* files and attempts become.                                              *)
LEMMA PreparationChanged ==
    ASSUME NEW c \in Preparations
    PROVE  /\ \A reads \in [FeeFields -> Int] : [c EXCEPT !.reads = reads] \in Preparations
           /\ \A bps \in Int : [c EXCEPT !.bps = bps] \in Preparations
           /\ \A step \in Int : [c EXCEPT !.step = step] \in Preparations
           /\ \A attempt \in Int : [c EXCEPT !.attempt = attempt] \in Preparations
           /\ \A release \in Releases \cup {Missing} :
                 /\ [c EXCEPT !.manifest = release] \in Preparations
                 /\ [c EXCEPT !.wasm = release] \in Preparations
                 /\ [c EXCEPT !.zkey = release] \in Preparations
BY DEF Preparations

(* The steps of a withdrawal that is being prepared. *)
LEMMA PreparationTyped ==
    ASSUME SessionTypeOK, NEW c \in inFlight,
           \/ \E f \in FeeFields : ReadFee(c, f)
           \/ FeeResolved(c)
           \/ c.cmd = "prepare" /\ \E call \in ClientProverCalls(c) : ClientProverAnswers(c, call)
           \/ BrowserFetches(c) \/ SkipPanelCheck(c) \/ WorkerProves(c)
           \/ SelfCheckAccepts(c) \/ SelfCheckRefuses(c)
    PROVE  SessionTypeOK'
<1>1. c \in Preparations /\ client.kind # "cli" /\ c.cmd = "prepare"
    BY CommandKinds DEF ReadFee, FeeResolved, BrowserFetches, SkipPanelCheck, WorkerProves,
       SelfCheckAccepts, SelfCheckRefuses
<1>2. /\ served \in [Files -> Releases] /\ client.net \in Networks
      /\ feeBps \in Int /\ pendingFeeBps \in Int /\ pendingFeeActivationTime \in Int
    BY FeeAssumption DEF SessionTypeOK, FeeInv, FeeTypeOK
<1>3. ASSUME NEW f \in FeeFields, ReadFee(c, f) PROVE SessionTypeOK'
  <2> DEFINE value == CASE f = "active" -> feeBps
                        [] f = "pending" -> pendingFeeBps
                        [] f = "activation" -> pendingFeeActivationTime
  <2>1. value \in Int
      BY <1>2 DEF FeeFields
  <2>2. Continues(c, [c EXCEPT !.reads[f] = value])
      BY <1>3 DEF ReadFee
  <2> HIDE DEF value
  <2>3. [c EXCEPT !.reads[f] = value] \in CommandsOfClient
      BY <1>1, <2>1 DEF CommandsOfClient, Preparations
  <2> QED BY <1>3, <2>2, <2>3, ContinuesTyped DEF ReadFee, worldVars
<1>4. CASE FeeResolved(c)
  <2>1. ActiveFeeBps(c) \in Int
      BY <1>1, FeeAssumption DEF ActiveFeeBps, Preparations, FeeFields
  <2>2. Unread \in [FeeFields -> Int]
      BY DEF Unread
  <2> DEFINE c1 == [c EXCEPT !.bps = ActiveFeeBps(c)]
             c2 == [c1 EXCEPT !.reads = Unread]
             c3 == [c2 EXCEPT !.step = 1]
  <2>3. c1 \in Preparations
      BY <1>1, <2>1 DEF Preparations
  <2>4. c2 \in Preparations
      BY <2>2, <2>3 DEF Preparations
  <2>5. Continues(c, c3)
      BY <1>4 DEF FeeResolved
  <2> HIDE DEF c2
  <2>6. c3 \in CommandsOfClient
      BY <1>1, <2>4, PreparationChanged DEF CommandsOfClient
  <2> QED BY <1>4, <2>5, <2>6, ContinuesTyped DEF FeeResolved, worldVars
<1>5. ASSUME NEW call \in ClientProverCalls(c), ClientProverAnswers(c, call) PROVE SessionTypeOK'
  <2>1. c.gross \in Int /\ c.bps \in Int
      BY <1>1 DEF Preparations
  <2>2. FeeOf(c.gross, c.bps) \in Int
      BY <2>1, FeeIsInt
  <2>3. call \in Calls
      BY <1>1, <1>5, ClientProverCallTyped
  <2>4. c.gross - FeeOf(c.gross, c.bps) \in Int
      BY <2>1, <2>2
  <2>5. [call EXCEPT !.maxFee = FeeOf(c.gross, c.bps),
                     !.minNet = c.gross - FeeOf(c.gross, c.bps)] \in Calls
      BY <2>2, <2>3, <2>4 DEF Calls
  <2> QED BY <1>1, <1>5, <2>5, PreparedTyped DEF ClientProverAnswers, worldVars
<1>6. CASE BrowserFetches(c)
  <2>1. FileAt(c.step) \in Files
      BY <1>6 DEF BrowserFetches, FileAt, BrowserChecks, Files
  <2>2. served[FileAt(c.step)] \in Releases
      BY <1>2, <2>1
  <2> DEFINE file == FileAt(c.step)
             c1 == [c EXCEPT !.step = @ + 1]
             c2 == [c1 EXCEPT !.manifest = IF file = "manifest" THEN served[file] ELSE @]
             c3 == [c2 EXCEPT !.wasm = IF file = "wasm" THEN served[file] ELSE @]
             c4 == [c3 EXCEPT !.zkey = IF file = "zkey" THEN served[file] ELSE @]
  <2>3. Continues(c, c4)
      BY <1>6 DEF BrowserFetches
  <2> HIDE DEF file
  <2>4. c1 \in Preparations
      BY <1>1 DEF Preparations
  <2>5. c2 \in Preparations
    <3> HIDE DEF c1
    <3> QED BY <2>2, <2>4 DEF file, Preparations
  <2>6. c3 \in Preparations
    <3> HIDE DEF c2
    <3> QED BY <2>2, <2>5 DEF file, Preparations
  <2>7. c4 \in CommandsOfClient
    <3> HIDE DEF c3
    <3>1. c4 \in Preparations
        BY <2>2, <2>6 DEF file, Preparations
    <3> QED BY <1>1, <3>1 DEF CommandsOfClient
  <2> QED BY <1>6, <2>3, <2>7, ContinuesTyped DEF BrowserFetches, worldVars
<1>7. CASE SkipPanelCheck(c)
  <2>1. [c EXCEPT !.step = 5] \in CommandsOfClient
      BY <1>1 DEF CommandsOfClient, Preparations
  <2> QED BY <1>7, <2>1, ContinuesTyped DEF SkipPanelCheck, worldVars
<1>8. CASE WorkerProves(c)
  <2> DEFINE c1 == [c EXCEPT !.step = 10]
             c2 == [c1 EXCEPT !.wasm = c.wasm]
             c3 == [c2 EXCEPT !.zkey = c.zkey]
             c4 == [c3 EXCEPT !.attempt = @ + 1]
  <2>1. Continues(c, c4)
      BY <1>8 DEF WorkerProves, ProverFiles
  <2>2. c1 \in Preparations /\ c.wasm \in Releases \cup {Missing}
                           /\ c.zkey \in Releases \cup {Missing}
      BY <1>1 DEF Preparations
  <2>3. c2 \in Preparations
    <3> HIDE DEF c1
    <3> QED BY <2>2, PreparationChanged
  <2>4. c3 \in Preparations
    <3> HIDE DEF c2
    <3> QED BY <2>2, <2>3, PreparationChanged
  <2>5. c4 \in CommandsOfClient
    <3> HIDE DEF c3
    <3>1. c4 \in Preparations
        BY <2>4 DEF Preparations
    <3> QED BY <1>1, <3>1 DEF CommandsOfClient
  <2> QED BY <1>8, <2>1, <2>5, ContinuesTyped DEF WorkerProves, worldVars
<1>9. CASE SelfCheckAccepts(c)
  <2>1. Sha256("zkey", c.zkey) \in Circuits
      BY <1>2, <1>9, KeysAreCircuits DEF SelfCheckAccepts, Verifies
  <2> QED BY <1>1, <1>9, <2>1, PreparedCallTyped, PreparedTyped DEF SelfCheckAccepts, worldVars
<1>10. CASE SelfCheckRefuses(c)
  <2>1. [c EXCEPT !.step = 5] \in CommandsOfClient
      BY <1>1 DEF CommandsOfClient, Preparations
  <2> QED BY <1>10, <2>1, ContinuesTyped DEF SelfCheckRefuses, worldVars
<1> QED BY <1>1, <1>3, <1>4, <1>5, <1>6, <1>7, <1>8, <1>9, <1>10

(* A new plan is a plan for a note of the session. *)
LEMMA NewPlanTyped ==
    ASSUME SessionTypeOK, NEW e \in notes, NEW d \in Destinations,
           NEW net \in {"mainnet", "testnet"}, NEW g \in 1..AmountOf[e.id],
           BuildNoteBackedWithdrawPlan(e, d, g, net)
    PROVE  \E plan \in Plans : plans' = Append(plans, plan)
<1> DEFINE plan == [note |-> e.id, destination |-> d, gross |-> g,
                    fee |-> FeeOf(g, INITIAL_FEE_BPS), net |-> net]
<1>1. g \in Int /\ INITIAL_FEE_BPS \in Int
    BY FeeAssumption
<1>2. FeeOf(g, INITIAL_FEE_BPS) \in Int
    BY <1>1, FeeIsInt
<1>3. plan \in Plans
    BY <1>1, <1>2 DEF SessionTypeOK, Entries, Plans, Networks
<1>4. plans' = Append(plans, plan)
    BY DEF BuildNoteBackedWithdrawPlan
<1> HIDE DEF plan
<1> QED BY <1>3, <1>4

LEMMA PlanTyped ==
    ASSUME SessionTypeOK, NEW e \in notes, NEW d \in Destinations,
           NEW net \in {"mainnet", "testnet"}, NEW g \in 1..AmountOf[e.id],
           BuildNoteBackedWithdrawPlan(e, d, g, net)
    PROVE  SessionTypeOK'
<1> PICK plan \in Plans : plans' = Append(plans, plan)
    BY NewPlanTyped
<1>1. plans' \in Seq(Plans)
    BY DEF SessionTypeOK
<1>2. FeeInv'
    BY DEF SessionTypeOK, BuildNoteBackedWithdrawPlan, feeVars, FeeInv, FeeTypeOK,
           PendingIsIncrease, PendingOutlastsQuote, QuoteHonoured
<1> QED BY <1>1, <1>2 DEF SessionTypeOK, BuildNoteBackedWithdrawPlan, worldVars

(* Every step keeps the types. *)
LEMMA StepTyped == ASSUME SessionTypeOK, [Next]_vars PROVE SessionTypeOK'
<1>1. CASE Governance
    BY <1>1, WorldTyped DEF Governance
<1>2. CASE \E n \in Notes : SpentElsewhere(n)
    BY <1>2, WorldTyped DEF SpentElsewhere
<1>3. CASE \E f \in Files, r \in Releases : Publish(f, r)
  <2>1. UNCHANGED sessionVars
      BY <1>3 DEF Publish
  <2> QED BY <1>3, <2>1, WorldTyped
<1>4. CASE \E b \in bundles : Executes(b)
    BY <1>4, WorldTyped DEF Executes
<1>5. CASE UNCHANGED vars
    BY <1>5, WorldTyped DEF vars, worldVars
<1>6. ASSUME NEW e \in notes, NEW d \in Destinations, NEW net \in {"mainnet", "testnet"},
             NEW g \in 1..AmountOf[e.id], BuildNoteBackedWithdrawPlan(e, d, g, net)
      PROVE  SessionTypeOK'
    BY <1>6, PlanTyped
<1> QED BY <1>1, <1>2, <1>3, <1>4, <1>5, <1>6, StartsOfTyped, AnswersTyped, PreparationTyped
        DEF Next

(* Types hold in every behaviour. *)
LEMMA SessionTyped == Spec => []SessionTypeOK
<1>1. SessionTypeOK /\ [Next]_vars => SessionTypeOK'
    BY StepTyped
<1> QED BY InitTyped, <1>1, PTL DEF Spec

-----------------------------------------------------------------------------
(* What the browser proves with.                                           *)

(* The files are fetched in the order of BrowserChecks, twice. *)
LEMMA FetchOrder ==
    /\ FileAt(1) = "manifest" /\ FileAt(5) = "manifest"
    /\ FileAt(2) = "record" /\ FileAt(6) = "record"
    /\ FileAt(3) = "wasm" /\ FileAt(7) = "wasm"
    /\ FileAt(4) = "zkey" /\ FileAt(8) = "zkey"
BY DEF FileAt, BrowserChecks

(* What a fetch changes of the command. *)
Fetched(c, file, release) ==
    [[c EXCEPT !.step = @ + 1]
     EXCEPT !.manifest = IF file = "manifest" THEN release ELSE @,
            !.wasm = IF file = "wasm" THEN release ELSE @,
            !.zkey = IF file = "zkey" THEN release ELSE @]

LEMMA FetchedFields ==
    ASSUME NEW c \in Preparations, NEW file, NEW release
    PROVE  /\ Fetched(c, file, release).step = c.step + 1
           /\ Fetched(c, file, release).manifest = IF file = "manifest" THEN release ELSE c.manifest
           /\ Fetched(c, file, release).wasm = IF file = "wasm" THEN release ELSE c.wasm
           /\ \A f \in {"cmd", "destination", "gross", "max", "min", "bps"} :
                 Fetched(c, file, release)[f] = c[f]
BY DEF Fetched, Preparations

(* One fetch of a browser that is not in development mode. *)
LEMMA FetchAgrees ==
    ASSUME SessionTypeOK, NEW c \in inFlight, client.net # "testnet",
           BrowserFetches(c), FetchedAgrees(c)
    PROVE  FetchedAgrees(Fetched(c, FileAt(c.step), served[FileAt(c.step)]))
<1> DEFINE file == FileAt(c.step)
           release == served[file]
           d == Fetched(c, file, release)
<1>1. c \in Preparations /\ c.step \in 1..8
    BY CommandKinds DEF BrowserFetches
<1>2. BrowserAccepts(file, release, c.manifest, client.net)
    BY DEF BrowserFetches, LocalDev
<1>3. d.step = c.step + 1 /\ d.manifest = (IF file = "manifest" THEN release ELSE c.manifest)
      /\ d.wasm = (IF file = "wasm" THEN release ELSE c.wasm)
    BY <1>1, FetchedFields
<1>4. served \in [Files -> Releases]
    BY DEF SessionTypeOK
<1> SUFFICES FetchedAgrees(d)
    OBVIOUS
<1> HIDE DEF d
<1>5. CASE c.step \in {1, 5}
  <2>1. file = "manifest" /\ d.step \in {2, 6}
      BY <1>3, <1>5, FetchOrder
  <2>2. d.manifest \in Releases
      BY <1>3, <1>4, <2>1 DEF Files
  <2> QED BY <2>1, <2>2 DEF FetchedAgrees
<1>6. CASE c.step \in {2, 6}
  <2>1. file = "record" /\ d.step \in {3, 7} /\ c.manifest \in Releases
      BY <1>3, <1>6, FetchOrder DEF FetchedAgrees
  <2>2. d.manifest = c.manifest
      BY <1>3, <2>1
  <2>3. release = c.manifest /\ RecordApproves(release, c.manifest, client.net)
      BY <1>2, <2>1 DEF BrowserAccepts, HashMatches, Sha256
  <2> QED BY <2>1, <2>2, <2>3 DEF FetchedAgrees
<1>7. CASE c.step \in {3, 7}
  <2>1. /\ file = "wasm" /\ d.step \in {4, 8} /\ c.manifest \in Releases
        /\ RecordApproves(c.manifest, c.manifest, client.net)
      BY <1>3, <1>7, FetchOrder DEF FetchedAgrees
  <2>2. d.manifest = c.manifest /\ d.wasm = release /\ release \in Releases
      BY <1>3, <1>4, <2>1 DEF Files
  <2>3. ReleaseInfo[release].circuit = ReleaseInfo[c.manifest].circuit
      BY <1>2, <2>1 DEF BrowserAccepts, HashMatches, Sha256
  <2> QED BY <2>1, <2>2, <2>3 DEF FetchedAgrees
<1>8. CASE c.step \in {4, 8}
  <2>1. file = "zkey" /\ d.step \in {5, 9}
      BY <1>3, <1>8, FetchOrder
  <2>2. d.manifest = c.manifest /\ d.wasm = c.wasm
      BY <1>3, <2>1
  <2>3. /\ c.manifest \in Releases /\ RecordApproves(c.manifest, c.manifest, client.net)
        /\ c.wasm \in Releases /\ ReleaseInfo[c.wasm].circuit = ReleaseInfo[c.manifest].circuit
      BY <1>8 DEF FetchedAgrees
  <2> QED BY <2>1, <2>2, <2>3 DEF FetchedAgrees
<1> QED BY <1>1, <1>5, <1>6, <1>7, <1>8

(* A witness is computed by the wasm that was fetched last. *)
LEMMA WitnessApproved ==
    ASSUME SessionTypeOK, NEW c \in inFlight, client.net # "testnet",
           WorkerProves(c), FetchedAgrees(c)
    PROVE  Sha256("wasm", c.wasm) \in ApprovedCircuits(client.net)
<1>1. c.manifest \in Releases /\ RecordApproves(c.manifest, c.manifest, client.net)
      /\ ReleaseInfo[c.wasm].circuit = ReleaseInfo[c.manifest].circuit
    BY DEF WorkerProves, FetchedAgrees
<1> QED BY <1>1 DEF Sha256, ApprovedCircuits

-----------------------------------------------------------------------------
(* Where a preparation in flight comes from: it has just begun, or it is   *)
(* the next step of one that was in flight, for the same request.          *)
SameRequest(c, d) ==
    \A f \in {"destination", "gross", "max", "min"} : d[f] = c[f]

NextOf(c, d) ==
    \/ \A f \in {"step", "bps", "manifest", "wasm"} : d[f] = c[f]
    \/ d.step = 1 /\ WithinUserBounds(c, d.bps)
    \/ BrowserFetches(c) /\ d = Fetched(c, FileAt(c.step), served[FileAt(c.step)])
    \/ d.step \in {5, 10} /\ d.bps = c.bps /\ c.step >= 1

LEMMA PreparationSteps ==
    ASSUME SessionTypeOK, [Next]_vars, NEW d \in inFlight', d \notin inFlight, d.cmd = "prepare"
    PROVE  \/ d.step = 0
           \/ \E c \in inFlight : c.cmd = "prepare" /\ SameRequest(c, d) /\ NextOf(c, d)
<1> USE CommandKinds
<1>1. CASE UNCHANGED inFlight
    BY <1>1
<1>2. ASSUME NEW c, Starts(c), c.cmd # "prepare" PROVE FALSE
    BY <1>2 DEF Starts
<1>3. CASE \E c : Ends(c)
    BY <1>3 DEF Ends
<1>4. ASSUME NEW c, NEW e, Continues(c, e), e.cmd # "prepare" PROVE FALSE
    BY <1>4 DEF Continues
<1>5. ASSUME NEW c, NEW e, Continues(c, e) PROVE d = e
    BY <1>5 DEF Continues
<1>6. CASE Governance \/ (\E n \in Notes : SpentElsewhere(n))
           \/ (\E f \in Files, r \in Releases : Publish(f, r))
           \/ (\E b \in bundles : Executes(b)) \/ UNCHANGED vars
    BY <1>1, <1>6 DEF Governance, SpentElsewhere, Publish, Executes, vars, sessionVars
<1>7. CASE \E e \in notes, a \in Destinations, net \in {"mainnet", "testnet"} :
              \E g \in 1..AmountOf[e.id] : BuildNoteBackedWithdrawPlan(e, a, g, net)
    BY <1>1, <1>7 DEF BuildNoteBackedWithdrawPlan
<1>8. CASE \E net \in Networks : RecoverNotes(net)
    BY <1>2, <1>8 DEF RecoverNotes
<1>9. CASE \E n \in Notes, net \in Networks : ImportRecoveryKit(n, net)
    BY <1>2, <1>9 DEF ImportRecoveryKit
<1>10. CASE \E i \in DOMAIN plans, net \in {"mainnet", "testnet"} : ProveWithdraw(i, net)
    BY <1>2, <1>10 DEF ProveWithdraw
<1>11. CASE \E b \in bundles, net \in {"mainnet", "testnet"} : PreflightWithdraw(b, net)
    BY <1>2, <1>11 DEF PreflightWithdraw
<1>12. CASE \E n \in Notes, a \in Destinations, bound \in UserBounds :
              \E g \in 1..AmountOf[n] : PrepareWithdrawal(n, a, g, bound)
    BY <1>12 DEF PrepareWithdrawal, Starts
<1>13. ASSUME NEW c \in inFlight,
              \/ Throws(c) \/ NotesRecovered(c) \/ KitImported(c) \/ ProveWithdrawalPlan(c)
              \/ c.cmd = "prove" /\ \E call \in AdapterAnswers(c) : AdapterProves(c, call)
              \/ c.cmd = "prepare" /\ \E call \in ClientProverCalls(c) : ClientProverAnswers(c, call)
              \/ SelfCheckAccepts(c)
       PROVE  FALSE
    BY <1>3, <1>13 DEF Throws, NotesRecovered, KitImported, ProveWithdrawalPlan, AdapterProves,
       StoreProof, ClientProverAnswers, SelfCheckAccepts, Ends
<1>14. ASSUME NEW c \in inFlight, VerifyLocalProverArtifact(c) PROVE FALSE
    BY <1>4, <1>14 DEF VerifyLocalProverArtifact, Provings
<1>15. ASSUME NEW c \in inFlight, PreflightSimulates(c) PROVE FALSE
    BY <1>4, <1>15 DEF PreflightSimulates, Preflights
<1>16. ASSUME NEW c \in inFlight, NEW f \in FeeFields, ReadFee(c, f)
       PROVE  c.cmd = "prepare" /\ SameRequest(c, d) /\ NextOf(c, d)
  <2>1. PICK value : Continues(c, [c EXCEPT !.reads[f] = value])
      BY <1>16 DEF ReadFee
  <2> QED BY <1>5, <1>16, <2>1 DEF ReadFee, Preparations, SameRequest, NextOf
<1>17. ASSUME NEW c \in inFlight, FeeResolved(c)
       PROVE  c.cmd = "prepare" /\ SameRequest(c, d) /\ NextOf(c, d)
  <2>1. c \in Preparations /\ c.cmd = "prepare" /\ WithinUserBounds(c, ActiveFeeBps(c))
      BY <1>17 DEF FeeResolved
  <2>2. d = [c EXCEPT !.bps = ActiveFeeBps(c), !.reads = Unread, !.step = 1]
      BY <1>5, <1>17 DEF FeeResolved
  <2>3. SameRequest(c, d) /\ d.step = 1 /\ d.bps = ActiveFeeBps(c)
      BY <2>1, <2>2 DEF Preparations, SameRequest
  <2> QED BY <2>1, <2>3 DEF NextOf
<1>18. ASSUME NEW c \in inFlight, BrowserFetches(c)
       PROVE  c.cmd = "prepare" /\ SameRequest(c, d) /\ NextOf(c, d)
  <2>1. c \in Preparations /\ c.cmd = "prepare"
      BY <1>18 DEF BrowserFetches
  <2>2. d = Fetched(c, FileAt(c.step), served[FileAt(c.step)])
      BY <1>5, <1>18 DEF BrowserFetches, Fetched
  <2> QED BY <1>18, <2>1, <2>2, FetchedFields DEF SameRequest, NextOf
<1>19. ASSUME NEW c \in inFlight, SkipPanelCheck(c) \/ SelfCheckRefuses(c)
       PROVE  c.cmd = "prepare" /\ SameRequest(c, d) /\ NextOf(c, d)
  <2>1. c \in Preparations /\ c.cmd = "prepare" /\ c.step \in {1, 10}
      BY <1>19 DEF SkipPanelCheck, SelfCheckRefuses
  <2>2. d = [c EXCEPT !.step = 5]
      BY <1>5, <1>19 DEF SkipPanelCheck, SelfCheckRefuses
  <2> QED BY <2>1, <2>2 DEF Preparations, SameRequest, NextOf
<1>20. ASSUME NEW c \in inFlight, WorkerProves(c)
       PROVE  c.cmd = "prepare" /\ SameRequest(c, d) /\ NextOf(c, d)
  <2>1. c \in Preparations /\ c.cmd = "prepare" /\ c.step = 9
      BY <1>20 DEF WorkerProves
  <2>2. d = [c EXCEPT !.step = 10, !.wasm = c.wasm, !.zkey = c.zkey, !.attempt = @ + 1]
      BY <1>5, <1>20 DEF WorkerProves, ProverFiles
  <2>3. SameRequest(c, d) /\ d.step = 10 /\ d.bps = c.bps
      BY <2>1, <2>2 DEF Preparations, SameRequest
  <2> QED BY <2>1, <2>3 DEF NextOf
<1> QED BY <1>6, <1>7, <1>8, <1>9, <1>10, <1>11, <1>12, <1>13, <1>14, <1>15, <1>16, <1>17,
           <1>18, <1>19, <1>20 DEF Next

(* No step changes which client it is. *)
LEMMA ClientStays == ASSUME [Next]_vars PROVE UNCHANGED client
<1>1. \A c, d : Starts(c) \/ Continues(c, d) \/ Ends(c) => client' = client
    BY DEF Starts, Continues, Ends
<1>2. \/ UNCHANGED sessionVars
      \/ UNCHANGED client
      \/ \E c : Starts(c) \/ Ends(c)
      \/ \E c, d : Continues(c, d)
    BY ZenonT(40) DEF Next, vars, Governance, SpentElsewhere, Publish, Executes,
       RecoverNotes, ImportRecoveryKit, BuildNoteBackedWithdrawPlan, ProveWithdraw,
       PreflightWithdraw, PrepareWithdrawal, Throws, NotesRecovered, KitImported,
       VerifyLocalProverArtifact, ProveWithdrawalPlan, AdapterProves, StoreProof,
       PreflightSimulates, ReadFee, FeeResolved, ClientProverAnswers, BrowserFetches,
       SkipPanelCheck, WorkerProves, SelfCheckAccepts, SelfCheckRefuses
<1> QED BY <1>1, <1>2 DEF sessionVars

LEMMA FetchesAgreeStep ==
    ASSUME SessionTypeOK, FetchesAgree, [Next]_vars PROVE FetchesAgree'
<1>1. client' = client
    BY ClientStays
<1> SUFFICES ASSUME client.kind = "web", client.net # "testnet", NEW d \in inFlight',
                    d.cmd = "prepare"
             PROVE  FetchedAgrees(d)
    BY <1>1 DEF FetchesAgree, FetchedAgrees
<1>2. CASE d \in inFlight
    BY <1>2 DEF FetchesAgree
<1>3. CASE d.step = 0
    BY <1>3 DEF FetchedAgrees
<1>4. ASSUME NEW c \in inFlight, c.cmd = "prepare", NextOf(c, d)
      PROVE  FetchedAgrees(d)
  <2>1. FetchedAgrees(c)
      BY <1>4 DEF FetchesAgree
  <2>2. CASE \A f \in {"step", "bps", "manifest", "wasm"} : d[f] = c[f]
    <3>1. d.step = c.step /\ d.manifest = c.manifest /\ d.wasm = c.wasm
        BY <2>2
    <3> QED BY <2>1, <3>1 DEF FetchedAgrees
  <2>3. CASE BrowserFetches(c) /\ d = Fetched(c, FileAt(c.step), served[FileAt(c.step)])
      BY <2>1, <2>3, FetchAgrees
  <2>4. CASE d.step \in {1, 5, 10}
      BY <2>4 DEF FetchedAgrees
  <2> QED BY <1>4, <2>2, <2>3, <2>4 DEF NextOf
<1> QED BY <1>2, <1>3, <1>4, PreparationSteps

LEMMA ResolvedInBoundsStep ==
    ASSUME SessionTypeOK, ResolvedInBounds, [Next]_vars PROVE ResolvedInBounds'
<1> SUFFICES ASSUME NEW d \in inFlight', d.cmd = "prepare", d.step >= 1
             PROVE  WithinUserBounds(d, d.bps)
    BY DEF ResolvedInBounds, WithinUserBounds, FeeOf
<1>1. CASE d \in inFlight
    BY <1>1 DEF ResolvedInBounds
<1>2. CASE d.step = 0
    BY <1>2
<1>3. ASSUME NEW c \in inFlight, c.cmd = "prepare", SameRequest(c, d), NextOf(c, d)
      PROVE  WithinUserBounds(d, d.bps)
  <2>1. c.step >= 1 => WithinUserBounds(c, c.bps)
      BY <1>3 DEF ResolvedInBounds
  <2>2. WithinUserBounds(c, d.bps)
    <3>1. CASE \A f \in {"step", "bps", "manifest", "wasm"} : d[f] = c[f]
        BY <2>1, <3>1
    <3>2. CASE d.step = 1 /\ WithinUserBounds(c, d.bps)
        BY <3>2
    <3>3. CASE BrowserFetches(c) /\ d = Fetched(c, FileAt(c.step), served[FileAt(c.step)])
      <4>1. c.step \in 1..8 /\ c \in Preparations
          BY <3>3, CommandKinds DEF BrowserFetches
      <4>2. d.bps = c.bps
          BY <3>3, <4>1, FetchedFields
      <4> QED BY <2>1, <4>1, <4>2
    <3>4. CASE d.step \in {5, 10} /\ d.bps = c.bps /\ c.step >= 1
        BY <2>1, <3>4
    <3> QED BY <1>3, <3>1, <3>2, <3>3, <3>4 DEF NextOf
  <2>3. d.gross = c.gross /\ d.max = c.max /\ d.min = c.min
      BY <1>3 DEF SameRequest
  <2> QED BY <2>2, <2>3 DEF WithinUserBounds
<1> QED BY <1>1, <1>2, <1>3, PreparationSteps

-----------------------------------------------------------------------------
(* The witness of a production browser goes to an approved circuit. *)
LEMMA WitnessedStep ==
    ASSUME SessionTypeOK, FetchesAgree, WitnessGoesToApprovedCircuits, [Next]_vars
    PROVE  WitnessGoesToApprovedCircuits'
<1>1. CASE UNCHANGED witnessed
    BY <1>1 DEF WitnessGoesToApprovedCircuits
<1>2. ASSUME NEW c \in inFlight, WorkerProves(c) PROVE WitnessGoesToApprovedCircuits'
  <2>1. witnessed' = witnessed \cup {[net |-> client.net, circuit |-> Sha256("wasm", c.wasm)]}
      BY <1>2 DEF WorkerProves, ProverFiles
  <2>2. client.net # "testnet" => Sha256("wasm", c.wasm) \in ApprovedCircuits(client.net)
      BY <1>2, WitnessApproved DEF FetchesAgree, WorkerProves
  <2> QED BY <2>1, <2>2 DEF WitnessGoesToApprovedCircuits
<1>3. UNCHANGED witnessed \/ \E c \in inFlight : WorkerProves(c)
    BY ZenonT(40) DEF Next, vars, historyVars, Governance, SpentElsewhere, Publish, Executes,
       RecoverNotes, ImportRecoveryKit, BuildNoteBackedWithdrawPlan, ProveWithdraw,
       PreflightWithdraw, PrepareWithdrawal, Throws, NotesRecovered, KitImported,
       VerifyLocalProverArtifact, ProveWithdrawalPlan, AdapterProves, StoreProof,
       PreflightSimulates, ReadFee, FeeResolved, ClientProverAnswers, BrowserFetches,
       SkipPanelCheck, SelfCheckAccepts, SelfCheckRefuses
<1> QED BY <1>1, <1>2, <1>3

(* The browser hands a witness only to a circuit that an approved record   *)
(* of its deployment names, for every sequence of publications between its *)
(* fetches.                                                                *)
THEOREM WitnessesStayApproved == Spec => []WitnessGoesToApprovedCircuits
<1>1. Init => FetchesAgree /\ WitnessGoesToApprovedCircuits
    BY DEF Init, FetchesAgree, WitnessGoesToApprovedCircuits
<1>2. /\ SessionTypeOK /\ FetchesAgree /\ WitnessGoesToApprovedCircuits
      /\ [Next]_vars
      => FetchesAgree' /\ WitnessGoesToApprovedCircuits'
    BY FetchesAgreeStep, WitnessedStep
<1> QED BY <1>1, <1>2, SessionTyped, PTL DEF Spec

-----------------------------------------------------------------------------
(* What becomes of prepared withdrawals.                                   *)

(* A call is prepared with the fee that was resolved. *)
LEMMA PreparedIsAsAsked ==
    ASSUME SessionTypeOK, ResolvedInBounds, NEW c \in inFlight, c.cmd = "prepare", c.step >= 1,
           NEW call \in Calls, Prepared(c, call), AllPreparedAsAsked, UNCHANGED client,
           call.destination = c.destination, call.gross = c.gross,
           call.fee = FeeOf(c.gross, c.bps)
    PROVE  AllPreparedAsAsked'
<1>1. WithinUserBounds(c, c.bps)
    BY DEF ResolvedInBounds
<1> DEFINE b == [call |-> call, asked |-> [destination |-> c.destination,
                 gross |-> c.gross, max |-> c.max, min |-> c.min]]
<1>2. PreparedAsAsked(b)
    BY <1>1 DEF PreparedAsAsked, WithinUserBounds
<1>3. bundles' = bundles \cup {b}
    BY DEF Prepared
<1> HIDE DEF b
<1> QED BY <1>2, <1>3 DEF AllPreparedAsAsked

LEMMA PreparedStep ==
    ASSUME SessionTypeOK, ResolvedInBounds, AllPreparedAsAsked, [Next]_vars
    PROVE  AllPreparedAsAsked'
<1>1. client' = client
    BY ClientStays
<1>2. ASSUME NEW c \in inFlight, NEW call \in ClientProverCalls(c), ClientProverAnswers(c, call)
      PROVE  AllPreparedAsAsked'
  <2>1. c \in Preparations /\ c.cmd = "prepare" /\ c.step = 1
      BY <1>2, CommandKinds DEF ClientProverAnswers
  <2>2. call \in Calls
      BY <1>2, <2>1, ClientProverCallTyped
  <2> DEFINE fee == FeeOf(c.gross, c.bps)
             submitted == [call EXCEPT !.maxFee = fee, !.minNet = c.gross - fee]
  <2>3. c.gross \in Int /\ c.bps \in Int
      BY <2>1 DEF Preparations
  <2>4. fee \in Int
      BY <2>3, FeeIsInt
  <2>5. Prepared(c, submitted) /\ ProofMatchesRuntime(call, c)
      BY <1>2 DEF ClientProverAnswers
  <2>6. call.destination = c.destination /\ call.gross = c.gross /\ call.fee = fee
      BY <2>5 DEF ProofMatchesRuntime
  <2> HIDE DEF fee
  <2>7. c.gross - fee \in Int
      BY <2>3, <2>4
  <2>8. submitted \in Calls
      BY <2>2, <2>4, <2>7 DEF Calls
  <2>9. /\ submitted.destination = c.destination /\ submitted.gross = c.gross
        /\ submitted.fee = fee
      BY <2>2, <2>6 DEF Calls
  <2> HIDE DEF submitted
  <2> QED BY <1>1, <2>1, <2>5, <2>8, <2>9, PreparedIsAsAsked DEF fee
<1>3. ASSUME NEW c \in inFlight, SelfCheckAccepts(c)
      PROVE  AllPreparedAsAsked'
  <2>1. c \in Preparations /\ c.cmd = "prepare" /\ c.step = 10
      BY <1>3, CommandKinds DEF SelfCheckAccepts
  <2> DEFINE circuit == Sha256("zkey", c.zkey)
             call == PreparedCall(c, circuit)
  <2>2. circuit \in Circuits
      BY <1>3, KeysAreCircuits DEF SelfCheckAccepts, Verifies, SessionTypeOK
  <2>3. call \in Calls
      BY <2>1, <2>2, PreparedCallTyped
  <2>4. /\ call.destination = c.destination /\ call.gross = c.gross
        /\ call.fee = FeeOf(c.gross, c.bps)
      BY DEF PreparedCall, CallOf
  <2>5. Prepared(c, call)
      BY <1>3 DEF SelfCheckAccepts
  <2> HIDE DEF call
  <2> QED BY <1>1, <2>1, <2>3, <2>4, <2>5, PreparedIsAsAsked
<1>4. CASE UNCHANGED bundles
    BY <1>1, <1>4 DEF AllPreparedAsAsked
<1>5. ASSUME NEW c \in inFlight,
             \/ NotesRecovered(c) \/ KitImported(c) \/ ProveWithdrawalPlan(c)
             \/ c.cmd = "prove" /\ \E call \in AdapterAnswers(c) : AdapterProves(c, call)
      PROVE  AllPreparedAsAsked'
  <2>1. client.kind = "cli" \/ UNCHANGED bundles
      BY <1>5, CommandKinds DEF NotesRecovered, KitImported, ProveWithdrawalPlan, DropsPlans
  <2> QED BY <1>1, <1>4, <2>1 DEF AllPreparedAsAsked
<1>6. \/ UNCHANGED bundles
      \/ \E c \in inFlight :
            \/ NotesRecovered(c) \/ KitImported(c) \/ ProveWithdrawalPlan(c)
            \/ c.cmd = "prove" /\ \E call \in AdapterAnswers(c) : AdapterProves(c, call)
            \/ SelfCheckAccepts(c)
            \/ \E call \in ClientProverCalls(c) : ClientProverAnswers(c, call)
    BY ZenonT(40) DEF Next, vars, sessionVars, Governance, SpentElsewhere, Publish, Executes,
       RecoverNotes, ImportRecoveryKit, BuildNoteBackedWithdrawPlan, ProveWithdraw,
       PreflightWithdraw, PrepareWithdrawal, Throws, VerifyLocalProverArtifact,
       PreflightSimulates, ReadFee, FeeResolved, BrowserFetches, SkipPanelCheck, WorkerProves,
       SelfCheckRefuses
<1> QED BY <1>2, <1>3, <1>4, <1>5, <1>6

(* A pool charges the fee that the proof names. *)
LEMMA PaidStep ==
    ASSUME SessionTypeOK, AllPreparedAsAsked, PaidAsAsked, [Next]_vars PROVE PaidAsAsked'
<1>1. client' = client
    BY ClientStays
<1>2. CASE UNCHANGED paid
    BY <1>1, <1>2 DEF PaidAsAsked
<1>3. ASSUME NEW b \in bundles, Executes(b) PROVE PaidAsAsked'
  <2> DEFINE charged == FeeOf(b.call.gross, PoolFeeBps(b.call.net))
             p == [bundle |-> b, charged |-> charged]
  <2>1. b.call.fee = charged
      BY <1>3 DEF Executes, Executable
  <2>2. paid' = IF client.kind = "cli" THEN paid ELSE paid \cup {p}
      BY <1>3 DEF Executes
  <2> HIDE DEF charged
  <2>3. client.kind # "cli" => PreparedAsAsked(b)
      BY DEF AllPreparedAsAsked
  <2> QED BY <1>1, <2>1, <2>2, <2>3 DEF PaidAsAsked, PreparedAsAsked
<1>4. UNCHANGED paid \/ \E b \in bundles : Executes(b)
    BY ZenonT(40) DEF Next, vars, historyVars, Governance, SpentElsewhere, Publish,
       RecoverNotes, ImportRecoveryKit, BuildNoteBackedWithdrawPlan, ProveWithdraw,
       PreflightWithdraw, PrepareWithdrawal, Throws, NotesRecovered, KitImported,
       VerifyLocalProverArtifact, ProveWithdrawalPlan, AdapterProves, StoreProof,
       PreflightSimulates, ReadFee, FeeResolved, ClientProverAnswers, BrowserFetches,
       SkipPanelCheck, WorkerProves, SelfCheckAccepts, SelfCheckRefuses
<1> QED BY <1>2, <1>3, <1>4

(* A withdrawal that a pool executed went where its user asked for, and    *)
(* within the bounds asked for, for every fee schedule and every           *)
(* interleaving of fee reads, proof and blocks.                            *)
THEOREM PaidAsAskedAlways == Spec => []PaidAsAsked
<1>1. Init => ResolvedInBounds /\ AllPreparedAsAsked /\ PaidAsAsked
    BY DEF Init, ResolvedInBounds, AllPreparedAsAsked, PaidAsAsked
<1>2. /\ SessionTypeOK /\ ResolvedInBounds /\ AllPreparedAsAsked /\ PaidAsAsked
      /\ [Next]_vars
      => ResolvedInBounds' /\ AllPreparedAsAsked' /\ PaidAsAsked'
    BY ResolvedInBoundsStep, PreparedStep, PaidStep
<1> QED BY <1>1, <1>2, SessionTyped, PTL DEF Spec

-----------------------------------------------------------------------------
(* The command line's session.                                             *)

(* A stored proof, and a plan a prover works on, belong to what their ids  *)
(* name, for a note of the session.                                        *)
ProofFits(id, call) ==
    /\ id \in DOMAIN plans
    /\ CliProofBundleOK(call, plans[id])
    /\ \E e \in notes : e.id = plans[id].note

PlanFits(id, plan) ==
    /\ id \in DOMAIN plans
    /\ plan = plans[id]
    /\ \E e \in notes : e.id = plan.note

(* Steps that leave plans and notes alone keep what fits. *)
LEMMA FitsStable ==
    ASSUME UNCHANGED <<plans, notes>>, NEW id
    PROVE  /\ \A call : ProofFits(id, call) => ProofFits(id, call)'
           /\ \A plan : PlanFits(id, plan) => PlanFits(id, plan)'
BY DEF ProofFits, PlanFits, CliProofBundleOK

(* A command that starts while another waits is an overlap. *)
LEMMA StartsCoherent ==
    ASSUME SessionIsCoherent, ProvingCoherent, UNCHANGED <<plans, notes, bundles>>,
           NEW c, Starts(c), c.cmd = "prove" => PlanFits(c.planId, c.plan)
    PROVE  SessionIsCoherent' /\ ProvingCoherent'
<1>1. CASE overlapped'
    BY <1>1 DEF SessionIsCoherent, ProvingCoherent
<1>2. CASE ~overlapped'
  <2>1. ~overlapped /\ inFlight' = {c} /\ client' = client
      BY <1>2 DEF Starts
  <2>2. SessionIsCoherent'
      BY <2>1 DEF SessionIsCoherent, CliProofBundleOK
  <2>3. ProvingCoherent'
      BY <2>1, FitsStable DEF ProvingCoherent, PlanFits
  <2> QED BY <2>2, <2>3
<1> QED BY <1>1, <1>2

(* A command that goes on is still the only one, and for the same plan. *)
LEMMA ContinuesCoherent ==
    ASSUME SessionIsCoherent, ProvingCoherent, UNCHANGED <<plans, notes, bundles>>,
           NEW c \in inFlight, NEW d, Continues(c, d),
           d.cmd = "prove" => c.cmd = "prove" /\ d.planId = c.planId /\ d.plan = c.plan
    PROVE  SessionIsCoherent' /\ ProvingCoherent'
<1>1. /\ client' = client /\ overlapped' = overlapped
      /\ inFlight' = (inFlight \ {c}) \cup {d}
    BY DEF Continues
<1>2. SessionIsCoherent'
    BY <1>1 DEF SessionIsCoherent, CliProofBundleOK
<1>3. ASSUME client.kind = "cli", ~overlapped PROVE inFlight' = {d}
    BY <1>1, <1>3 DEF ProvingCoherent
<1>4. ProvingCoherent'
    BY <1>1, <1>3 DEF ProvingCoherent
<1> QED BY <1>2, <1>4

(* A command that ends leaves nothing in flight. *)
LEMMA EndsCoherent ==
    ASSUME SessionIsCoherent, ProvingCoherent, NEW c \in inFlight, Ends(c),
           client.kind = "cli" /\ ~overlapped =>
               \A b \in bundles' : ProofFits(b.planId, b.call)'
    PROVE  SessionIsCoherent' /\ ProvingCoherent'
<1>1. /\ client' = client /\ overlapped' = overlapped /\ inFlight' = inFlight \ {c}
    BY DEF Ends
<1>2. SessionIsCoherent'
    BY <1>1 DEF SessionIsCoherent, ProofFits
<1>3. client.kind = "cli" /\ ~overlapped => inFlight' = {}
    BY <1>1 DEF ProvingCoherent
<1> QED BY <1>1, <1>2, <1>3 DEF ProvingCoherent

(* Steps of the world, and of other clients, that leave the session alone. *)
LEMMA SessionUntouched ==
    ASSUME SessionIsCoherent, ProvingCoherent, UNCHANGED sessionVars
    PROVE  SessionIsCoherent' /\ ProvingCoherent'
BY DEF SessionIsCoherent, ProvingCoherent, CliProofBundleOK, sessionVars

(* withdraw plan appends; what the other ids name stays. *)
LEMMA PlanCoherent ==
    ASSUME SessionTypeOK, SessionIsCoherent, ProvingCoherent, NEW plan \in Plans,
           plans' = Append(plans, plan), UNCHANGED <<client, notes, bundles, inFlight, overlapped>>
    PROVE  SessionIsCoherent' /\ ProvingCoherent'
<1>1. \A id \in DOMAIN plans : id \in DOMAIN plans' /\ plans'[id] = plans[id]
    BY DEF SessionTypeOK
<1>2. ASSUME NEW id, NEW call, ProofFits(id, call) PROVE ProofFits(id, call)'
    BY <1>1, <1>2 DEF ProofFits, CliProofBundleOK
<1>3. ASSUME NEW id, NEW p, PlanFits(id, p) PROVE PlanFits(id, p)'
    BY <1>1, <1>3 DEF PlanFits
<1>4. SessionIsCoherent'
    BY <1>2 DEF SessionIsCoherent, ProofFits
<1>5. ProvingCoherent'
    BY <1>3 DEF ProvingCoherent, PlanFits
<1> QED BY <1>4, <1>5

(* A proof is stored for the plan it was checked against. *)
LEMMA StoreCoherent ==
    ASSUME SessionTypeOK, SessionIsCoherent, ProvingCoherent,
           NEW c \in inFlight, c.cmd = "prove", NEW call, StoreProof(c, call)
    PROVE  SessionIsCoherent' /\ ProvingCoherent'
<1> DEFINE new == [planId |-> c.planId, call |-> call]
<1>1. /\ UNCHANGED <<notes, plans>> /\ Ends(c) /\ CliProofBundleOK(call, c.plan)
      /\ bundles' = {b \in bundles : b.planId # c.planId} \cup {new}
    BY DEF StoreProof
<1>2. ASSUME client.kind = "cli", ~overlapped, NEW b \in bundles'
      PROVE  ProofFits(b.planId, b.call)'
  <2>1. CASE b \in bundles
    <3>1. ProofFits(b.planId, b.call)
        BY <1>2, <2>1 DEF SessionIsCoherent, ProofFits
    <3> QED BY <1>1, <3>1, FitsStable
  <2>2. CASE b = new
    <3>1. PlanFits(c.planId, c.plan)
        BY <1>2 DEF ProvingCoherent, PlanFits
    <3>2. ProofFits(c.planId, call)
        BY <1>1, <3>1 DEF PlanFits, ProofFits
    <3>3. b.planId = c.planId /\ b.call = call
        BY <2>2
    <3> QED BY <1>1, <3>2, <3>3, FitsStable
  <2> QED BY <1>1, <2>1, <2>2
<1> QED BY <1>1, <1>2, EndsCoherent

LEMMA CoherentStep ==
    ASSUME SessionTypeOK, SessionIsCoherent, ProvingCoherent, [Next]_vars
    PROVE  SessionIsCoherent' /\ ProvingCoherent'
<1>1. CASE UNCHANGED sessionVars
    BY <1>1, SessionUntouched
<1>2. CASE Governance \/ (\E n \in Notes : SpentElsewhere(n))
           \/ (\E f \in Files, r \in Releases : Publish(f, r))
           \/ (\E b \in bundles : Executes(b)) \/ UNCHANGED vars
    BY <1>1, <1>2 DEF Governance, SpentElsewhere, Publish, Executes, vars
<1>3. ASSUME NEW net \in Networks, RecoverNotes(net) PROVE SessionIsCoherent' /\ ProvingCoherent'
    BY <1>3, StartsCoherent DEF RecoverNotes
<1>4. ASSUME NEW n \in Notes, NEW net \in Networks, ImportRecoveryKit(n, net)
      PROVE  SessionIsCoherent' /\ ProvingCoherent'
    BY <1>4, StartsCoherent DEF ImportRecoveryKit
<1>5. ASSUME NEW e \in notes, NEW d \in Destinations, NEW net \in {"mainnet", "testnet"},
             NEW g \in 1..AmountOf[e.id], BuildNoteBackedWithdrawPlan(e, d, g, net)
      PROVE  SessionIsCoherent' /\ ProvingCoherent'
  <2>1. PICK plan \in Plans : plans' = Append(plans, plan)
      BY <1>5, NewPlanTyped
  <2> QED BY <1>5, <2>1, PlanCoherent DEF BuildNoteBackedWithdrawPlan
<1>6. ASSUME NEW i \in DOMAIN plans, NEW net \in {"mainnet", "testnet"}, ProveWithdraw(i, net)
      PROVE  SessionIsCoherent' /\ ProvingCoherent'
  <2> DEFINE c == [cmd |-> "prove", planId |-> i, plan |-> plans[i], net |-> net, step |-> 1]
  <2>1. PlanFits(c.planId, c.plan)
      BY <1>6 DEF ProveWithdraw, PlanFits
  <2>2. Starts(c) /\ UNCHANGED <<plans, notes, bundles>>
      BY <1>6 DEF ProveWithdraw
  <2> HIDE DEF c
  <2> QED BY <2>1, <2>2, StartsCoherent
<1>7. ASSUME NEW b \in bundles, NEW net \in {"mainnet", "testnet"}, PreflightWithdraw(b, net)
      PROVE  SessionIsCoherent' /\ ProvingCoherent'
    BY <1>7, StartsCoherent DEF PreflightWithdraw
<1>8. ASSUME NEW n \in Notes, NEW d \in Destinations, NEW bound \in UserBounds,
             NEW g \in 1..AmountOf[n], PrepareWithdrawal(n, d, g, bound)
      PROVE  SessionIsCoherent' /\ ProvingCoherent'
    BY <1>8, StartsCoherent DEF PrepareWithdrawal
<1>9. ASSUME NEW c \in inFlight, Throws(c) PROVE SessionIsCoherent' /\ ProvingCoherent'
  <2>1. Ends(c) /\ UNCHANGED <<notes, plans, bundles>>
      BY <1>9 DEF Throws
  <2>2. client.kind = "cli" /\ ~overlapped => \A b \in bundles' : ProofFits(b.planId, b.call)'
      BY <2>1, FitsStable DEF SessionIsCoherent, ProofFits
  <2> QED BY <2>1, <2>2, EndsCoherent
<1>10. ASSUME NEW c \in inFlight, NotesRecovered(c) \/ KitImported(c)
       PROVE  SessionIsCoherent' /\ ProvingCoherent'
  <2>1. Ends(c) /\ (client.kind = "cli" => bundles' = {})
      BY <1>10 DEF NotesRecovered, KitImported, DropsPlans, Replaced
  <2> QED BY <2>1, EndsCoherent
<1>11. ASSUME NEW c \in inFlight, VerifyLocalProverArtifact(c)
       PROVE  SessionIsCoherent' /\ ProvingCoherent'
  <2>1. c \in Provings
      BY <1>11, CommandKinds DEF VerifyLocalProverArtifact
  <2> DEFINE d == [c EXCEPT !.step = @ + 1]
  <2>2. d.cmd = c.cmd /\ d.planId = c.planId /\ d.plan = c.plan
      BY <2>1 DEF Provings
  <2>3. Continues(c, d) /\ UNCHANGED <<plans, notes, bundles>>
      BY <1>11 DEF VerifyLocalProverArtifact
  <2> HIDE DEF d
  <2> QED BY <2>2, <2>3, ContinuesCoherent
<1>12. ASSUME NEW c \in inFlight, ProveWithdrawalPlan(c)
       PROVE  SessionIsCoherent' /\ ProvingCoherent'
    BY <1>12, StoreCoherent DEF ProveWithdrawalPlan
<1>13. ASSUME NEW c \in inFlight, c.cmd = "prove", NEW call \in AdapterAnswers(c),
              AdapterProves(c, call)
       PROVE  SessionIsCoherent' /\ ProvingCoherent'
    BY <1>13, StoreCoherent DEF AdapterProves
<1>14. ASSUME NEW c \in inFlight, PreflightSimulates(c)
       PROVE  SessionIsCoherent' /\ ProvingCoherent'
  <2>1. c \in Preflights
      BY <1>14, CommandKinds DEF PreflightSimulates
  <2> DEFINE d == [c EXCEPT !.step = @ + 1]
  <2>2. d.cmd # "prove"
      BY <2>1 DEF Preflights
  <2>3. Continues(c, d) /\ UNCHANGED <<plans, notes, bundles>>
      BY <1>14 DEF PreflightSimulates
  <2> HIDE DEF d
  <2> QED BY <2>2, <2>3, ContinuesCoherent
<1>15. ASSUME NEW c \in inFlight, c.cmd = "prepare", client' = client
       PROVE  SessionIsCoherent' /\ ProvingCoherent'
    BY <1>15, CommandKinds DEF SessionIsCoherent, ProvingCoherent
<1>16. ASSUME NEW c \in inFlight,
              \/ \E f \in FeeFields : ReadFee(c, f)
              \/ FeeResolved(c)
              \/ c.cmd = "prepare" /\ \E call \in ClientProverCalls(c) : ClientProverAnswers(c, call)
              \/ BrowserFetches(c) \/ SkipPanelCheck(c) \/ WorkerProves(c)
              \/ SelfCheckAccepts(c) \/ SelfCheckRefuses(c)
       PROVE  SessionIsCoherent' /\ ProvingCoherent'
  <2>1. c.cmd = "prepare"
      BY <1>16 DEF ReadFee, FeeResolved, BrowserFetches, SkipPanelCheck, WorkerProves,
         SelfCheckAccepts, SelfCheckRefuses
  <2> QED BY <1>15, <2>1, ClientStays
<1> QED BY <1>2, <1>3, <1>4, <1>5, <1>6, <1>7, <1>8, <1>9, <1>10, <1>11, <1>12, <1>13, <1>14,
           <1>16 DEF Next

(* In a session whose commands ran one at a time, every stored proof is    *)
(* one for the plan that its id names now.                                 *)
THEOREM SessionStaysCoherent == Spec => []SessionIsCoherent
<1>1. Init => SessionIsCoherent /\ ProvingCoherent
    BY DEF Init, SessionIsCoherent, ProvingCoherent
<1>2. SessionTypeOK /\ SessionIsCoherent /\ ProvingCoherent /\ [Next]_vars
      => SessionIsCoherent' /\ ProvingCoherent'
    BY CoherentStep
<1> QED BY <1>1, <1>2, SessionTyped, PTL DEF Spec

-----------------------------------------------------------------------------
(* Note recovery.                                                          *)
-----------------------------------------------------------------------------
(* A note event: who can open it.                                          *)

NoteKey(w, app, epoch, c) ==
    DeriveNoteKey(DeriveWalletRecoveryKey(RequestWalletRecoverySignature(w, D), D, app), c, epoch)
Epochs == {EpochId(D.chain), LegacyEpochId}
LabelData(label, c) == MakeRecoveryAssociatedData(D, label, c)

(* An envelope of either client, of this release or an earlier one, and a  *)
(* version 2 output whose nonce the envelope states.                       *)
EnvelopeV1Of(w, app, epoch, label, note) ==
    EncryptSpendMaterialEnvelope(NoteKey(w, app, epoch, Commitment(note)), LabelData(label, Commitment(note)),
                                 SpendMaterial(note, D))
OutputSeal(w, nonce, note) ==
    Seal(NoteKey(w, AppId, EpochId(D.chain), Commitment(note)), nonce,
         LabelData("withdraw-output", Commitment(note)), [amount |-> note.amount, secret |-> note.secret])
OutputOf(w, stated, used, note) ==
    EnvelopeV2(D, Commitment(note), stated, OutputSeal(w, used, note), CompactPayloadBytes)

WrittenFor(e, w) ==
    \/ /\ e.version = 1
       /\ e.action \in {"deposit", "withdraw-change", "withdraw-output"}
       /\ \E app \in AppIds, epoch \in Epochs, label \in CompatibleActions(e.action) :
             e.bytes = EnvelopeV1Of(w, app, epoch, label, e.note)
    \/ /\ e.version = 2
       /\ e.action = "withdraw-output"
       /\ \E nonce \in {"zero", "n24"} : e.bytes = OutputOf(w, nonce, nonce, e.note)

(* Bytes that hold nothing for the event: no ciphertext, or one of another *)
(* event or deployment, under another nonce, or of other material.         *)
Unopenable(e) ==
    \/ e.bytes.version = 0
    \/ e.bytes.ciphertext = None
    \/ e.bytes.ciphertext.key.info # e.commitment
    \/ e.bytes.ciphertext.aad.chain # D.chain
    \/ e.bytes.ciphertext.aad.pool # <<D.pool, D.spelling>>
    \/ e.bytes.ciphertext.nonce # e.bytes.nonce
    \/ e.bytes.ciphertext.plain.secret # e.note.secret

LEMMA OpenedIs ==
    ASSUME NEW plains, NEW p, plains \subseteq {None, p}
    PROVE  Opened(plains) \in {None, p} /\ (p \in plains /\ p # None => Opened(plains) = p)
<1>1. CASE plains \subseteq {None}
    BY <1>1 DEF Opened
<1>2. CASE ~(plains \subseteq {None})
  <2>1. p \in plains /\ p # None
      BY <1>2
  <2>2. (CHOOSE q \in plains : q # None) \in plains /\ (CHOOSE q \in plains : q # None) # None
      BY <2>1
  <2> QED BY <1>2, <2>2 DEF Opened
<1> QED BY <1>1, <1>2

(* Whatever the readers try, they get the plaintext or nothing, and get it *)
(* only under the event's own key, nonce and associated data.              *)
Fits(e) ==
    /\ e.bytes.ciphertext # None
    /\ e.bytes.ciphertext.key.info = e.commitment
    /\ e.bytes.ciphertext.aad.chain = D.chain
    /\ e.bytes.ciphertext.aad.pool = <<D.pool, D.spelling>>
    /\ e.bytes.ciphertext.nonce = e.bytes.nonce

LEMMA OpenGives ==
    ASSUME NEW e, NEW w, NEW app, NEW epoch, NEW label, NEW plain,
           plain = Open(e.bytes.ciphertext, NoteKey(w, app, epoch, e.commitment), e.bytes.nonce,
                        LabelData(label, e.commitment)), plain # None
    PROVE  /\ plain = e.bytes.ciphertext.plain
           /\ Fits(e)
           /\ e.bytes.ciphertext.key.from = DeriveWalletRecoveryKey(RequestWalletRecoverySignature(w, D), D, app)
BY DEF Open, Fits, NoteKey, DeriveNoteKey, LabelData, MakeRecoveryAssociatedData

(* What the web application tries on an event. *)
WebTries(e, w) ==
    {DecryptEncryptedNoteEnvelope(e.bytes, DeriveNoteKey(rk, e.commitment, epoch),
                                  MakeRecoveryAssociatedData(D, action, e.commitment)) :
        rk \in RecoveryKeys(w), epoch \in {EpochId(D.chain), LegacyEpochId}, action \in CompatibleActions(e.action)}
OutputTries(e, w) ==
    {Open(e.bytes.ciphertext, DeriveNoteKey(rk, e.commitment, epoch), e.bytes.nonce,
          MakeRecoveryAssociatedData(D, "withdraw-output", e.commitment)) :
        rk \in RecoveryKeys(w), epoch \in {EpochId(D.chain), LegacyEpochId}}
SdkTries(e, w) ==
    {SdkDecryptEncryptedNoteEnvelope(e.bytes, SdkDeriveNoteKey(rk, e.commitment, epoch),
                                     SdkMakeRecoveryAssociatedData(D, action, e.commitment)) :
        rk \in SdkRecoveryKeys(w), epoch \in {SdkEpochId(D.chain), LegacyEpochId},
        action \in CompatibleActions(e.action)}

Openable(e, w) ==
    /\ Fits(e)
    /\ \E app \in AppIds : e.bytes.ciphertext.key.from =
                              DeriveWalletRecoveryKey(RequestWalletRecoverySignature(w, D), D, app)

(* The two clients derive the same keys and associated data.               *)
LEMMA SdkDerivesTheSame ==
    /\ \A w, app : SdkDeriveWalletRecoveryKey(SdkRequestWalletRecoverySignature(w, D), D, app)
                     = DeriveWalletRecoveryKey(RequestWalletRecoverySignature(w, D), D, app)
    /\ \A rk, c, epoch : SdkDeriveNoteKey(rk, c, epoch) = DeriveNoteKey(rk, c, epoch)
    /\ \A label, c : SdkMakeRecoveryAssociatedData(D, label, c) = MakeRecoveryAssociatedData(D, label, c)
    /\ SdkEpochId(D.chain) = EpochId(D.chain)
BY DEF SdkDeriveNoteKey, DeriveNoteKey, SdkMakeRecoveryAssociatedData, MakeRecoveryAssociatedData,
       SdkDeriveWalletRecoveryKey, DeriveWalletRecoveryKey, SdkRequestWalletRecoverySignature,
       RequestWalletRecoverySignature, SdkTypedData, TypedData, SdkEpochId, EpochId

LEMMA TriesGive ==
    ASSUME NEW e, NEW w
    PROVE  \A tries \in {WebTries(e, w), OutputTries(e, w), SdkTries(e, w)} :
               /\ tries \subseteq {None, e.bytes.ciphertext.plain}
               /\ Opened(tries) \in {None, e.bytes.ciphertext.plain}
               /\ ~Openable(e, w) => Opened(tries) = None
<1> SUFFICES ASSUME NEW tries \in {WebTries(e, w), OutputTries(e, w), SdkTries(e, w)}
             PROVE  /\ tries \subseteq {None, e.bytes.ciphertext.plain}
                    /\ ~Openable(e, w) => tries \subseteq {None}
  <2>1. \A tries : tries \subseteq {None} => Opened(tries) = None
      BY DEF Opened
  <2> QED BY <2>1, OpenedIs
<1> SUFFICES ASSUME NEW p \in tries, p # None
             PROVE  p = e.bytes.ciphertext.plain /\ Openable(e, w)
    OBVIOUS
<1>1. PICK app \in AppIds : \E epoch, label :
          p = Open(e.bytes.ciphertext, NoteKey(w, app, epoch, e.commitment), e.bytes.nonce,
                   LabelData(label, e.commitment))
  <2>1. CASE p \in WebTries(e, w)
      BY <2>1 DEF WebTries, DecryptEncryptedNoteEnvelope, RecoveryKeys, NoteKey, LabelData
  <2>2. CASE p \in OutputTries(e, w)
      BY <2>2 DEF OutputTries, RecoveryKeys, NoteKey, LabelData
  <2>3. CASE p \in SdkTries(e, w)
    <3>1. PICK app \in AppIds, epoch \in {SdkEpochId(D.chain), LegacyEpochId},
               label \in CompatibleActions(e.action) :
               p = SdkDecryptEncryptedNoteEnvelope(
                       e.bytes,
                       SdkDeriveNoteKey(
                           SdkDeriveWalletRecoveryKey(SdkRequestWalletRecoverySignature(w, D), D, app),
                           e.commitment, epoch),
                       SdkMakeRecoveryAssociatedData(D, label, e.commitment))
        BY <2>3 DEF SdkTries, SdkRecoveryKeys
    <3>2. p = Open(e.bytes.ciphertext, NoteKey(w, app, epoch, e.commitment), e.bytes.nonce,
                   LabelData(label, e.commitment))
        BY <3>1, SdkDerivesTheSame DEF SdkDecryptEncryptedNoteEnvelope, NoteKey, LabelData
    <3> QED BY <3>2
  <2> QED BY <2>1, <2>2, <2>3
<1> QED BY <1>1, OpenGives DEF Openable

LEMMA OutputTried ==
    \A e, w : TryDecryptV2OutputEvent(e, RecoveryKeys(w)) =
        IF \/ ~ValidateEncryptedOutputNoteV2Envelope(e.bytes, D, e.commitment)
           \/ Opened(OutputTries(e, w)) = None
        THEN None
        ELSE [chain |-> D.chain, pool |-> D.pool, amount |-> Opened(OutputTries(e, w)).amount,
              secret |-> Opened(OutputTries(e, w)).secret, commitment |-> e.commitment]
BY DEF TryDecryptV2OutputEvent, OutputTries

LEMMA WebTried ==
    \A e, w : TryDecryptEvent(e, RecoveryKeys(w)) =
        IF e.action = "withdraw-output" /\ e.version = 2 THEN TryDecryptV2OutputEvent(e, RecoveryKeys(w))
        ELSE IF ParseEncryptedNoteEnvelope(e.bytes) = None THEN None
        ELSE Opened(WebTries(e, w))
BY DEF TryDecryptEvent, WebTries

LEMMA SdkTried ==
    \A e, w : SdkTryDecryptEvent(e, SdkRecoveryKeys(w)) =
        IF e.bytes = Empty \/ (e.action = "withdraw-output" /\ e.version = 2) THEN None
        ELSE IF SdkParseEncryptedNoteEnvelope(e.bytes) = None THEN None
        ELSE Opened(SdkTries(e, w))
BY DEF SdkTryDecryptEvent, SdkTries

LEMMA WebOpensBy ==
    ASSUME NEW e, NEW w
    PROVE  /\ WebOpens(e, w) # None => Openable(e, w)
           /\ WebOpens(e, w) # None => WebOpens(e, w).secret = e.bytes.ciphertext.plain.secret
           /\ WebOpens(e, w) # None => Commitment(WebOpens(e, w)) = e.commitment
<1>1. \A tries \in {WebTries(e, w), OutputTries(e, w)} : Opened(tries) \in {None, e.bytes.ciphertext.plain}
    BY TriesGive
<1>2. ~Openable(e, w) => Opened(WebTries(e, w)) = None /\ Opened(OutputTries(e, w)) = None
    BY TriesGive
<1>3. TryDecryptV2OutputEvent(e, RecoveryKeys(w)) # None =>
          Openable(e, w) /\ TryDecryptV2OutputEvent(e, RecoveryKeys(w)).secret = e.bytes.ciphertext.plain.secret
    BY <1>1, <1>2, OutputTried
<1>4. TryDecryptEvent(e, RecoveryKeys(w)) # None =>
          Openable(e, w) /\ TryDecryptEvent(e, RecoveryKeys(w)).secret = e.bytes.ciphertext.plain.secret
    BY <1>1, <1>2, <1>3, WebTried
<1> QED BY <1>4 DEF WebOpens

LEMMA SdkOpensBy ==
    ASSUME NEW e, NEW w
    PROVE  /\ SdkOpens(e, w) # None => Openable(e, w)
           /\ SdkOpens(e, w) # None => SdkOpens(e, w) = e.bytes.ciphertext.plain
           /\ SdkOpens(e, w) # None => Commitment(SdkOpens(e, w)) = e.commitment
<1>1. Opened(SdkTries(e, w)) \in {None, e.bytes.ciphertext.plain}
    BY TriesGive
<1>2. ~Openable(e, w) => Opened(SdkTries(e, w)) = None
    BY TriesGive
<1>3. SdkTryDecryptEvent(e, SdkRecoveryKeys(w)) # None =>
          Openable(e, w) /\ SdkTryDecryptEvent(e, SdkRecoveryKeys(w)) = e.bytes.ciphertext.plain
    BY <1>1, <1>2, SdkTried
<1> QED BY <1>3 DEF SdkOpens

LEMMA SdkOutputClosed ==
    ASSUME NEW e, NEW w, e.action = "withdraw-output", e.version = 2
    PROVE  SdkOpens(e, w) = None
<1>1. SdkTryDecryptEvent(e, SdkRecoveryKeys(w)) = None
    BY SdkTried
<1> QED BY <1>1 DEF SdkOpens

Keeps(e) == e.note \in Material /\ e.commitment = Commitment(e.note)

LEMMA NoBytesClosed ==
    ASSUME NEW e, NEW w, e.bytes.version = 0
    PROVE  WebOpens(e, w) = None /\ SdkOpens(e, w) = None
<1>1. TryDecryptEvent(e, RecoveryKeys(w)) = None
    BY WebTried, OutputTried DEF ParseEncryptedNoteEnvelope, ValidateEncryptedOutputNoteV2Envelope, V2ShapeOK
<1>2. SdkTryDecryptEvent(e, SdkRecoveryKeys(w)) = None
    BY SdkTried DEF SdkParseEncryptedNoteEnvelope
<1> QED BY <1>1, <1>2 DEF WebOpens, SdkOpens

LEMMA UnopenableClosed ==
    ASSUME NEW e, NEW w, Keeps(e), Unopenable(e)
    PROVE  WebOpens(e, w) = None /\ SdkOpens(e, w) = None
<1>1. CASE e.bytes.version = 0
    BY <1>1, NoBytesClosed
<1>2. CASE e.bytes.ciphertext.plain.secret # e.note.secret
  <2>1. /\ WebOpens(e, w) # None => WebOpens(e, w).secret = e.bytes.ciphertext.plain.secret
        /\ WebOpens(e, w) # None => Commitment(WebOpens(e, w)) = e.commitment
        /\ SdkOpens(e, w) # None => SdkOpens(e, w) = e.bytes.ciphertext.plain
        /\ SdkOpens(e, w) # None => Commitment(SdkOpens(e, w)) = e.commitment
      BY WebOpensBy, SdkOpensBy
  <2>2. \A plain : plain.secret # e.note.secret => Commitment(plain) # e.commitment
      BY DEF Keeps, Commitment
  <2> QED BY <1>2, <2>1, <2>2
<1>3. CASE ~Fits(e)
    BY <1>3, WebOpensBy, SdkOpensBy DEF Openable
<1> QED BY <1>1, <1>2, <1>3 DEF Unopenable, Fits

(* The ciphertext of an event that was written for a wallet.               *)
LEMMA WrittenSealed ==
    ASSUME NEW e, NEW v, WrittenFor(e, v)
    PROVE  \E app \in AppIds :
               e.bytes.ciphertext.key.from = DeriveWalletRecoveryKey(RequestWalletRecoverySignature(v, D), D, app)
<1>1. ASSUME NEW app \in AppIds, NEW epoch, NEW label, e.bytes = EnvelopeV1Of(v, app, epoch, label, e.note)
      PROVE  e.bytes.ciphertext.key.from = DeriveWalletRecoveryKey(RequestWalletRecoverySignature(v, D), D, app)
    BY <1>1 DEF EnvelopeV1Of, EncryptSpendMaterialEnvelope, Seal, NoteKey, DeriveNoteKey
<1>2. ASSUME NEW nonce, e.bytes = OutputOf(v, nonce, nonce, e.note)
      PROVE  e.bytes.ciphertext.key.from = DeriveWalletRecoveryKey(RequestWalletRecoverySignature(v, D), D, AppId)
    BY <1>2 DEF OutputOf, OutputSeal, EnvelopeV2, Seal, NoteKey, DeriveNoteKey
<1>3. AppId \in AppIds
    BY DEF AppIds
<1> QED BY <1>1, <1>2, <1>3 DEF WrittenFor

LEMMA ForeignClosed ==
    ASSUME NEW e, NEW w, NEW v, v # w, WrittenFor(e, v)
    PROVE  WebOpens(e, w) = None /\ SdkOpens(e, w) = None
<1>1. ~Openable(e, w)
  <2>1. \A u, app : DeriveWalletRecoveryKey(RequestWalletRecoverySignature(u, D), D, app).from.signer = u
      BY RecoveryConstants DEF DeriveWalletRecoveryKey, RequestWalletRecoverySignature, Signature
  <2>2. PICK app : e.bytes.ciphertext.key.from = DeriveWalletRecoveryKey(RequestWalletRecoverySignature(v, D), D, app)
      BY WrittenSealed
  <2> QED BY <2>1, <2>2 DEF Openable
<1> QED BY <1>1, WebOpensBy, SdkOpensBy

(* An event that was written for the wallet opens, to the note.            *)
LEMMA WrittenV1Opens ==
    ASSUME NEW e, NEW w \in Wallets, Keeps(e), e.note.amount > 0, e.version = 1, WrittenFor(e, w)
    PROVE  /\ WebOpens(e, w) = SpendMaterial(e.note, D)
           /\ SdkOpens(e, w) = SpendMaterial(e.note, D)
<1> DEFINE p == SpendMaterial(e.note, D)
           c == e.commitment
<1>1. PICK app \in AppIds, epoch \in Epochs, label \in CompatibleActions(e.action) :
          /\ e.action \in {"deposit", "withdraw-change", "withdraw-output"}
          /\ e.bytes = EnvelopeV1Of(w, app, epoch, label, e.note)
    BY DEF WrittenFor
<1>2. /\ e.bytes = [version |-> 1, nonce |-> "n12", ciphertext |-> e.bytes.ciphertext]
      /\ e.bytes.ciphertext = Seal(NoteKey(w, app, epoch, c), "n12", LabelData(label, c), p)
    BY <1>1 DEF EnvelopeV1Of, EncryptSpendMaterialEnvelope, Keeps
<1>3. /\ c \in Material /\ p \in SpendMaterials /\ p # None
      /\ Commitment(p) = c /\ p.amount > 0 /\ p.chain = D.chain /\ p.pool = D.pool
    BY RecoveryConstants, NoneIsNoValue DEF Keeps, Commitment, SpendMaterial, SpendMaterials, Material
<1>4. e.bytes.ciphertext # None /\ e.bytes # None
  <2>1. label \in Labels
      BY <1>1 DEF CompatibleActions, Labels
  <2>2. NoteKey(w, app, epoch, c) \in NoteKeys
      BY <1>3 DEF NoteKey, NoteKeys, DeriveNoteKey, Epochs
  <2>3. LabelData(label, c) \in RecoveryAssociatedData
      BY <1>3, <2>1 DEF LabelData, MakeRecoveryAssociatedData, RecoveryAssociatedData
  <2>4. e.bytes.ciphertext \in Sealed
      BY <1>2, <1>3, <2>2, <2>3 DEF Seal, Sealed
  <2>5. e.bytes \in EnvelopesV1
      BY <1>2, <2>4 DEF EnvelopesV1
  <2> QED BY <2>4, <2>5, NoneIsNoValue
<1>5. Open(e.bytes.ciphertext, NoteKey(w, app, epoch, c), "n12", LabelData(label, c)) = p
    BY <1>2, <1>4 DEF Open, Seal
<1>6. e.bytes.ciphertext.plain = p /\ e.bytes.version = 1 /\ e.bytes.nonce = "n12"
    BY <1>2 DEF Seal
<1> HIDE DEF p, c
<1>7. p \in WebTries(e, w)
    BY <1>5, <1>6 DEF WebTries, RecoveryKeys, NoteKey, LabelData, Epochs, DecryptEncryptedNoteEnvelope, c
<1>8. p \in SdkTries(e, w)
  <2>1. p = SdkDecryptEncryptedNoteEnvelope(
                e.bytes,
                SdkDeriveNoteKey(SdkDeriveWalletRecoveryKey(SdkRequestWalletRecoverySignature(w, D), D, app),
                                 e.commitment, epoch),
                SdkMakeRecoveryAssociatedData(D, label, e.commitment))
    <3>1. p.chain > 0
        BY <1>3, RecoveryConstants DEF Chains
    <3> QED BY <1>3, <1>5, <1>6, <3>1, SdkDerivesTheSame
            DEF SdkDecryptEncryptedNoteEnvelope, SdkValidSpendMaterial, NoteKey, LabelData, c
  <2> QED BY <2>1, SdkDerivesTheSame DEF SdkTries, SdkRecoveryKeys, Epochs
<1>9. Opened(WebTries(e, w)) = p /\ Opened(SdkTries(e, w)) = p
    BY <1>3, <1>6, <1>7, <1>8, TriesGive, OpenedIs
<1>10. e.bytes # Empty
    BY <1>6 DEF Empty
<1>11. TryDecryptEvent(e, RecoveryKeys(w)) = p /\ SdkTryDecryptEvent(e, SdkRecoveryKeys(w)) = p
    BY <1>4, <1>6, <1>9, <1>10, WebTried, SdkTried DEF ParseEncryptedNoteEnvelope, SdkParseEncryptedNoteEnvelope
<1> QED BY <1>3, <1>10, <1>11 DEF WebOpens, SdkOpens, p, c

LEMMA WrittenV2Opens ==
    ASSUME NEW e, NEW w \in Wallets, Keeps(e), e.note.amount > 0, e.version = 2, WrittenFor(e, w)
    PROVE  /\ WebOpens(e, w) = SpendMaterial(e.note, D)
           /\ SdkOpens(e, w) = None
           /\ e.action = "withdraw-output"
           /\ SdkValidateEncryptedOutputNoteV2Envelope(e.bytes, D, e.commitment)
<1> DEFINE p == [amount |-> e.note.amount, secret |-> e.note.secret]
           c == e.commitment
<1>1. PICK nonce \in {"zero", "n24"} :
          e.action = "withdraw-output" /\ e.bytes = OutputOf(w, nonce, nonce, e.note)
    BY DEF WrittenFor
<1>2. /\ e.bytes.version = 2 /\ e.bytes.chain = D.chain /\ e.bytes.contract = D.pool
      /\ e.bytes.commitment = c /\ e.bytes.nonce = nonce
      /\ e.bytes.size = 239 /\ e.bytes.padding = 17
      /\ e.bytes.ciphertext = Seal(NoteKey(w, AppId, EpochId(D.chain), c), nonce,
                                   LabelData("withdraw-output", c), p)
    BY <1>1 DEF OutputOf, OutputSeal, EnvelopeV2, Keeps, CompactPayloadBytes, PaddedBytes, AmountDigits
<1>3. c \in Material /\ p \in Material /\ p # None
    BY NoneIsNoValue DEF Keeps, Commitment, Material
<1>4. e.bytes.ciphertext # None
  <2>1. NoteKey(w, AppId, EpochId(D.chain), c) \in NoteKeys
      BY <1>3 DEF NoteKey, NoteKeys, DeriveNoteKey, AppIds
  <2>2. LabelData("withdraw-output", c) \in RecoveryAssociatedData
      BY <1>3 DEF LabelData, MakeRecoveryAssociatedData, RecoveryAssociatedData, Labels
  <2>3. e.bytes.ciphertext \in Sealed
      BY <1>2, <1>3, <2>1, <2>2 DEF Seal, Sealed
  <2> QED BY <2>3, NoneIsNoValue
<1>5. /\ Open(e.bytes.ciphertext, NoteKey(w, AppId, EpochId(D.chain), c), e.bytes.nonce,
              LabelData("withdraw-output", c)) = p
      /\ e.bytes.ciphertext.plain = p
    BY <1>2, <1>4 DEF Open, Seal
<1>6. SdkOpens(e, w) = None
    BY <1>1, SdkOutputClosed
<1>7. /\ SdkValidateEncryptedOutputNoteV2Envelope(e.bytes, D, e.commitment)
      /\ ValidateEncryptedOutputNoteV2Envelope(e.bytes, D, e.commitment)
    BY <1>2, RecoveryConstants
       DEF SdkValidateEncryptedOutputNoteV2Envelope, ValidateEncryptedOutputNoteV2Envelope,
           SdkV2ShapeOK, V2ShapeOK, V2BoundTo, PaddedBytes
<1> HIDE DEF p, c
<1>8. p \in OutputTries(e, w)
    BY <1>5 DEF OutputTries, RecoveryKeys, NoteKey, LabelData, AppIds, c
<1>9. Opened(OutputTries(e, w)) = p
    BY <1>3, <1>5, <1>8, TriesGive, OpenedIs
<1>10. TryDecryptEvent(e, RecoveryKeys(w)) = SpendMaterial(e.note, D)
  <2>1. TryDecryptEvent(e, RecoveryKeys(w)) =
            [chain |-> D.chain, pool |-> D.pool, amount |-> p.amount, secret |-> p.secret, commitment |-> c]
      BY <1>1, <1>3, <1>7, <1>9, WebTried, OutputTried DEF c
  <2> QED BY <2>1 DEF SpendMaterial, p, c, Keeps
<1>11. /\ SpendMaterial(e.note, D) # None /\ Commitment(SpendMaterial(e.note, D)) = c
       /\ SpendMaterial(e.note, D).amount > 0
  <2>1. SpendMaterial(e.note, D) \in SpendMaterials
      BY <1>3, RecoveryConstants DEF SpendMaterial, SpendMaterials, Material, Keeps, Commitment
  <2> QED BY <2>1, NoneIsNoValue DEF SpendMaterial, Commitment, Keeps, c
<1>12. e.bytes # Empty
    BY <1>2 DEF Empty
<1> QED BY <1>1, <1>6, <1>7, <1>10, <1>11, <1>12 DEF WebOpens, c

-----------------------------------------------------------------------------
(* The events of the chain.                                                *)

(* The bytes of an event, also where they are of another one, were made    *)
(* for a note that is not younger than the event.                          *)
NotYounger(bytes, i) ==
    \/ bytes.version = 0
    \/ bytes.ciphertext = None
    \/ bytes.ciphertext.key.info.secret \in 1..i

EventOK(e, i) ==
    /\ Keeps(e) /\ e.note.secret = i
    /\ NotYounger(e.bytes, i)
    /\ e.owner \in Wallets => e.note.amount > 0 /\ WrittenFor(e, e.owner)
    /\ e.owner \notin Wallets => Unopenable(e)

IsSequence(s) == \E S : s \in Seq(S)

EventsOK ==
    /\ IsSequence(logs)
    /\ \A i \in 1..Len(logs) : EventOK(logs[i], i)

LEMMA Appended ==
    ASSUME NEW s, IsSequence(s), NEW x
    PROVE  /\ IsSequence(Append(s, x))
           /\ Len(s) \in Nat /\ Len(Append(s, x)) = Len(s) + 1
           /\ Append(s, x)[Len(s) + 1] = x
           /\ \A i \in 1..Len(s) : Append(s, x)[i] = s[i]
<1>1. PICK S : s \in Seq(S)
    BY DEF IsSequence
<1>2. s \in Seq(S \cup {x})
    BY <1>1
<1>3. Append(s, x) \in Seq(S \cup {x})
    BY <1>2
<1> QED BY <1>2, <1>3 DEF IsSequence

(* The event that a writer makes.                                          *)
EventOf(action, version, note, bytes, owner) ==
    [action |-> action, version |-> version, commitment |-> Commitment(note),
     bytes |-> bytes, owner |-> owner, note |-> note]

LEMMA EventOfIs ==
    ASSUME NEW action, NEW version, NEW note, NEW bytes, NEW owner
    PROVE  LET e == EventOf(action, version, note, bytes, owner)
           IN  /\ e.action = action /\ e.version = version /\ e.commitment = Commitment(note)
               /\ e.bytes = bytes /\ e.owner = owner /\ e.note = note
BY DEF EventOf

LEMMA FreshIs ==
    ASSUME EventsOK
    PROVE  /\ Len(logs) \in Nat /\ Fresh \in Material /\ Fresh.secret = Len(logs) + 1 /\ Fresh.amount = 1
           /\ Commitment(Fresh) \in Material /\ Commitment(Fresh).secret = Len(logs) + 1
<1>1. Len(logs) \in Nat
    BY DEF EventsOK, IsSequence
<1> QED BY <1>1 DEF Fresh, NoteOf, Material, Commitment

LEMMA V1EventOK ==
    ASSUME EventsOK, NEW w \in Wallets, NEW app \in AppIds, NEW epoch \in Epochs,
           NEW action \in {"deposit", "withdraw-change", "withdraw-output"}, NEW label \in CompatibleActions(action)
    PROVE  EventOK(EventOf(action, 1, Fresh, EnvelopeV1Of(w, app, epoch, label, Fresh), w), Len(logs) + 1)
<1> DEFINE b == EnvelopeV1Of(w, app, epoch, label, Fresh)
           e == EventOf(action, 1, Fresh, b, w)
<1>1. /\ e.action = action /\ e.version = 1 /\ e.commitment = Commitment(Fresh)
      /\ e.bytes = b /\ e.owner = w /\ e.note = Fresh
    BY EventOfIs
<1>2. b.ciphertext.key.info = Commitment(Fresh)
    BY DEF EnvelopeV1Of, EncryptSpendMaterialEnvelope, Seal, NoteKey, DeriveNoteKey
<1> HIDE DEF b, e
<1>3. WrittenFor(e, w)
    BY <1>1 DEF WrittenFor, b
<1>4. NotYounger(e.bytes, Len(logs) + 1)
    BY <1>1, <1>2, FreshIs DEF NotYounger
<1>5. EventOK(e, Len(logs) + 1)
    BY <1>1, <1>3, <1>4, FreshIs DEF EventOK, Keeps
<1> QED BY <1>5 DEF e, b

LEMMA OutputEventOK ==
    ASSUME EventsOK, NEW w \in Wallets, NEW stated \in {"zero", "n24"}, NEW used \in {"zero", "n24"}
    PROVE  EventOK(EventOf("withdraw-output", 2, Fresh, OutputOf(w, stated, used, Fresh),
                           IF stated = used THEN w ELSE None), Len(logs) + 1)
<1> DEFINE b == OutputOf(w, stated, used, Fresh)
           e == EventOf("withdraw-output", 2, Fresh, b, IF stated = used THEN w ELSE None)
<1>1. /\ e.action = "withdraw-output" /\ e.version = 2 /\ e.commitment = Commitment(Fresh)
      /\ e.bytes = b /\ e.owner = (IF stated = used THEN w ELSE None) /\ e.note = Fresh
    BY EventOfIs
<1>2. b.ciphertext.key.info = Commitment(Fresh) /\ b.nonce = stated /\ b.ciphertext.nonce = used
    BY DEF OutputOf, OutputSeal, EnvelopeV2, Seal, NoteKey, DeriveNoteKey
<1> HIDE DEF b, e
<1>3. stated = used => WrittenFor(e, w)
    BY <1>1 DEF WrittenFor, b
<1>4. NotYounger(e.bytes, Len(logs) + 1)
    BY <1>1, <1>2, FreshIs DEF NotYounger
<1>5. stated # used => Unopenable(e) /\ e.owner \notin Wallets
    BY <1>1, <1>2, NoneIsNoValue DEF Unopenable
<1>6. EventOK(e, Len(logs) + 1)
    BY <1>1, <1>3, <1>4, <1>5, FreshIs DEF EventOK, Keeps
<1> QED BY <1>6 DEF e, b

LEMMA StrayEventOK ==
    ASSUME EventsOK, NEW w \in Wallets, NEW bytes \in StrayBytes(w), NEW action, NEW version
    PROVE  EventOK(EventOf(action, version, Fresh, bytes, None), Len(logs) + 1)
<1> DEFINE e == EventOf(action, version, Fresh, bytes, None)
<1>1. e.commitment = Commitment(Fresh) /\ e.bytes = bytes /\ e.owner = None /\ e.note = Fresh
    BY EventOfIs
<1> SUFFICES EventOK(e, Len(logs) + 1)
    OBVIOUS
<1> HIDE DEF e
<1>2. NotYounger(bytes, Len(logs) + 1) /\ Unopenable(e) => EventOK(e, Len(logs) + 1)
  <2>1. Keeps(e) /\ e.note.secret = Len(logs) + 1
      BY <1>1, FreshIs DEF Keeps
  <2>2. e.owner \notin Wallets
      BY <1>1, NoneIsNoValue
  <2> QED BY <1>1, <2>1, <2>2 DEF EventOK
<1>3. CASE bytes \in {Empty, Garbage}
  <2>1. bytes.version = 0
      BY <1>3 DEF Empty, Garbage
  <2> QED BY <1>2, <1>1, <2>1 DEF Unopenable, NotYounger
<1>4. CASE bytes \in {logs[i].bytes : i \in 1..Len(logs)}
  <2>1. PICK i \in 1..Len(logs) : bytes = logs[i].bytes
      BY <1>4
  <2>2. NotYounger(bytes, i)
      BY <2>1 DEF EventsOK, EventOK
  <2>3. NotYounger(bytes, Len(logs) + 1) /\ Unopenable(e)
      BY <1>1, <2>1, <2>2, FreshIs DEF NotYounger, Unopenable
  <2> QED BY <1>2, <2>3
<1>5. ASSUME NEW d, NEW plain,
             \/ d = Elsewhere
             \/ d = D /\ plain = SpendMaterial(NoteOf(0), D),
             bytes = EncryptSpendMaterialEnvelope(
                         DeriveNoteKey(DeriveWalletRecoveryKey(RequestWalletRecoverySignature(w, d), d, AppId),
                                       Commitment(Fresh), EpochId(d.chain)),
                         MakeRecoveryAssociatedData(d, "deposit", Commitment(Fresh)), plain)
      PROVE  EventOK(e, Len(logs) + 1)
  <2>1. /\ bytes.ciphertext.key.info = Commitment(Fresh)
        /\ bytes.ciphertext.aad.chain = d.chain
        /\ bytes.ciphertext.aad.pool = <<d.pool, d.spelling>>
        /\ bytes.ciphertext.plain = plain
      BY <1>5 DEF EncryptSpendMaterialEnvelope, Seal, DeriveNoteKey, MakeRecoveryAssociatedData
  <2>2. NotYounger(bytes, Len(logs) + 1)
      BY <2>1, FreshIs DEF NotYounger
  <2>3. CASE d = Elsewhere
    <3>1. d.chain # D.chain \/ <<d.pool, d.spelling>> # <<D.pool, D.spelling>>
        BY <2>3, RecoveryConstants
    <3> QED BY <1>2, <1>1, <2>1, <2>2, <3>1, FreshIs DEF Unopenable
  <2>4. CASE plain = SpendMaterial(NoteOf(0), D)
    <3>1. plain.secret = 0
        BY <2>4 DEF SpendMaterial, NoteOf
    <3> QED BY <1>2, <1>1, <2>1, <2>2, <3>1, FreshIs DEF Unopenable
  <2> QED BY <1>5, <2>3, <2>4
<1>6. CASE bytes \notin {Empty, Garbage} /\ bytes \notin {logs[i].bytes : i \in 1..Len(logs)}
  <2>1. \/ bytes = EncryptSpendMaterialEnvelope(
                      DeriveNoteKey(DeriveWalletRecoveryKey(RequestWalletRecoverySignature(w, Elsewhere), Elsewhere, AppId),
                                    Commitment(Fresh), EpochId(Elsewhere.chain)),
                      MakeRecoveryAssociatedData(Elsewhere, "deposit", Commitment(Fresh)), SpendMaterial(Fresh, Elsewhere))
        \/ bytes = EncryptSpendMaterialEnvelope(
                      DeriveNoteKey(DeriveWalletRecoveryKey(RequestWalletRecoverySignature(w, D), D, AppId),
                                    Commitment(Fresh), EpochId(D.chain)),
                      MakeRecoveryAssociatedData(D, "deposit", Commitment(Fresh)), SpendMaterial(NoteOf(0), D))
      BY <1>6 DEF StrayBytes
  <2> QED BY <1>5, <2>1
<1> QED BY <1>3, <1>4, <1>6

LEMMA EventEmitted ==
    ASSUME EventsOK, NEW action, NEW version, NEW note, NEW bytes, NEW owner,
           Emit(action, version, note, bytes, owner),
           EventOK(EventOf(action, version, note, bytes, owner), Len(logs) + 1)
    PROVE  /\ EventsOK' /\ Len(logs) \in Nat /\ Len(logs') = Len(logs) + 1
           /\ \A i \in 1..Len(logs) : logs'[i] = logs[i]
<1> DEFINE e == EventOf(action, version, note, bytes, owner)
<1>1. logs' = Append(logs, e)
    BY DEF Emit, EventOf
<1> HIDE DEF e
<1>2. /\ IsSequence(logs') /\ Len(logs) \in Nat /\ Len(logs') = Len(logs) + 1
      /\ logs'[Len(logs) + 1] = e
      /\ \A i \in 1..Len(logs) : logs'[i] = logs[i]
    BY <1>1, Appended DEF EventsOK
<1>3. ASSUME NEW i \in 1..Len(logs')
      PROVE  EventOK(logs'[i], i)
  <2>1. CASE i = Len(logs) + 1
      BY <1>2, <2>1 DEF e
  <2>2. CASE i \in 1..Len(logs)
      BY <1>2, <2>2 DEF EventsOK
  <2> QED BY <1>2, <2>1, <2>2
<1> QED BY <1>2, <1>3 DEF EventsOK

Grows ==
    /\ EventsOK' /\ Len(logs) \in Nat /\ Len(logs') = Len(logs) + 1
    /\ \A i \in 1..Len(logs) : logs'[i] = logs[i]

LEMMA WriteGrows ==
    ASSUME EventsOK, Write
    PROVE  Grows
<1>1. ASSUME NEW w \in Wallets, NEW app \in AppIds, NEW epoch \in Epochs,
             NEW action \in {"deposit", "withdraw-change", "withdraw-output"}, NEW label \in CompatibleActions(action),
             Emit(action, 1, Fresh, EnvelopeV1Of(w, app, epoch, label, Fresh), w)
      PROVE  Grows
    BY <1>1, V1EventOK, EventEmitted DEF Grows
<1>2. ASSUME NEW w \in Wallets, NEW action \in {"deposit", "withdraw-change"},
             Emit(action, 1, Fresh, EncryptSpendMaterialForWalletRecovery(w, Fresh, action), w)
      PROVE  Grows
  <2>1. EncryptSpendMaterialForWalletRecovery(w, Fresh, action) =
            EnvelopeV1Of(w, AppId, EpochId(D.chain), action, Fresh)
      BY DEF EncryptSpendMaterialForWalletRecovery, EnvelopeV1Of, NoteKey, LabelData
  <2>2. action \in CompatibleActions(action) /\ AppId \in AppIds /\ EpochId(D.chain) \in Epochs
      BY DEF CompatibleActions, AppIds, Epochs
  <2> QED BY <1>1, <1>2, <2>1, <2>2
<1>3. ASSUME NEW w \in Wallets, SdkDeposit(w)
      PROVE  Grows
  <2>1. Emit("deposit", 1, Fresh, EnvelopeV1Of(w, AppId, EpochId(D.chain), "deposit", Fresh), w)
      BY <1>3, SdkDerivesTheSame
         DEF SdkDeposit, EnvelopeV1Of, NoteKey, LabelData, SdkEncryptSpendMaterialEnvelope, EncryptSpendMaterialEnvelope
  <2>2. "deposit" \in CompatibleActions("deposit") /\ AppId \in AppIds /\ EpochId(D.chain) \in Epochs
      BY DEF CompatibleActions, AppIds, Epochs
  <2> QED BY <1>1, <2>1, <2>2
<1>4. ASSUME NEW w \in Wallets, WebOutput(w)
      PROVE  Grows
  <2>1. Emit("withdraw-output", 2, Fresh, OutputOf(w, "n24", "n24", Fresh), w)
    <3>1. w # None
        BY NoneIsNoValue
    <3>2. CreateEncryptedOutputNoteV2Envelope(D, Commitment(Fresh), EncryptOutputNoteForWithdrawal(w, Fresh)) =
              OutputOf(w, "n24", "n24", Fresh)
      <4>1. EncryptOutputNoteForWithdrawal(w, Fresh) =
                [nonce |-> "n24", bytes |-> CompactPayloadBytes, ciphertext |-> OutputSeal(w, "n24", Fresh)]
          BY <3>1 DEF EncryptOutputNoteForWithdrawal, EncryptCompactOutputNoteV2Payload, OutputSeal, NoteKey,
                      LabelData, SpendMaterial
      <4>2. ~(CompactPayloadBytes > PaddedBytes)
          BY DEF CompactPayloadBytes, PaddedBytes, AmountDigits
      <4> QED BY <4>1, <4>2, RecoveryConstants DEF CreateEncryptedOutputNoteV2Envelope, OutputOf
    <3> QED BY <1>4, <3>1, <3>2 DEF WebOutput
  <2> QED BY <2>1, OutputEventOK, EventEmitted DEF Grows
<1>5. ASSUME WebOutput(None)
      PROVE  Grows
  <2> DEFINE note == [Fresh EXCEPT !.amount = 0]
             bytes == EnvelopeV2(D, Commitment(note), "zero", None, 32)
             e == EventOf("withdraw-output", 2, note, bytes, None)
  <2>1. Emit("withdraw-output", 2, note, bytes, None)
    <3>1. CreateEncryptedOutputNoteV2Envelope(D, Commitment(note), EncryptOutputNoteForWithdrawal(None, note)) = bytes
        BY RecoveryConstants DEF CreateEncryptedOutputNoteV2Envelope, EncryptOutputNoteForWithdrawal, PaddedBytes
    <3> QED BY <1>5, <3>1 DEF WebOutput
  <2>2. note \in Material /\ note.secret = Len(logs) + 1
      BY FreshIs DEF Material
  <2>3. bytes.ciphertext = None
      BY DEF EnvelopeV2
  <2>4. e.commitment = Commitment(note) /\ e.bytes = bytes /\ e.owner = None /\ e.note = note
      BY EventOfIs
  <2> HIDE DEF note, bytes, e
  <2>5. EventOK(e, Len(logs) + 1)
    <3>1. Keeps(e) /\ e.note.secret = Len(logs) + 1 /\ NotYounger(e.bytes, Len(logs) + 1) /\ Unopenable(e)
        BY <2>2, <2>3, <2>4 DEF Keeps, NotYounger, Unopenable
    <3> QED BY <2>4, <3>1, NoneIsNoValue DEF EventOK
  <2> QED BY <2>1, <2>5, EventEmitted DEF e, Grows
<1>6. ASSUME NEW w \in Wallets, NEW nonce \in {"zero", "n24"}, SdkOutput(w, nonce)
      PROVE  Grows
  <2>1. Emit("withdraw-output", 2, Fresh, OutputOf(w, "zero", nonce, Fresh), IF "zero" = nonce THEN w ELSE None)
    <3> DEFINE key == DeriveNoteKey(DeriveWalletRecoveryKey(RequestWalletRecoverySignature(w, D), D, AppId),
                                    Commitment(Fresh), EpochId(D.chain))
               sealed == EncryptCompactOutputNoteV2Payload(key,
                           MakeRecoveryAssociatedData(D, "withdraw-output", Commitment(Fresh)), SpendMaterial(Fresh, D))
               payload == [nonce |-> nonce, bytes |-> sealed.bytes,
                           ciphertext |-> [sealed.ciphertext EXCEPT !.nonce = nonce]]
    <3>1. payload = [nonce |-> nonce, bytes |-> CompactPayloadBytes, ciphertext |-> OutputSeal(w, nonce, Fresh)]
      <4>1. sealed = [nonce |-> "n24", bytes |-> CompactPayloadBytes, ciphertext |-> OutputSeal(w, "n24", Fresh)]
          BY DEF EncryptCompactOutputNoteV2Payload, OutputSeal, NoteKey, LabelData, SpendMaterial
      <4>2. [OutputSeal(w, "n24", Fresh) EXCEPT !.nonce = nonce] = OutputSeal(w, nonce, Fresh)
          BY DEF OutputSeal, Seal
      <4> HIDE DEF sealed
      <4> QED BY <4>1, <4>2
    <3> HIDE DEF payload
    <3>2. ~(CompactPayloadBytes > PaddedBytes)
        BY DEF CompactPayloadBytes, PaddedBytes, AmountDigits
    <3>3. SdkCreateEncryptedOutputNoteV2Envelope(D, Commitment(Fresh), payload) = OutputOf(w, "zero", nonce, Fresh)
        BY <3>1, <3>2, RecoveryConstants DEF SdkCreateEncryptedOutputNoteV2Envelope, OutputOf
    <3>4. Emit("withdraw-output", 2, Fresh, SdkCreateEncryptedOutputNoteV2Envelope(D, Commitment(Fresh), payload),
               IF nonce = "zero" THEN w ELSE None)
        BY <1>6 DEF SdkOutput, payload
    <3> QED BY <3>3, <3>4
  <2> QED BY <2>1, OutputEventOK, EventEmitted DEF Grows
<1>7. ASSUME NEW w \in Wallets, NEW app \in AppIds, NEW epoch \in Epochs, NEW form \in LegacyLabels,
             LegacyNote(w, app, epoch, form)
      PROVE  Grows
  <2>1. Emit(form.action, 1, Fresh, EnvelopeV1Of(w, app, epoch, form.label, Fresh), w)
      BY <1>7 DEF LegacyNote, EnvelopeV1Of, NoteKey, LabelData
  <2>2. /\ form.action \in {"deposit", "withdraw-change", "withdraw-output"}
        /\ form.label \in CompatibleActions(form.action)
      BY DEF LegacyLabels, CompatibleActions
  <2> QED BY <1>1, <2>1, <2>2
<1>8. ASSUME NEW w \in Wallets, NEW bytes \in StrayBytes(w), StrayNote(bytes)
      PROVE  Grows
  <2>1. PICK kind : Emit(kind[1], kind[2], Fresh, bytes, None)
      BY <1>8 DEF StrayNote
  <2>2. EventOK(EventOf(kind[1], kind[2], Fresh, bytes, None), Len(logs) + 1)
      BY StrayEventOK
  <2> QED BY <2>1, <2>2, EventEmitted DEF Grows
<1>9. Scanners \subseteq Wallets
    BY RecoveryConstants
<1> QED BY <1>2, <1>3, <1>4, <1>5, <1>6, <1>7, <1>8, <1>9 DEF Write, WebDeposit, WebChange, Epochs

-----------------------------------------------------------------------------
(* A scan and a kit.                                                       *)

(* The events that a scan up to a block is about.                          *)
UpTo(head) == {b \in 1..Len(logs) : BlockOf(b) <= head}

LogsScan ==
    /\ scan \in [pc : {"logs"}, reader : Readers, wallet : Scanners, spentBefore : SUBSET spentLeaves,
                 head : Nat, cursor : Nat, fetched : SUBSET Nat]
    /\ scan.head <= HeadBlock
    /\ scan.fetched = {b \in UpTo(scan.head) : BlockOf(b) < scan.cursor}

(* A record of the scan is one of an event that it has opened.             *)
RecordOK(r, s) ==
    /\ r.leaf + 1 \in Findable(s.reader, s.wallet, s.head) \ s.todo
    /\ r.amount = logs[r.leaf + 1].note.amount /\ r.secret = logs[r.leaf + 1].note.secret
    /\ r.commitment = logs[r.leaf + 1].commitment
    /\ r.amount > 0
    /\ r.spent => r.leaf \in spentLeaves
    /\ r.leaf \in s.spentBefore \ s.blind => r.spent

EventScans ==
    [pc : {"events", "done"}, reader : Readers, wallet : Scanners, spentBefore : SUBSET spentLeaves,
     head : Nat, todo : SUBSET Nat, found : SUBSET NoteRecords, blind : SUBSET Nat]

EventsScan ==
    /\ scan \in EventScans
    /\ scan.head <= HeadBlock
    /\ scan.todo \subseteq UpTo(scan.head)
    /\ scan.pc = "done" => scan.todo = {}
    /\ \A r \in scan.found : RecordOK(r, scan)
    /\ \A b \in Findable(scan.reader, scan.wallet, scan.head) \ scan.todo :
          \E r \in scan.found : r.leaf = b - 1

ScanOK ==
    \/ scan = Idle
    \/ scan \in [pc : {"head"}, reader : Readers, wallet : Scanners, spentBefore : SUBSET spentLeaves]
    \/ LogsScan
    \/ EventsScan

KitOK(k) ==
    /\ k.by \in Readers
    /\ k.runtimeId = IF k.by = "web" THEN WebRuntimeId ELSE SdkRuntimeId
    /\ k.chain = D.chain /\ k.pool = D.pool
    /\ k.amount \in Nat \ {0} /\ k.secret \in Nat /\ k.leafHint \in Nat
    /\ k.origin \in NoteRecords /\ k.commitment = k.origin.commitment
    /\ k.origin.leaf + 1 \in 1..Len(logs)
    /\ k.commitment = logs[k.origin.leaf + 1].commitment

OutcomeOK ==
    /\ kit # None /\ outcome.kit = kit
    /\ outcome.by \in Readers
    /\ outcome.evidence \in Evidences
    /\ outcome.note = IF outcome.by = "web" THEN ParseRecoveryKitV1ToNoteRecord(kit)
                      ELSE ImportRecoveryKitV1ToSpendableNote(kit, outcome.evidence)

RecoveryInv ==
    /\ EventsOK
    /\ ScanOK
    /\ kit # None => KitOK(kit)
    /\ outcome # None => OutcomeOK

-----------------------------------------------------------------------------
LEMMA LengthIs == EventsOK => Len(logs) \in Nat
BY DEF EventsOK, IsSequence

(* Reading an event of the scan: the note if it was written for the wallet *)
(* and the client opens its version, nothing otherwise.                    *)
LEMMA OpensFindable ==
    ASSUME EventsOK, NEW r \in Readers, NEW w \in Scanners, NEW head, NEW b \in UpTo(head)
    PROVE  /\ b \in Findable(r, w, head) =>
                /\ Opens(r, logs[b], w) = SpendMaterial(logs[b].note, D)
                /\ Opens(r, logs[b], w) # None
                /\ logs[b].note \in Material /\ logs[b].note.amount > 0
                /\ logs[b].commitment = Commitment(logs[b].note)
           /\ b \notin Findable(r, w, head) => Opens(r, logs[b], w) = None
<1> DEFINE e == logs[b]
<1>1. b \in 1..Len(logs) /\ BlockOf(b) <= head /\ r \in {"web", "sdk"} /\ w \in Wallets
    BY RecoveryConstants DEF UpTo, Readers
<1>2. EventOK(e, b)
    BY <1>1 DEF EventsOK
<1>3. Keeps(e)
    BY <1>2 DEF EventOK
<1>4. b \in Findable(r, w, head) <=> e.owner = w /\ (r = "sdk" => e.version = 1)
    BY <1>1 DEF Findable
<1> HIDE DEF e
<1>5. CASE e.owner = w
  <2>1. WrittenFor(e, w) /\ e.note.amount > 0
      BY <1>1, <1>2, <1>5 DEF EventOK
  <2>2. e.version \in {1, 2}
      BY <2>1 DEF WrittenFor
  <2>3. SpendMaterial(e.note, D) # None
    <3>1. SpendMaterial(e.note, D) \in SpendMaterials
        BY <1>3, RecoveryConstants DEF SpendMaterial, SpendMaterials, Material, Keeps, Commitment
    <3> QED BY <3>1, NoneIsNoValue
  <2>4. e.version = 1 => Opens(r, e, w) = SpendMaterial(e.note, D)
      BY <1>1, <1>3, <2>1, WrittenV1Opens DEF Opens
  <2>5. e.version = 2 => Opens(r, e, w) = IF r = "sdk" THEN None ELSE SpendMaterial(e.note, D)
      BY <1>1, <1>3, <2>1, WrittenV2Opens DEF Opens
  <2> QED BY <1>1, <1>3, <1>5, <1>4, <2>1, <2>2, <2>3, <2>4, <2>5 DEF Keeps, e
<1>6. CASE e.owner # w
  <2>1. WebOpens(e, w) = None /\ SdkOpens(e, w) = None
    <3>1. CASE e.owner \in Wallets
        BY <1>2, <1>6, <3>1, ForeignClosed DEF EventOK
    <3>2. CASE e.owner \notin Wallets
        BY <1>2, <1>3, <3>2, UnopenableClosed DEF EventOK
    <3> QED BY <3>1, <3>2
  <2> QED BY <1>6, <1>4, <2>1 DEF Opens, e
<1> QED BY <1>5, <1>6

LEMMA EarliestIs ==
    ASSUME NEW events, NEW n \in Nat, events \subseteq 1..n, events # {}
    PROVE  Earliest(events) \in events
<1> SUFFICES \E b \in events : \A c \in events : b <= c
    BY DEF Earliest
<1> SUFFICES ASSUME \A b \in events : \E c \in events : c < b
             PROVE  FALSE
    OBVIOUS
<1> DEFINE Bad == {k \in 0..n : \E j \in events : j <= k}
<1>1. Bad \in SUBSET (0..n) /\ 0 \notin Bad
    OBVIOUS
<1>2. \A k \in 0..(n - 1) : k \notin Bad => k + 1 \notin Bad
  <2> SUFFICES ASSUME NEW k \in 0..(n - 1), k \notin Bad, NEW j \in events, j <= k + 1
               PROVE  FALSE
      OBVIOUS
  <2>1. PICK c \in events : c < j
      OBVIOUS
  <2>2. c <= k /\ k \in 0..n
      BY <2>1
  <2> QED BY <2>1, <2>2
<1>3. n \in Bad
  <2>1. PICK j \in events : j \in 1..n
      OBVIOUS
  <2> QED BY <2>1
<1> HIDE DEF Bad
<1> QED BY <1>1, <1>2, <1>3, NoBadNumber

(* The chain moves on: earlier events stay, nullifiers stay recorded, and  *)
(* new events are in blocks after the head that was read.                  *)
MovesOn ==
    /\ EventsOK /\ EventsOK'
    /\ Len(logs) <= Len(logs')
    /\ \A i \in 1..Len(logs) : logs'[i] = logs[i]
    /\ spentLeaves \subseteq spentLeaves'

LEMMA ViewStable ==
    ASSUME MovesOn, NEW head \in Nat, head <= HeadBlock
    PROVE  /\ UpTo(head)' = UpTo(head)
           /\ \A r, w : Findable(r, w, head)' = Findable(r, w, head)
           /\ (head <= HeadBlock)'
           /\ UpTo(head) \subseteq 1..Len(logs)
<1>1. Len(logs) \in Nat /\ Len(logs') \in Nat
    BY LengthIs, LengthIs DEF MovesOn, EventsOK, IsSequence
<1>2. \A b \in 1..Len(logs') : BlockOf(b) <= head => b \in 1..Len(logs)
    BY <1>1 DEF BlockOf, HeadBlock
<1>3. \A b \in 1..Len(logs) : b \in 1..Len(logs') /\ logs'[b] = logs[b]
    BY <1>1 DEF MovesOn
<1>4. (head <= HeadBlock)'
    BY <1>1 DEF MovesOn, HeadBlock
<1> QED BY <1>2, <1>3, <1>4 DEF UpTo, Findable

LEMMA ScanStable ==
    ASSUME MovesOn, ScanOK, scan' = scan
    PROVE  ScanOK'
<1>1. \A S : S \in SUBSET spentLeaves => S \in SUBSET (spentLeaves')
    BY DEF MovesOn
<1>2. CASE scan = Idle
    BY <1>2 DEF ScanOK, Idle
<1>3. CASE scan \in [pc : {"head"}, reader : Readers, wallet : Scanners, spentBefore : SUBSET spentLeaves]
    BY <1>1, <1>3 DEF ScanOK
<1>4. CASE LogsScan
  <2>1. /\ scan \in [pc : {"logs"}, reader : Readers, wallet : Scanners, spentBefore : SUBSET (spentLeaves'),
                     head : Nat, cursor : Nat, fetched : SUBSET Nat]
        /\ scan.head \in Nat
      BY <1>1, <1>4 DEF LogsScan
  <2>2. UpTo(scan.head)' = UpTo(scan.head) /\ (scan.head <= HeadBlock)'
    <3>1. \A head \in Nat : head <= HeadBlock => UpTo(head)' = UpTo(head) /\ (head <= HeadBlock)'
        BY ViewStable
    <3> QED BY <1>4, <2>1, <3>1 DEF LogsScan, UpTo
  <2>3. LogsScan'
      BY <1>4, <2>1, <2>2 DEF LogsScan, BlockOf
  <2> QED BY <2>3 DEF ScanOK
<1>5. CASE EventsScan
  <2>1. scan \in EventScans' /\ scan.head \in Nat /\ scan.head <= HeadBlock
      BY <1>1, <1>5 DEF EventsScan, EventScans
  <2>2. /\ UpTo(scan.head)' = UpTo(scan.head) /\ (scan.head <= HeadBlock)'
        /\ Findable(scan.reader, scan.wallet, scan.head)' = Findable(scan.reader, scan.wallet, scan.head)
    <3>1. \A head \in Nat : head <= HeadBlock => UpTo(head)' = UpTo(head) /\ (head <= HeadBlock)'
        BY ViewStable
    <3>2. \A head \in Nat : head <= HeadBlock => \A r, w : Findable(r, w, head)' = Findable(r, w, head)
        BY ViewStable
    <3>3. UpTo(scan.head)' = UpTo(scan.head) /\ (scan.head <= HeadBlock)'
        BY <2>1, <3>1 DEF UpTo
    <3>4. Findable(scan.reader, scan.wallet, scan.head)' = Findable(scan.reader, scan.wallet, scan.head)
      <4>1. PICK h, r, w : /\ h = scan.head /\ r = scan.reader /\ w = scan.wallet
          OBVIOUS
      <4>2. Findable(r, w, h)' = Findable(r, w, h)
          BY <2>1, <3>2, <4>1
      <4>3. scan'.head = h /\ scan'.reader = r /\ scan'.wallet = w
          BY <4>1
      <4>4. Findable(scan.reader, scan.wallet, scan.head)' = Findable(r, w, h)'
          BY <4>3 DEF Findable
      <4> QED BY <4>1, <4>2, <4>4
    <3> QED BY <3>3, <3>4
  <2>3. ASSUME NEW r \in scan.found
        PROVE  RecordOK(r, scan)'
    <3>1. RecordOK(r, scan)
        BY <1>5 DEF EventsScan
    <3>2. r.leaf + 1 \in 1..Len(logs)
        BY <3>1 DEF RecordOK, Findable
    <3>3. logs'[r.leaf + 1] = logs[r.leaf + 1]
        BY <3>2 DEF MovesOn
    <3>4. r.spent => r.leaf \in spentLeaves'
        BY <3>1 DEF RecordOK, MovesOn
    <3>5. r.leaf + 1 \in (Findable(scan.reader, scan.wallet, scan.head)') \ scan.todo
        BY <2>2, <3>1 DEF RecordOK
    <3>6. scan'.todo = scan.todo /\ scan'.spentBefore = scan.spentBefore /\ scan'.blind = scan.blind
        OBVIOUS
    <3> HIDE DEF MovesOn
    <3> QED BY <3>1, <3>3, <3>4, <3>5, <3>6 DEF RecordOK
  <2>4. EventsScan'
      BY <1>5, <2>1, <2>2, <2>3 DEF EventsScan
  <2> QED BY <2>4 DEF ScanOK
<1> QED BY <1>2, <1>3, <1>4, <1>5 DEF ScanOK

LEMMA KitStable ==
    ASSUME MovesOn, NEW k, KitOK(k)
    PROVE  KitOK(k)'
<1>1. k.origin.leaf + 1 \in 1..Len(logs)
    BY DEF KitOK
<1>2. logs'[k.origin.leaf + 1] = logs[k.origin.leaf + 1] /\ k.origin.leaf + 1 \in 1..Len(logs')
  <2>1. Len(logs) \in Nat /\ Len(logs') \in Nat
      BY DEF MovesOn, EventsOK, IsSequence
  <2> QED BY <1>1, <2>1 DEF MovesOn
<1> QED BY <1>2 DEF KitOK

LEMMA NothingMoves ==
    ASSUME EventsOK, UNCHANGED <<logs, spentLeaves>>
    PROVE  MovesOn
BY LengthIs DEF MovesOn, EventsOK, IsSequence

(* The steps of a scan.                                                    *)
LEMMA FetchStep ==
    ASSUME EventsOK, ScanOK, FetchChunk
    PROVE  ScanOK'
<1>1. LogsScan /\ scan.pc = "logs" /\ scan.cursor <= scan.head /\ UNCHANGED <<logs, spentLeaves>>
    BY DEF ScanOK, FetchChunk, Idle, EventsScan, EventScans
<1> DEFINE f == scan.fetched \cup {i \in 1..Len(logs) : BlockOf(i) \in scan.cursor..ChunkEnd(scan.cursor)}
           n == NextChunk(scan.reader, scan.cursor)
<1>2. scan' = [scan EXCEPT !.fetched = f, !.cursor = n]
    BY DEF FetchChunk
<1>3. /\ scan \in [pc : {"logs"}, reader : Readers, wallet : Scanners, spentBefore : SUBSET spentLeaves,
                   head : Nat, cursor : Nat, fetched : SUBSET Nat]
      /\ scan.cursor \in Nat /\ scan.head \in Nat /\ ChunkSize \in Nat \ {0} /\ Len(logs) \in Nat
    BY <1>1, RecoveryConstants, LengthIs DEF LogsScan
<1>4. f \subseteq Nat
    BY <1>3
<1>5. n \in Nat /\ n > scan.cursor
    BY <1>1, <1>3 DEF NextChunk, ChunkEnd
<1>6. \A x \in Nat : x <= scan.head => (x < scan.cursor \/ x \in scan.cursor..ChunkEnd(scan.cursor) <=> x < n)
    BY <1>1, <1>3 DEF NextChunk, ChunkEnd
<1>7. ChunkEnd(scan.cursor) <= scan.head
    BY <1>1, <1>3 DEF ChunkEnd
<1>8. f = {b \in UpTo(scan.head) : BlockOf(b) < n}
  <2>1. \A b \in 1..Len(logs) : BlockOf(b) \in Nat
      BY <1>3 DEF BlockOf
  <2>2. \A b \in 1..Len(logs) : BlockOf(b) \in scan.cursor..ChunkEnd(scan.cursor) => BlockOf(b) <= scan.head
      BY <1>3, <1>7, <2>1 DEF ChunkEnd
  <2>3. scan.fetched = {b \in UpTo(scan.head) : BlockOf(b) < scan.cursor}
      BY <1>1 DEF LogsScan
  <2> HIDE DEF n
  <2> QED BY <1>6, <2>1, <2>2, <2>3 DEF UpTo
<1> HIDE DEF f, n
<1>9. LogsScan'
  <2>1. /\ scan' \in [pc : {"logs"}, reader : Readers, wallet : Scanners, spentBefore : SUBSET spentLeaves,
                      head : Nat, cursor : Nat, fetched : SUBSET Nat]
        /\ scan'.head = scan.head /\ scan'.fetched = f /\ scan'.cursor = n
      BY <1>2, <1>3, <1>4, <1>5
  <2>2. scan.head <= HeadBlock
      BY <1>1 DEF LogsScan
  <2> QED BY <1>1, <1>8, <2>1, <2>2 DEF LogsScan, UpTo, HeadBlock, BlockOf
<1> QED BY <1>9 DEF ScanOK

LEMMA HeadStep ==
    ASSUME EventsOK, ScanOK, ReadHead
    PROVE  ScanOK'
<1>1. /\ scan \in [pc : {"head"}, reader : Readers, wallet : Scanners, spentBefore : SUBSET spentLeaves]
      /\ UNCHANGED <<logs, spentLeaves>> /\ Len(logs) \in Nat
    BY LengthIs DEF ScanOK, ReadHead, Idle, EventsScan, EventScans, LogsScan
<1>2. scan' = [pc |-> "logs", reader |-> scan.reader, wallet |-> scan.wallet, spentBefore |-> scan.spentBefore,
               head |-> HeadBlock, cursor |-> 1, fetched |-> {}]
    BY DEF ReadHead
<1>3. HeadBlock \in Nat /\ \A b \in 1..Len(logs) : ~(BlockOf(b) < 1)
    BY <1>1 DEF HeadBlock, BlockOf
<1>4. LogsScan'
    BY <1>1, <1>2, <1>3 DEF LogsScan, UpTo, HeadBlock, BlockOf
<1> QED BY <1>4 DEF ScanOK

LEMMA FetchedStep ==
    ASSUME EventsOK, ScanOK, LogsFetched
    PROVE  ScanOK'
<1>1. LogsScan /\ scan.cursor > scan.head /\ UNCHANGED <<logs, spentLeaves>> /\ Len(logs) \in Nat
    BY LengthIs DEF ScanOK, LogsFetched, Idle, EventsScan, EventScans
<1>2. scan' = [pc |-> "events", reader |-> scan.reader, wallet |-> scan.wallet, spentBefore |-> scan.spentBefore,
               head |-> scan.head, todo |-> scan.fetched, found |-> {}, blind |-> {}]
    BY DEF LogsFetched
<1>3. /\ scan \in [pc : {"logs"}, reader : Readers, wallet : Scanners, spentBefore : SUBSET spentLeaves,
                   head : Nat, cursor : Nat, fetched : SUBSET Nat]
      /\ scan.head <= HeadBlock
    BY <1>1 DEF LogsScan
<1>4. scan.fetched = UpTo(scan.head)
  <2>1. \A b \in UpTo(scan.head) : BlockOf(b) < scan.cursor
      BY <1>1, <1>3 DEF UpTo, BlockOf
  <2> QED BY <1>1, <2>1 DEF LogsScan
<1>5. Findable(scan.reader, scan.wallet, scan.head) \subseteq UpTo(scan.head)
    BY DEF Findable, UpTo
<1>6. scan' \in EventScans'
    BY <1>1, <1>2, <1>3 DEF EventScans
<1>7. /\ scan'.reader = scan.reader /\ scan'.wallet = scan.wallet /\ scan'.head = scan.head
      /\ scan'.todo = scan.fetched /\ scan'.found = {} /\ scan'.pc = "events"
    BY <1>2
<1>8. (scan'.head <= HeadBlock') /\ UpTo(scan.head)' = UpTo(scan'.head)
    BY <1>1, <1>3, <1>7 DEF HeadBlock, UpTo
<1>9. EventsScan'
    BY <1>1, <1>3, <1>4, <1>5, <1>6, <1>7 DEF EventsScan, HeadBlock, UpTo, Findable
<1> QED BY <1>9 DEF ScanOK

LEMMA OpenStep ==
    ASSUME EventsOK, ScanOK, NEW lookup \in BOOLEAN, OpenEvent(lookup)
    PROVE  ScanOK'
<1>1. EventsScan /\ scan.pc = "events" /\ scan.todo # {} /\ UNCHANGED <<logs, spentLeaves>> /\ Len(logs) \in Nat
    BY LengthIs DEF ScanOK, OpenEvent, Idle, LogsScan
<1> DEFINE b == Earliest(scan.todo)
           plain == Opens(scan.reader, logs[b], scan.wallet)
           isSpent == lookup /\ IsNullifierSpent(b - 1)
           record == CreateNoteRecord(plain, b - 1, logs[b].commitment, isSpent)
<1>2. \/ /\ plain = None
         /\ scan' = [scan EXCEPT !.todo = @ \ {b}]
      \/ /\ plain # None
         /\ scan' = [scan EXCEPT !.todo = @ \ {b}, !.found = @ \cup {record},
                                 !.blind = IF lookup THEN @ ELSE @ \cup {b - 1}]
    BY DEF OpenEvent
<1>3. scan \in EventScans /\ scan.reader \in Readers /\ scan.wallet \in Scanners /\ scan.todo \subseteq UpTo(scan.head)
    BY <1>1 DEF EventsScan, EventScans
<1>4. b \in scan.todo /\ b \in UpTo(scan.head) /\ b \in 1..Len(logs) /\ b - 1 \in Nat /\ (b - 1) + 1 = b
  <2>1. scan.todo \subseteq 1..Len(logs)
      BY <1>3 DEF UpTo
  <2>2. b \in scan.todo
      BY <1>1, <2>1, EarliestIs
  <2> QED BY <1>3, <2>1, <2>2
<1>5. /\ b \in Findable(scan.reader, scan.wallet, scan.head) =>
            /\ plain = SpendMaterial(logs[b].note, D) /\ plain # None
            /\ logs[b].note \in Material /\ logs[b].note.amount > 0
            /\ logs[b].commitment = Commitment(logs[b].note)
      /\ b \notin Findable(scan.reader, scan.wallet, scan.head) => plain = None
    BY <1>3, <1>4, OpensFindable
<1> HIDE DEF b, plain
<1> DEFINE todo == scan.todo \ {b}
           found == IF plain = None THEN scan.found ELSE scan.found \cup {record}
           blind == IF plain = None \/ lookup THEN scan.blind ELSE scan.blind \cup {b - 1}
<1>6. /\ scan' \in EventScans
      /\ scan'.pc = "events" /\ scan'.reader = scan.reader /\ scan'.wallet = scan.wallet
      /\ scan'.spentBefore = scan.spentBefore /\ scan'.head = scan.head
      /\ scan'.todo = todo /\ scan'.found = found /\ scan'.blind = blind
  <2>1. plain # None => record \in NoteRecords
    <3>1. plain # None => logs[b].commitment \in Material
        BY <1>5 DEF Commitment, Material
    <3>2. plain # None => plain.amount \in Nat /\ plain.secret \in Nat
        BY <1>5 DEF SpendMaterial, Material
    <3> QED BY <1>4, <3>1, <3>2 DEF CreateNoteRecord, NoteRecords, IsNullifierSpent
  <2> HIDE DEF record
  <2>2. scan \in [pc : {"events", "done"}, reader : Readers, wallet : Scanners, spentBefore : SUBSET spentLeaves,
                  head : Nat, todo : SUBSET Nat, found : SUBSET NoteRecords, blind : SUBSET Nat]
      BY <1>3 DEF EventScans
  <2>3. todo \subseteq Nat /\ found \subseteq NoteRecords /\ blind \subseteq Nat
      BY <1>4, <2>1, <2>2
  <2>4. scan' = [scan EXCEPT !.todo = todo, !.found = found, !.blind = blind]
    <3>1. CASE plain = None
        BY <1>2, <2>2, <3>1
    <3>2. CASE plain # None
        BY <1>2, <2>2, <3>2
    <3> QED BY <3>1, <3>2
  <2> HIDE DEF todo, found, blind
  <2> QED BY <1>1, <2>2, <2>3, <2>4 DEF EventScans
<1>7. plain # None => /\ record.leaf = b - 1 /\ record.amount = logs[b].note.amount
                      /\ record.secret = logs[b].note.secret /\ record.commitment = logs[b].commitment
                      /\ record.spent = isSpent
    BY <1>5 DEF CreateNoteRecord, SpendMaterial
<1> HIDE DEF todo, found, blind, record, isSpent
<1> DEFINE F == Findable(scan.reader, scan.wallet, scan.head)
<1>8. Findable(scan.reader, scan.wallet, scan.head)' = F
    BY <1>1, <1>6 DEF Findable
<1> HIDE DEF F
<1>9. \A r \in scan.found : r.leaf # b - 1 /\ RecordOK(r, scan)
  <2> SUFFICES ASSUME NEW r \in scan.found
               PROVE  r.leaf # b - 1 /\ RecordOK(r, scan)
      OBVIOUS
  <2>1. RecordOK(r, scan)
      BY <1>1 DEF EventsScan
  <2>2. r.leaf + 1 \notin scan.todo
      BY <2>1 DEF RecordOK
  <2> QED BY <1>4, <2>1, <2>2
<1>10. ASSUME NEW r \in found
       PROVE  RecordOK(r, scan)'
  <2>1. CASE r \in scan.found
    <3>1. RecordOK(r, scan)
        BY <1>9, <2>1
    <3>2. r.leaf + 1 \in F \ todo
        BY <3>1 DEF RecordOK, F, todo
    <3>3. r.leaf \in scan'.spentBefore \ scan'.blind => r.leaf \in scan.spentBefore \ scan.blind
        BY <1>6 DEF blind
    <3> QED BY <1>1, <1>6, <1>8, <3>1, <3>2, <3>3 DEF RecordOK
  <2>2. CASE plain # None /\ r = record
    <3>1. r.leaf + 1 = b /\ r.leaf = b - 1
        BY <1>4, <1>7, <2>2
    <3>2. b \in F \ todo
        BY <1>5, <2>2 DEF F, todo
    <3>3. r.spent => r.leaf \in spentLeaves
        BY <1>7, <2>2, <3>1 DEF isSpent, IsNullifierSpent
    <3>4. r.leaf \in scan'.spentBefore \ scan'.blind => r.spent
      <4>1. scan.spentBefore \subseteq spentLeaves
          BY <1>3 DEF EventScans
      <4> QED BY <1>6, <1>7, <2>2, <3>1, <4>1 DEF blind, isSpent, IsNullifierSpent
    <3> QED BY <1>1, <1>5, <1>6, <1>7, <1>8, <2>2, <3>1, <3>2, <3>3, <3>4 DEF RecordOK, F
  <2> QED BY <2>1, <2>2 DEF found
<1>11. \A c \in F \ todo : \E r \in found : r.leaf = c - 1
  <2> SUFFICES ASSUME NEW c \in F \ todo
               PROVE  \E r \in found : r.leaf = c - 1
      OBVIOUS
  <2>1. CASE c \in scan.todo
      BY <1>5, <1>7, <2>1 DEF todo, found, F
  <2>2. CASE c \notin scan.todo
    <3>1. \E r \in scan.found : r.leaf = c - 1
        BY <1>1, <2>2 DEF EventsScan, F
    <3> QED BY <3>1 DEF found
  <2> QED BY <2>1, <2>2
<1>12. UpTo(scan.head)' = UpTo(scan.head) /\ HeadBlock' = HeadBlock /\ EventScans' = EventScans
    BY <1>1, <1>6 DEF UpTo, HeadBlock, EventScans
<1>13. todo \subseteq UpTo(scan.head)
    BY <1>3 DEF todo
<1>14. scan.head <= HeadBlock
    BY <1>1 DEF EventsScan
<1>15. EventsScan'
    BY <1>6, <1>8, <1>10, <1>11, <1>12, <1>13, <1>14 DEF EventsScan
<1> QED BY <1>15 DEF ScanOK

LEMMA FinishStep ==
    ASSUME EventsOK, ScanOK, FinishScan
    PROVE  ScanOK'
<1>1. EventsScan /\ scan.pc = "events" /\ scan.todo = {} /\ UNCHANGED <<logs, spentLeaves>>
    BY DEF ScanOK, FinishScan, Idle, LogsScan
<1>2. scan' = [scan EXCEPT !.pc = "done"] /\ scan \in EventScans
    BY <1>1 DEF FinishScan, EventsScan
<1>3. /\ scan' \in EventScans' /\ scan'.todo = scan.todo /\ scan'.head = scan.head /\ scan'.found = scan.found
      /\ scan'.reader = scan.reader /\ scan'.wallet = scan.wallet /\ scan'.blind = scan.blind
      /\ scan'.spentBefore = scan.spentBefore
    BY <1>1, <1>2 DEF EventScans
<1>4. /\ Findable(scan.reader, scan.wallet, scan.head)' = Findable(scan.reader, scan.wallet, scan.head)
      /\ UpTo(scan.head)' = UpTo(scan.head) /\ HeadBlock' = HeadBlock
    BY <1>1, <1>3 DEF Findable, UpTo, HeadBlock
<1>5. ASSUME NEW r \in scan.found
      PROVE  RecordOK(r, scan)'
  <2>1. RecordOK(r, scan)
      BY <1>1 DEF EventsScan
  <2> QED BY <1>1, <1>3, <1>4, <2>1 DEF RecordOK
<1>6. EventsScan'
    BY <1>1, <1>3, <1>4, <1>5 DEF EventsScan
<1> QED BY <1>6 DEF ScanOK

LEMMA StartStep ==
    ASSUME NEW r \in Readers, NEW w \in Scanners, StartScan(r, w)
    PROVE  ScanOK'
BY DEF StartScan, ScanOK

LEMMA ExportStep ==
    ASSUME EventsOK, ScanOK, NEW leafKnown \in BOOLEAN, ExportKit(leafKnown)
    PROVE  ScanOK' /\ KitOK(kit)'
<1>1. EventsScan /\ scan.pc = "done" /\ UNCHANGED <<logs, spentLeaves>> /\ scan' = Idle
    BY DEF ScanOK, ExportKit, Idle, LogsScan
<1>2. PICK record \in scan.found :
          kit' = IF scan.reader = "web" THEN CreateRecoveryKitV1FromNoteRecord(record, leafKnown)
                 ELSE CreateRecoveryKitV1(record)
    BY DEF ExportKit
<1>3. record \in NoteRecords /\ RecordOK(record, scan)
    BY <1>1 DEF EventsScan, EventScans
<1>4. PICK maker \in Readers, hint \in Nat : kit' = Kit(maker, record, hint, record, TRUE)
    BY <1>2, <1>3 DEF CreateRecoveryKitV1FromNoteRecord, CreateRecoveryKitV1, NoteRecords, Readers
<1>5. /\ record.amount \in Nat \ {0} /\ record.secret \in Nat /\ record.leaf + 1 \in 1..Len(logs)
      /\ record.commitment = logs[record.leaf + 1].commitment
    BY <1>3 DEF NoteRecords, RecordOK, Findable
<1>6. KitOK(kit)'
    BY <1>1, <1>3, <1>4, <1>5 DEF KitOK, Kit
<1> QED BY <1>1, <1>6 DEF ScanOK, Idle

LEMMA DamageStep ==
    ASSUME EventsOK, KitOK(kit), NEW intact \in BOOLEAN, DamageKit(intact)
    PROVE  KitOK(kit)'
<1>1. UNCHANGED logs
    BY DEF DamageKit
<1>2. PICK hint \in Nat : \E note :
          /\ note.amount \in Nat \ {0} /\ note.secret \in Nat
          /\ kit' = Kit(kit.by, kit.origin, hint, note, intact)
  <2>1. NoteOf(0).amount = 1 /\ NoteOf(0).secret = 0
      BY DEF NoteOf
  <2>2. kit.amount \in Nat \ {0} /\ kit.secret \in Nat /\ kit.leafHint \in Nat /\ kit.leafHint + 1 \in Nat
      BY DEF KitOK
  <2> QED BY <2>1, <2>2 DEF DamageKit
<1>3. PICK note :
          /\ note.amount \in Nat \ {0} /\ note.secret \in Nat
          /\ kit' = Kit(kit.by, kit.origin, hint, note, intact)
    BY <1>2
<1>4. /\ kit'.by = kit.by /\ kit'.runtimeId = (IF kit.by = "web" THEN WebRuntimeId ELSE SdkRuntimeId)
      /\ kit'.chain = D.chain /\ kit'.pool = D.pool /\ kit'.amount = note.amount /\ kit'.secret = note.secret
      /\ kit'.leafHint = hint /\ kit'.origin = kit.origin /\ kit'.commitment = kit.origin.commitment
    BY <1>3 DEF Kit
<1> QED BY <1>1, <1>3, <1>4 DEF KitOK

LEMMA NoteRecoveryInitInv == NoteRecoveryInit => RecoveryInv
<1> SUFFICES ASSUME NoteRecoveryInit PROVE RecoveryInv
    OBVIOUS
<1>1. EventsOK
  <2>1. <<>> \in Seq({}) /\ Len(<<>>) = 0
      OBVIOUS
  <2> QED BY <2>1 DEF NoteRecoveryInit, EventsOK, IsSequence
<1> QED BY <1>1 DEF NoteRecoveryInit, RecoveryInv, ScanOK

LEMMA NoteRecoveryStep == RecoveryInv /\ [NoteRecoveryNext]_noteRecoveryVars => RecoveryInv'
<1> SUFFICES ASSUME RecoveryInv, [NoteRecoveryNext]_noteRecoveryVars PROVE RecoveryInv'
    OBVIOUS
<1> USE DEF RecoveryInv
<1>1. ASSUME UNCHANGED logs
      PROVE  EventsOK'
    BY <1>1 DEF EventsOK, IsSequence
<1>2. ASSUME MovesOn, UNCHANGED <<kit, outcome>>, kit = None
      PROVE  (kit # None => KitOK(kit))' /\ (outcome # None => OutcomeOK)'
    BY <1>2 DEF OutcomeOK
<1>3. ASSUME UNCHANGED <<logs, spentLeaves, kit, outcome>>
      PROVE  (kit # None => KitOK(kit))' /\ (outcome # None => OutcomeOK)'
    BY <1>3 DEF KitOK, OutcomeOK, Evidences, ImportRecoveryKitV1ToSpendableNote, IsNullifierSpent,
                ParseRecoveryKitV1ToNoteRecord
<1>4. CASE Write
  <2>1. MovesOn /\ kit = None /\ UNCHANGED <<scan, kit, outcome>>
      BY <1>4, WriteGrows DEF MovesOn, Grows, Write
  <2> QED BY <1>2, <2>1, ScanStable DEF MovesOn
<1>5. CASE \E leaf \in Leaves : Spend(leaf) /\ UNCHANGED <<logs, scan, kit, outcome>>
  <2>1. MovesOn /\ kit = None /\ UNCHANGED <<scan, kit, outcome>>
    <3>1. Len(logs) \in Nat /\ EventsOK'
        BY <1>1, <1>5, LengthIs
    <3> QED BY <1>5, <3>1 DEF MovesOn, Spend
  <2> QED BY <1>2, <2>1, ScanStable DEF MovesOn
<1>6. CASE \E r \in Readers, w \in Scanners : StartScan(r, w)
  <2>1. UNCHANGED <<logs, spentLeaves, kit, outcome>>
      BY <1>6 DEF StartScan
  <2> QED BY <1>1, <1>3, <1>6, <2>1, StartStep
<1>7. CASE ReadHead
    BY <1>1, <1>3, <1>7, HeadStep DEF ReadHead
<1>8. CASE FetchChunk
    BY <1>1, <1>3, <1>8, FetchStep DEF FetchChunk
<1>9. CASE LogsFetched
    BY <1>1, <1>3, <1>9, FetchedStep DEF LogsFetched
<1>10. CASE FinishScan
    BY <1>1, <1>3, <1>10, FinishStep DEF FinishScan
<1>11. CASE ScanFails
    BY <1>1, <1>3, <1>11 DEF ScanFails, ScanOK, Idle
<1>12. CASE \E lookup \in BOOLEAN : OpenEvent(lookup)
  <2>1. UNCHANGED <<logs, spentLeaves, kit, outcome>>
      BY <1>12 DEF OpenEvent
  <2> QED BY <1>1, <1>3, <1>12, <2>1, OpenStep
<1>13. CASE \E leafKnown \in BOOLEAN : ExportKit(leafKnown)
  <2>1. kit = None /\ UNCHANGED <<logs, spentLeaves, outcome>>
      BY <1>13 DEF ExportKit
  <2>2. outcome' = None
      BY <2>1 DEF OutcomeOK
  <2> QED BY <1>1, <1>13, <2>1, <2>2, ExportStep
<1>14. CASE \E intact \in BOOLEAN : DamageKit(intact)
  <2>1. kit # None /\ outcome = None /\ UNCHANGED <<logs, spentLeaves, scan, outcome>>
      BY <1>14 DEF DamageKit
  <2>2. ScanOK'
      BY <2>1, NothingMoves, ScanStable
  <2> QED BY <1>1, <1>14, <2>1, <2>2, DamageStep
<1>15. CASE \E r \in Readers, evidence \in Evidences : ImportKit(r, evidence)
  <2>1. kit # None /\ UNCHANGED <<logs, spentLeaves, scan, kit>>
      BY <1>15 DEF ImportKit
  <2>2. ScanOK'
      BY <2>1, NothingMoves, ScanStable
  <2>3. KitOK(kit)'
      BY <2>1, NothingMoves, KitStable
  <2>4. PICK r \in Readers, evidence \in Evidences :
            outcome' = [by |-> r, kit |-> kit, evidence |-> evidence,
                        note |-> IF r = "web" THEN ParseRecoveryKitV1ToNoteRecord(kit)
                                 ELSE ImportRecoveryKitV1ToSpendableNote(kit, evidence)]
      BY <1>15 DEF ImportKit
  <2>5. OutcomeOK'
      BY <2>1, <2>4 DEF OutcomeOK, Evidences, ImportRecoveryKitV1ToSpendableNote, IsNullifierSpent,
                        ParseRecoveryKitV1ToNoteRecord
  <2> QED BY <1>1, <2>1, <2>2, <2>3, <2>5
<1>16. CASE UNCHANGED noteRecoveryVars
  <2>1. UNCHANGED <<logs, spentLeaves, scan, kit, outcome>>
      BY <1>16 DEF noteRecoveryVars
  <2>2. ScanOK'
      BY <2>1, NothingMoves, ScanStable
  <2> QED BY <1>1, <1>3, <2>1, <2>2
<1> QED BY <1>4, <1>5, <1>6, <1>7, <1>8, <1>9, <1>10, <1>11, <1>12, <1>13, <1>14, <1>15, <1>16
        DEF NoteRecoveryNext

-----------------------------------------------------------------------------
LEMMA RecoveryInvHolds == NoteRecoverySpec => []RecoveryInv
BY NoteRecoveryInitInv, NoteRecoveryStep, PTL DEF NoteRecoverySpec

LEMMA NotesAreFound == RecoveryInv => NotesFound
<1> SUFFICES ASSUME EventsOK, EventsScan, scan.todo = {} PROVE
        /\ {b \in 1..Len(logs) : logs[b].version = 2 /\ logs[b].owner \in Wallets} \subseteq ValidatedOutputs(1..Len(logs))
        /\ {[leaf |-> r.leaf, note |-> [amount |-> r.amount, secret |-> r.secret]] : r \in scan.found}
          = {[leaf |-> b - 1, note |-> logs[b].note] : b \in Findable(scan.reader, scan.wallet, scan.head)}
    BY DEF NotesFound, RecoveryInv, ScanOK, EventsScan, Idle, LogsScan
<1>1. ASSUME NEW b \in 1..Len(logs), logs[b].version = 2, logs[b].owner \in Wallets
      PROVE  b \in ValidatedOutputs(1..Len(logs))
  <2>1. EventOK(logs[b], b)
      BY DEF EventsOK
  <2>2. Keeps(logs[b]) /\ logs[b].note.amount > 0 /\ WrittenFor(logs[b], logs[b].owner)
      BY <1>1, <2>1 DEF EventOK
  <2> QED BY <1>1, <2>2, WrittenV2Opens DEF ValidatedOutputs
<1> DEFINE F == Findable(scan.reader, scan.wallet, scan.head)
           View(r) == [leaf |-> r.leaf, note |-> [amount |-> r.amount, secret |-> r.secret]]
<1>2. ASSUME NEW b \in F
      PROVE  b \in Nat /\ b \in 1..Len(logs) /\ b - 1 + 1 = b /\ logs[b].note = [amount |-> logs[b].note.amount, secret |-> logs[b].note.secret]
  <2>1. b \in 1..Len(logs)
      BY DEF Findable
  <2>2. EventOK(logs[b], b)
      BY <2>1 DEF EventsOK
  <2>3. logs[b].note \in Material
      BY <2>2 DEF EventOK, Keeps
  <2>4. Len(logs) \in Nat
      BY LengthIs
  <2> QED BY <2>1, <2>3, <2>4 DEF Material
<1>3. ASSUME NEW r \in scan.found
      PROVE  /\ r.leaf + 1 \in F /\ r.leaf = (r.leaf + 1) - 1
             /\ View(r) = [leaf |-> (r.leaf + 1) - 1, note |-> logs[r.leaf + 1].note]
  <2>1. RecordOK(r, scan) /\ r.leaf \in Nat
      BY <1>3 DEF EventsScan, EventScans, NoteRecords
  <2>2. r.leaf + 1 \in F
      BY <2>1 DEF RecordOK
  <2>3. logs[r.leaf + 1].note = [amount |-> r.amount, secret |-> r.secret]
      BY <1>2, <2>1, <2>2 DEF RecordOK
  <2> QED BY <2>1, <2>2, <2>3
<1>4. \A b \in F : \E r \in scan.found : r.leaf + 1 = b
  <2>1. \A b \in F : \E r \in scan.found : r.leaf = b - 1
      BY DEF EventsScan
  <2>2. \A b \in F : b \in Nat
      BY <1>2
  <2>3. \A b \in Nat : \A l : l = b - 1 => l + 1 = b
      OBVIOUS
  <2> HIDE DEF F
  <2> QED BY <2>1, <2>2, <2>3
<1> HIDE DEF F, View
<1>5. {View(r) : r \in scan.found} = {[leaf |-> b - 1, note |-> logs[b].note] : b \in F}
    BY <1>3, <1>4
<1> QED BY <1>1, <1>5 DEF F, View

(* A finished scan has found exactly the notes that were written for its   *)
(* wallet, by either client or an earlier release, whatever else anybody   *)
(* has written and however the chunks fall.                                *)
THEOREM RecoveryFindsNotes == NoteRecoverySpec => []NotesFound
BY RecoveryInvHolds, NotesAreFound, PTL

(* What a scan reports spent is spent, and what was spent before it began  *)
(* it reports, unless the web application's lookup failed.                 *)
THEOREM RecoveryMarksTrue == NoteRecoverySpec => []SpentMarksTrue
<1>1. RecoveryInv => SpentMarksTrue
  <2> SUFFICES ASSUME RecoveryInv, scan.pc = "done", NEW r \in scan.found
               PROVE  (r.spent => r.leaf \in spentLeaves) /\ (r.leaf \in scan.spentBefore \ scan.blind => r.spent)
      BY DEF SpentMarksTrue
  <2>1. EventsScan
      BY DEF RecoveryInv, ScanOK, Idle, LogsScan
  <2> QED BY <2>1 DEF EventsScan, RecordOK
<1> QED BY <1>1, RecoveryInvHolds, PTL

LEMMA KitRecord ==
    ASSUME NEW k, KitOK(k), NEW isSpent \in BOOLEAN
    PROVE  CreateNoteRecord(k, k.leafHint, k.commitment, isSpent) # None
<1>1. k.commitment \in Material /\ k.amount \in Nat /\ k.secret \in Nat /\ k.leafHint \in Nat
    BY DEF KitOK, NoteRecords
<1>2. CreateNoteRecord(k, k.leafHint, k.commitment, isSpent) \in NoteRecords
    BY <1>1 DEF CreateNoteRecord, NoteRecords
<1> QED BY <1>2, NoneIsNoValue

(* Neither client imports a damaged kit; the SDK imports only material of  *)
(* the commitment and, on mainnet, at its leaf; an untouched kit with a    *)
(* known leaf is accepted by the client that made it.                      *)
THEOREM RecoveryKitsFaithful == NoteRecoverySpec => []KitsImportFaithfully
<1>1. RecoveryInv => KitsImportFaithfully
  <2> SUFFICES ASSUME EventsOK, KitOK(kit), OutcomeOK
               PROVE  KitsImportFaithfully
      BY DEF RecoveryInv, KitsImportFaithfully, OutcomeOK
  <2> DEFINE n == outcome.note
             ev == outcome.evidence
  <2>1. outcome.kit = kit /\ ev \in Evidences /\ Len(logs) \in Nat
      BY LengthIs DEF OutcomeOK
  <2>2. CASE outcome.by = "web"
    <3>1. n = IF ValidateRecoveryKitV1(kit) /\ ForThisDeployment(kit)
              THEN CreateNoteRecord(kit, kit.leafHint, kit.commitment, FALSE) ELSE None
        BY <2>2 DEF OutcomeOK, ParseRecoveryKitV1ToNoteRecord
    <3>2. n # None => kit.checksumMatches
        BY <3>1 DEF ValidateRecoveryKitV1
    <3>3. kit.checksumMatches => ValidateRecoveryKitV1(kit) /\ ForThisDeployment(kit)
        BY RecoveryConstants DEF KitOK, ValidateRecoveryKitV1, ForThisDeployment
    <3>4. CreateNoteRecord(kit, kit.leafHint, kit.commitment, FALSE) # None
        BY KitRecord
    <3> QED BY <2>1, <2>2, <3>1, <3>2, <3>3, <3>4 DEF KitsImportFaithfully
  <2>3. CASE outcome.by = "sdk"
    <3> DEFINE record == CreateNoteRecord(kit, kit.leafHint, kit.commitment, IsNullifierSpent(kit.leafHint))
    <3>1. n = IF /\ SdkValidateRecoveryKitV1(kit) /\ AssertRecoveryKitMatchesRuntime(kit)
                 /\ AssertRecoveryKitRootAcceptedEvidence(kit, ev)
                 /\ Commitment(kit) = kit.commitment
              THEN record ELSE None
        BY <2>3 DEF OutcomeOK, ImportRecoveryKitV1ToSpendableNote
    <3>2. record # None
      <4>1. IsNullifierSpent(kit.leafHint) \in BOOLEAN
          BY DEF IsNullifierSpent
      <4> QED BY <4>1, KitRecord
    <3>3. n # None =>
            /\ kit.checksumMatches /\ Commitment(n) = n.commitment
            /\ AssertRecoveryKitRootAcceptedEvidence(kit, ev)
            /\ n.leaf = kit.leafHint /\ n.commitment = kit.commitment
        BY <3>1 DEF SdkValidateRecoveryKitV1, CreateNoteRecord, Commitment
    <3>4. n # None /\ D.chain = 4326 => n.leaf \in Leaves /\ logs[n.leaf + 1].commitment = n.commitment
      <4> SUFFICES ASSUME n # None, D.chain = 4326
                   PROVE  n.leaf \in Leaves /\ logs[n.leaf + 1].commitment = n.commitment
          OBVIOUS
      <4>1. ev # None /\ ev.commitment = n.commitment /\ ev.leaf = n.leaf
        <5>1. AssertRecoveryKitRootAcceptedEvidence(kit, ev) /\ n.leaf = kit.leafHint /\ n.commitment = kit.commitment
            BY <3>3
        <5> HIDE DEF n, ev
        <5> QED BY <5>1 DEF AssertRecoveryKitRootAcceptedEvidence
      <4> HIDE DEF n, ev
      <4>2. PICK i \in 1..Len(logs) : ev = [commitment |-> logs[i].commitment, leaf |-> i - 1]
          BY <2>1, <4>1 DEF Evidences
      <4>3. n.leaf = i - 1 /\ n.leaf + 1 = i /\ i - 1 \in 0..(Len(logs) - 1)
          BY <2>1, <4>1, <4>2
      <4> QED BY <4>1, <4>2, <4>3 DEF Leaves
    <3>5. /\ kit.checksumMatches /\ Commitment(kit) = kit.commitment /\ kit.by = "sdk"
          /\ kit.leafHint = kit.origin.leaf /\ ev # None /\ ev.leaf = kit.leafHint
          => n # None
      <4> SUFFICES ASSUME kit.checksumMatches, Commitment(kit) = kit.commitment, kit.by = "sdk",
                          kit.leafHint = kit.origin.leaf, ev # None, ev.leaf = kit.leafHint
                   PROVE  n # None
          OBVIOUS
      <4>1. SdkValidateRecoveryKitV1(kit) /\ AssertRecoveryKitMatchesRuntime(kit)
        <5>1. D.chain > 0
            BY RecoveryConstants DEF Chains
        <5> QED BY <5>1 DEF SdkValidateRecoveryKitV1, AssertRecoveryKitMatchesRuntime, KitOK
      <4>2. PICK i \in 1..Len(logs) : ev = [commitment |-> logs[i].commitment, leaf |-> i - 1]
          BY <2>1 DEF Evidences
      <4>3. kit.origin.leaf + 1 = i
        <5>1. kit.origin.leaf \in Nat /\ kit.origin.leaf = i - 1
            BY <4>2 DEF KitOK, NoteRecords
        <5> QED BY <5>1, <2>1
      <4>4. ev.commitment = kit.commitment
          BY <4>2, <4>3 DEF KitOK
      <4>5. AssertRecoveryKitRootAcceptedEvidence(kit, ev)
          BY <4>4 DEF AssertRecoveryKitRootAcceptedEvidence
      <4> QED BY <3>1, <3>2, <4>1, <4>5
    <3> HIDE DEF record
    <3> QED BY <2>1, <2>3, <3>3, <3>4, <3>5 DEF KitsImportFaithfully
  <2> QED BY <2>2, <2>3 DEF OutcomeOK, Readers
<1> QED BY <1>1, RecoveryInvHolds, PTL
=============================================================================
