--------------------------- MODULE ProverArtifacts ---------------------------
(***************************************************************************)
(* The proving files a withdrawal proof is made with - manifest, trusted   *)
(* setup record, circuit wasm and proving key - and the checks that decide *)
(* whether a client may use them: the browser's, against the deployment it *)
(* is configured for (apps/web/src/proving/proverArtifactTrust.ts), and    *)
(* the SDK's, against the hashes pinned in its runtime                     *)
(* (packages/sdk/src/artifacts/resolver.ts).                               *)
(*                                                                         *)
(* A file's content is the release it was published with; a release may be *)
(* published file by file, so a directory can hold files of several.  A    *)
(* hash stands for what is hashed: the manifest or the record of a         *)
(* release, or the circuit that its wasm and its key belong to.            *)
(***************************************************************************)
EXTENDS Naturals, Sequences

CONSTANTS
    Releases,      \* published versions of the proving files
    ReleaseInfo,   \* what the manifest and the record of a release say
    Missing,       \* a file that cannot be fetched or read
    Pinned         \* the release whose hashes the runtime of a network pins

Networks == {"mainnet", "testnet", "legacy"}

ASSUME ReleaseAssumption ==
    /\ Missing \notin Releases
    /\ DOMAIN ReleaseInfo = Releases
    /\ Pinned \in [Networks -> Releases]

-----------------------------------------------------------------------------
Files == {"manifest", "record", "wasm", "zkey"}

(* What the hash of a file identifies. *)
Sha256(file, release) ==
    IF file \in {"wasm", "zkey"} THEN ReleaseInfo[release].circuit ELSE release

HashMatches(file, release, expected) ==
    release # Missing /\ Sha256(file, release) = Sha256(file, expected)

(* The circuit whose verifying key the pool of a network was deployed with. *)
VerifyingKey(net) == ReleaseInfo[Pinned[net]].circuit

(* The public input order that a network's pool expects: 10 inputs since   *)
(* v1.2, 12 before.                                                        *)
Schema(net) == IF net = "legacy" THEN "v1.1" ELSE "v1.2-unlinkable"

(* A manifest that says it was recorded in a trusted setup and carries the *)
(* record's pointer, the artifact hashes and who approved it.              *)
ManifestRecorded(release) ==
    release # Missing /\ ReleaseInfo[release].recorded

(* A trusted setup record that is approved, not superseded, names the      *)
(* deployment and the public input order, and lists the hashes of the      *)
(* manifest it is read with.                                               *)
RecordApproves(record, manifest, net) ==
    /\ ReleaseInfo[record].approved
    /\ ~ReleaseInfo[record].superseded
    /\ ReleaseInfo[record].schema = Schema(net)
    /\ ReleaseInfo[record].deployment = net
    /\ ReleaseInfo[record].circuit = ReleaseInfo[manifest].circuit

(* One check of the browser, in the order it fetches the files: the        *)
(* manifest, then the record it points to, then the artifacts it lists.    *)
BrowserChecks == <<"manifest", "record", "wasm", "zkey">>

BrowserAccepts(file, release, manifest, net) ==
    CASE file = "manifest" -> ManifestRecorded(release)
      [] file = "record" -> /\ HashMatches("record", release, manifest)
                            /\ RecordApproves(release, manifest, net)
      [] OTHER -> HashMatches(file, release, manifest)

(* A development prover may skip the record, never the hashes. *)
LocalDevAccepts(file, release, manifest) ==
    CASE file = "manifest" -> release # Missing
      [] file = "record" -> TRUE
      [] OTHER -> HashMatches(file, release, manifest)

(* The SDK checks the four files against the hashes its runtime pins, then *)
(* the manifest and the record once more, read as text; on the testnet     *)
(* there is no record and hashes are all it checks.                        *)
SdkChecks(net) ==
    IF net = "testnet" THEN <<"manifest", "wasm", "zkey">>
    ELSE <<"manifest", "record", "wasm", "zkey", "manifest", "record">>

SdkAccepts(file, release, net) ==
    /\ HashMatches(file, release, Pinned[net])
    /\ file = "manifest" /\ net # "testnet" => ManifestRecorded(release)
    /\ file = "record" => RecordApproves(release, Pinned[net], net)

(* The releases whose circuit the operator of a network's pool approved.   *)
ApprovedCircuits(net) ==
    {ReleaseInfo[r].circuit : r \in {s \in Releases : RecordApproves(s, s, net)}}
=============================================================================
