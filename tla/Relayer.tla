------------------------------- MODULE Relayer -------------------------------
(***************************************************************************)
(* The withdrawal relayer (services/relayer-worker, services/relay): the   *)
(* path of a relay request from the nonce queue through the rate limit,    *)
(* the idempotency records and the nullifier check to the submission of    *)
(* the transaction, with every await at which another request, a crash, an *)
(* expiring record or the chain may intervene.                             *)
(*                                                                         *)
(* The key-value stores and the RPC node are external. A read sees the     *)
(* last write, but for StaleRead: an idempotency record written elsewhere  *)
(* may not have reached the reader yet (the counters of the rate limit are *)
(* taken to be consistent). A write that fails may or may not have taken   *)
(* effect. Time appears as what it does: a record's TTL runs out, a        *)
(* rate-limit window ends. A request's calldata has passed or fails the    *)
(* static checks: a failure there is one of the errors of Fail.            *)
(***************************************************************************)
EXTENDS Naturals, FiniteSets, SequencesExt

CONSTANTS
    Nullifiers, Calldatas, Requests,
    NullifierOf,        \* the nullifier a calldata spends
    CalldataOf,         \* the calldata of a request
    RateKeys, Limit,    \* counters of a rate-limit window and their limits
    RateKeysOf,         \* the counters a request falls under
    Queued,             \* is the RELAYER_NONCE_QUEUE binding there?
    NoRecord,           \* what the store returns for a missing key
    MaxFaults           \* bound on crashes, errors and drops

ASSUME RelayerAssumption ==
    /\ NullifierOf \in [Calldatas -> Nullifiers]
    /\ CalldataOf \in [Requests -> Calldatas]
    /\ Limit \in [RateKeys -> Nat \ {0}]
    /\ RateKeysOf \in [Requests -> SUBSET RateKeys]
    /\ Queued \in BOOLEAN
    /\ NoRecord \notin [status : {"pending", "submitted"}, calldata : Calldatas, tx : Nat]
    /\ MaxFaults \in Nat

VARIABLES
    queue,              \* requests waiting for the durable object, in order
    pc,                 \* the await each handler is at
    seen,               \* counters read by checkAndRecordRelayRateLimit
    got,                \* records read by prepareRelayIdempotency
    todo,               \* keys writeRelayIdempotencyRecord has still to put
    sent,               \* number of the transaction a handler submitted
    response,           \* the last answer to a request
    nullifierRecord, calldataRecord,    \* RELAYER_IDEMPOTENCY_KV
    counts,             \* RELAYER_RATE_LIMIT_KV, of the current window
    txs,                \* transactions the node accepted, with their fate
    spent,              \* nullifiers spent on chain
    admitted,           \* observed: requests let through in this window
    fresh,              \* observed: no nullifier record lapsed or was missed
    faults

handlers == <<pc, seen, got, todo, sent, response, fresh>>
stores == <<nullifierRecord, calldataRecord, counts, admitted>>
chain == <<txs, spent>>
vars == <<queue, handlers, stores, chain, faults>>

Nullifier(r) == NullifierOf[CalldataOf[r]]
InFlight == {r \in Requests : pc[r] \notin {"idle", "waiting"}}

RecordKeys == {"nullifier", "calldata"}
Records == [status : {"pending", "submitted"}, calldata : Calldatas, tx : Nat]
NothingSeen == [current |-> FALSE, counts |-> [k \in RateKeys |-> 0]]
NothingGot == [k \in RecordKeys |-> NoRecord]

-----------------------------------------------------------------------------
(* Faulty variants of the definitions below, for mutation checks.          *)
MayBegin_BrokenTail(r) ==
    Queued => /\ r = Head(queue)
              /\ InFlight = {}
              /\ \A s \in Requests : response[s].kind # "error"
Exceeded_OffByOne(r) == \E k \in RateKeysOf[r] : counts[k] > Limit[k]
Ready_IgnoresPending(r) ==
    \A k \in RecordKeys : IF got[r][k] = NoRecord THEN TRUE ELSE got[r][k].status = "pending"
SameCalldata_Unchecked(r) == TRUE
Lapses_Never(record) == FALSE

-----------------------------------------------------------------------------
Init ==
    /\ queue = << >>
    /\ pc = [r \in Requests |-> "idle"]
    /\ seen = [r \in Requests |-> NothingSeen]
    /\ got = [r \in Requests |-> NothingGot]
    /\ todo = [r \in Requests |-> {}]
    /\ sent = [r \in Requests |-> 0]
    /\ response = [r \in Requests |-> [kind |-> "none", tx |-> 0]]
    /\ nullifierRecord = [n \in Nullifiers |-> NoRecord]
    /\ calldataRecord = [c \in Calldatas |-> NoRecord]
    /\ counts = [k \in RateKeys |-> 0]
    /\ txs = << >>
    /\ spent = {}
    /\ admitted = [k \in RateKeys |-> 0]
    /\ fresh = [r \in Requests |-> TRUE]
    /\ faults = 0

Faulty == faults < MaxFaults /\ faults' = faults + 1

(* A handler answers its client and forgets what it had read. *)
Respond(r, kind, tx) ==
    /\ pc' = [pc EXCEPT ![r] = "idle"]
    /\ response' = [response EXCEPT ![r] = [kind |-> kind, tx |-> tx]]
    /\ seen' = [seen EXCEPT ![r] = NothingSeen]
    /\ got' = [got EXCEPT ![r] = NothingGot]
    /\ todo' = [todo EXCEPT ![r] = {}]
    /\ sent' = [sent EXCEPT ![r] = 0]
    /\ fresh' = [fresh EXCEPT ![r] = TRUE]

GoTo(r, label) ==
    /\ pc' = [pc EXCEPT ![r] = label]
    /\ UNCHANGED <<seen, got, todo, sent, response, fresh>>

(* A client posts a request, again if it was answered before; the worker   *)
(* forwards it to the durable object, if there is one.                     *)
Submit(r) ==
    /\ pc[r] = "idle"
    /\ pc' = [pc EXCEPT ![r] = "waiting"]
    /\ response' = [response EXCEPT ![r] = [kind |-> "none", tx |-> 0]]
    /\ queue' = Append(queue, r)
    /\ UNCHANGED <<seen, got, todo, sent, fresh, stores, chain, faults>>

(* RelayerNonceQueue.fetch chains each request behind the previous one,    *)
(* whatever became of it; without the queue requests start at once.        *)
MayBegin(r) == Queued => r = Head(queue) /\ InFlight = {}

Dequeue(r) == SelectSeq(queue, LAMBDA s : s # r)

Begin(r) ==
    /\ pc[r] = "waiting"
    /\ MayBegin(r)
    /\ queue' = Dequeue(r)
    /\ GoTo(r, "rateRead")
    /\ UNCHANGED <<stores, chain, faults>>

(* checkAndRecordRelayRateLimit: the counters are read together, compared, *)
(* and written back one higher together.                                   *)
Exceeded(r) == \E k \in RateKeysOf[r] : counts[k] + 1 > Limit[k]

RateRead(r) ==
    /\ pc[r] = "rateRead"
    /\ \/ /\ Exceeded(r)
          /\ Respond(r, "limited", 0)
       \/ /\ ~Exceeded(r)
          /\ pc' = [pc EXCEPT ![r] = "rateWrite"]
          /\ seen' = [seen EXCEPT ![r] = [current |-> TRUE, counts |-> counts]]
          /\ UNCHANGED <<got, todo, sent, response, fresh>>
    /\ UNCHANGED <<queue, stores, chain, faults>>

(* Counters of a window that has ended are never read again. *)
Recorded(r, landed) ==
    [k \in RateKeys |-> IF seen[r].current /\ k \in landed
                        THEN seen[r].counts[k] + 1 ELSE counts[k]]

RateWrite(r) ==
    /\ pc[r] = "rateWrite"
    /\ counts' = Recorded(r, RateKeysOf[r])
    /\ admitted' = [k \in RateKeys |-> IF seen[r].current /\ k \in RateKeysOf[r]
                                       THEN admitted[k] + 1 ELSE admitted[k]]
    /\ pc' = [pc EXCEPT ![r] = "prepare"]
    /\ seen' = [seen EXCEPT ![r] = NothingSeen]
    /\ todo' = [todo EXCEPT ![r] = RecordKeys]
    /\ UNCHANGED <<got, sent, response, fresh, queue, nullifierRecord, calldataRecord,
                   chain, faults>>

RateWriteFails(r) ==
    /\ pc[r] = "rateWrite"
    /\ Faulty
    /\ \E landed \in SUBSET RateKeysOf[r] : counts' = Recorded(r, landed)
    /\ Respond(r, "error", 0)
    /\ UNCHANGED <<queue, nullifierRecord, calldataRecord, admitted, chain>>

(* prepareRelayIdempotency reads both records, in either order ... *)
Stored(r, key) ==
    IF key = "nullifier" THEN nullifierRecord[Nullifier(r)]
                         ELSE calldataRecord[CalldataOf[r]]

ReadRecord(r, key) ==
    /\ pc[r] = "prepare"
    /\ key \in todo[r]
    /\ got' = [got EXCEPT ![r][key] = Stored(r, key)]
    /\ todo' = [todo EXCEPT ![r] = @ \ {key}]
    /\ UNCHANGED <<pc, seen, sent, response, fresh, queue, stores, chain, faults>>

(* The store has not propagated a record yet and reports none. *)
StaleRead(r, key) ==
    /\ pc[r] = "prepare"
    /\ key \in todo[r]
    /\ Stored(r, key) # NoRecord
    /\ Faulty
    /\ got' = [got EXCEPT ![r][key] = NoRecord]
    /\ todo' = [todo EXCEPT ![r] = @ \ {key}]
    /\ fresh' = [fresh EXCEPT ![r] = @ /\ key # "nullifier"]
    /\ UNCHANGED <<pc, seen, sent, response, queue, stores, chain>>

(* ... and decides: the calldata's record first, then the nullifier's.     *)
Ready(r) == \A k \in RecordKeys : got[r][k] = NoRecord

SameCalldata(r) == got[r]["nullifier"].calldata = CalldataOf[r]

Decisive(r) ==
    IF got[r]["calldata"] # NoRecord THEN got[r]["calldata"] ELSE got[r]["nullifier"]

Conflict(r) == got[r]["calldata"] = NoRecord /\ ~SameCalldata(r)

Decide(r) ==
    /\ pc[r] = "prepare"
    /\ todo[r] = {}
    /\ \/ Ready(r) /\ GoTo(r, "check")
       \/ /\ ~Ready(r)
          /\ \/ Conflict(r) /\ Respond(r, "conflict", 0)
             \/ /\ ~Conflict(r)
                /\ \/ /\ Decisive(r).status = "submitted"
                      /\ Respond(r, "replay", Decisive(r).tx)
                   \/ /\ Decisive(r).status = "pending"
                      /\ Respond(r, "pending", 0)
    /\ UNCHANGED <<queue, stores, chain, faults>>

(* assertWithdrawalNullifierUnspent, then estimateGas, which reverts for a *)
(* spent nullifier, and the second policy check.                           *)
CheckNullifier(r) ==
    /\ pc[r] = "check"
    /\ \/ Nullifier(r) \in spent /\ Respond(r, "error", 0)
       \/ Nullifier(r) \notin spent /\ GoTo(r, "estimate")
    /\ UNCHANGED <<queue, stores, chain, faults>>

EstimateGas(r) ==
    /\ pc[r] = "estimate"
    /\ \/ /\ Nullifier(r) \in spent
          /\ Respond(r, "error", 0)
       \/ /\ Nullifier(r) \notin spent
          /\ pc' = [pc EXCEPT ![r] = "pending"]
          /\ todo' = [todo EXCEPT ![r] = RecordKeys]
          /\ UNCHANGED <<seen, got, sent, response, fresh>>
    /\ UNCHANGED <<queue, stores, chain, faults>>

(* recordRelayPending and recordRelaySubmitted put the record under both   *)
(* keys, in either order. A put that fails ends the request at once.       *)
RecordOf(r) ==
    [status |-> IF pc[r] = "pending" THEN "pending" ELSE "submitted",
     calldata |-> CalldataOf[r], tx |-> sent[r]]

Put(r, key) ==
    \/ /\ key = "nullifier"
       /\ nullifierRecord' = [nullifierRecord EXCEPT ![Nullifier(r)] = RecordOf(r)]
       /\ UNCHANGED calldataRecord
    \/ /\ key = "calldata"
       /\ calldataRecord' = [calldataRecord EXCEPT ![CalldataOf[r]] = RecordOf(r)]
       /\ UNCHANGED nullifierRecord

PutRecord(r, key) ==
    /\ pc[r] \in {"pending", "submitted"}
    /\ key \in todo[r]
    /\ Put(r, key)
    /\ todo' = [todo EXCEPT ![r] = @ \ {key}]
    /\ UNCHANGED <<pc, seen, got, sent, response, fresh, queue, counts, admitted,
                   chain, faults>>

PutFails(r, key) ==
    /\ pc[r] \in {"pending", "submitted"}
    /\ key \in todo[r]
    /\ Faulty
    /\ Put(r, key) \/ UNCHANGED <<nullifierRecord, calldataRecord>>
    /\ Respond(r, "error", 0)
    /\ UNCHANGED <<queue, counts, admitted, chain>>

(* sendTransaction: the node takes the transaction and answers; or takes   *)
(* it and the answer is lost; or refuses it.                               *)
Accept(r) ==
    txs' = Append(txs, [calldata |-> CalldataOf[r], fate |-> "pooled", live |-> fresh[r]])

Send(r) ==
    /\ pc[r] = "pending"
    /\ todo[r] = {}
    /\ Accept(r)
    /\ pc' = [pc EXCEPT ![r] = "submitted"]
    /\ sent' = [sent EXCEPT ![r] = Len(txs')]
    /\ todo' = [todo EXCEPT ![r] = RecordKeys]
    /\ UNCHANGED <<seen, got, response, fresh, queue, stores, spent, faults>>

SendFails(r) ==
    /\ pc[r] = "pending"
    /\ todo[r] = {}
    /\ Faulty
    /\ Accept(r) \/ UNCHANGED txs
    /\ Respond(r, "error", 0)
    /\ UNCHANGED <<queue, stores, spent>>

Answer(r) ==
    /\ pc[r] = "submitted"
    /\ todo[r] = {}
    /\ Respond(r, "sent", sent[r])
    /\ UNCHANGED <<queue, stores, chain, faults>>

(* Any other await that rejects, or a check that throws, before anything   *)
(* of the request was stored: static checks, RPC reads, store reads.       *)
Fail(r) ==
    /\ pc[r] \in {"rateRead", "prepare", "check", "estimate"}
    /\ Faulty
    /\ Respond(r, "error", 0)
    /\ UNCHANGED <<queue, stores, chain>>

(* The isolate of the worker goes away with everything in memory. *)
Crash ==
    /\ InFlight # {} \/ queue # << >>
    /\ Faulty
    /\ queue' = << >>
    /\ pc' = [r \in Requests |-> "idle"]
    /\ seen' = [r \in Requests |-> NothingSeen]
    /\ got' = [r \in Requests |-> NothingGot]
    /\ todo' = [r \in Requests |-> {}]
    /\ sent' = [r \in Requests |-> 0]
    /\ fresh' = [r \in Requests |-> TRUE]
    /\ UNCHANGED <<response, stores, chain>>

-----------------------------------------------------------------------------
(* The TTL of a record runs out. That a transaction is still pooled when   *)
(* its record lapses is a fault of the chain: the TTL is an hour.          *)
Lapses(record) == record # NoRecord

Pooled(n) == \E i \in DOMAIN txs : txs[i].fate = "pooled" /\ NullifierOf[txs[i].calldata] = n

LateOrTimely(n) == IF Pooled(n) THEN Faulty ELSE UNCHANGED faults

LapseNullifier(n) ==
    /\ Lapses(nullifierRecord[n])
    /\ LateOrTimely(n)
    /\ nullifierRecord' = [nullifierRecord EXCEPT ![n] = NoRecord]
    /\ txs' = [i \in DOMAIN txs |-> [txs[i] EXCEPT !.live = @ /\ NullifierOf[txs[i].calldata] # n]]
    /\ fresh' = [r \in Requests |-> fresh[r] /\ (pc[r] \in {"pending", "submitted"} => Nullifier(r) # n)]
    /\ UNCHANGED <<queue, pc, seen, got, todo, sent, response, calldataRecord, counts,
                   admitted, spent>>

LapseCalldata(c) ==
    /\ Lapses(calldataRecord[c])
    /\ LateOrTimely(NullifierOf[c])
    /\ calldataRecord' = [calldataRecord EXCEPT ![c] = NoRecord]
    /\ UNCHANGED <<queue, handlers, nullifierRecord, counts, admitted, chain>>

(* The next rate-limit window begins with new keys. *)
NextWindow ==
    /\ \E k \in RateKeys : counts[k] > 0
    /\ counts' = [k \in RateKeys |-> 0]
    /\ admitted' = [k \in RateKeys |-> 0]
    /\ seen' = [r \in Requests |-> [seen[r] EXCEPT !.current = FALSE]]
    /\ UNCHANGED <<queue, pc, got, todo, sent, response, fresh, nullifierRecord,
                   calldataRecord, chain, faults>>

(* The chain executes a pooled transaction, which reverts if its nullifier *)
(* is spent, or drops it. The owner may also spend the note without the    *)
(* relayer.                                                                *)
Execute(i) ==
    LET n == NullifierOf[txs[i].calldata] IN
    /\ txs[i].fate = "pooled"
    /\ txs' = [txs EXCEPT ![i].fate = IF n \in spent THEN "reverted" ELSE "executed"]
    /\ spent' = spent \cup {n}
    /\ UNCHANGED <<queue, handlers, stores, faults>>

Drop(i) ==
    /\ txs[i].fate = "pooled"
    /\ Faulty
    /\ txs' = [txs EXCEPT ![i].fate = "dropped"]
    /\ UNCHANGED <<queue, handlers, stores, spent>>

SpentElsewhere(n) ==
    /\ n \notin spent
    /\ Faulty
    /\ spent' = spent \cup {n}
    /\ UNCHANGED <<queue, handlers, stores, txs>>

-----------------------------------------------------------------------------
Handle(r) ==
    \/ Begin(r) \/ RateRead(r) \/ RateWrite(r)
    \/ \E key \in RecordKeys : ReadRecord(r, key) \/ PutRecord(r, key)
    \/ Decide(r) \/ CheckNullifier(r) \/ EstimateGas(r)
    \/ Send(r) \/ Answer(r)

HandlerFault(r) ==
    \/ RateWriteFails(r) \/ SendFails(r) \/ Fail(r)
    \/ \E key \in RecordKeys : PutFails(r, key) \/ StaleRead(r, key)

Next ==
    \/ \E r \in Requests : Submit(r) \/ Handle(r) \/ HandlerFault(r)
    \/ Crash \/ NextWindow
    \/ \E n \in Nullifiers : LapseNullifier(n) \/ SpentElsewhere(n)
    \/ \E c \in Calldatas : LapseCalldata(c)
    \/ \E i \in DOMAIN txs : Execute(i) \/ Drop(i)

Spec == Init /\ [][Next]_vars

(* Awaited calls settle, records lapse, windows end, and the chain         *)
(* executes or drops what it accepted.                                     *)
FairSpec ==
    /\ Spec
    /\ \A r \in Requests : WF_vars(Handle(r))
    /\ \A n \in Nullifiers : WF_vars(LapseNullifier(n))
    /\ \A c \in Calldatas : WF_vars(LapseCalldata(c))
    /\ WF_vars(NextWindow)
    /\ WF_vars(\E i \in DOMAIN txs : Execute(i))

-----------------------------------------------------------------------------
(* Types of the relayer's state; the nonce queue holds exactly the         *)
(* requests that wait for their turn.                                      *)
TypeOK ==
    /\ queue \in Seq(Requests)
    /\ Range(queue) = {r \in Requests : pc[r] = "waiting"}
    /\ pc \in [Requests -> {"idle", "waiting", "rateRead", "rateWrite", "prepare", "check",
                            "estimate", "pending", "submitted"}]
    /\ seen \in [Requests -> [current : BOOLEAN, counts : [RateKeys -> Nat]]]
    /\ got \in [Requests -> [RecordKeys -> Records \cup {NoRecord}]]
    /\ todo \in [Requests -> SUBSET RecordKeys]
    /\ sent \in [Requests -> Nat]
    /\ response \in [Requests -> [kind : {"none", "limited", "error", "conflict", "pending",
                                          "replay", "sent"}, tx : Nat]]
    /\ nullifierRecord \in [Nullifiers -> Records \cup {NoRecord}]
    /\ calldataRecord \in [Calldatas -> Records \cup {NoRecord}]
    /\ counts \in [RateKeys -> Nat]
    /\ admitted \in [RateKeys -> Nat]
    /\ txs \in Seq([calldata : Calldatas, live : BOOLEAN,
                    fate : {"pooled", "executed", "reverted", "dropped"}])
    /\ spent \subseteq Nullifiers
    /\ fresh \in [Requests -> BOOLEAN]
    /\ faults \in 0..MaxFaults

(* With the nonce queue the relayer submits a nullifier's withdrawal at    *)
(* most once for as long as its idempotency record lasts and is seen by    *)
(* the reader, whatever fails or crashes between recordRelayPending and    *)
(* recordRelaySubmitted, however often and with whatever calldata the      *)
(* clients ask again, and even when the calldata's record is missed.       *)
OneSubmissionPerRecord ==
    Queued => \A i, j \in DOMAIN txs :
                 /\ txs[i].live /\ txs[j].live
                 /\ NullifierOf[txs[i].calldata] = NullifierOf[txs[j].calldata]
                 => i = j

(* With the nonce queue no counter of a window lets more requests through  *)
(* than its limit, although reading and writing it are separate steps.     *)
RateBound == Queued => \A k \in RateKeys : admitted[k] <= Limit[k]

(* A positive answer, a replayed one included, names a transaction the     *)
(* node accepted with the calldata of that very request: never that of     *)
(* another withdrawal of the same nullifier, and also when a stale read    *)
(* let a second transaction through. Needs no queue.                       *)
HonestAnswer ==
    \A r \in Requests : response[r].kind \in {"sent", "replay"} =>
        /\ response[r].tx \in DOMAIN txs
        /\ txs[response[r].tx].calldata = CalldataOf[r]

(* A request that waits in the nonce queue is answered, whatever errors    *)
(* the requests before it end in, or lost in a crash with the whole queue. *)
QueueDrains == \A r \in Requests : pc[r] = "waiting" ~> pc[r] = "idle"

(* A client that keeps asking gets its note spent: no leftover pending     *)
(* record, used-up window or dropped transaction blocks it for good.       *)
RetriesSucceed ==
    \A r \in Requests : []<><<Submit(r)>>_vars => <>(Nullifier(r) \in spent)
=============================================================================
