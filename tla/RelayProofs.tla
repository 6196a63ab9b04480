----------------------------- MODULE RelayProofs -----------------------------
(***************************************************************************)
(* The relayer's safety properties, for any number of clients, calldatas,  *)
(* nullifiers, rate-limit counters and faults.                             *)
(*                                                                         *)
(* OneSubmissionPerRecord is not inductive: that a handler may submit      *)
(* rests on what it read several awaits earlier. What survives those       *)
(* awaits is Cleared (since the handler found no record, no transaction of *)
(* its nullifier has a lasting record) and Guarded (every transaction      *)
(* whose record has not lapsed, and every handler about to submit one, has *)
(* its record in the store); the nonce queue makes both stable, since no   *)
(* other handler moves in between.                                         *)
(*                                                                         *)
(* What the relayer submits holds for every set of configurations, every   *)
(* schedule of fee changes, deploys and restarts, and every deadline       *)
(* window and request life time that the fee delay outlasts.               *)
(*                                                                         *)
(* A fee field that was read says nothing about the pool later on. What    *)
(* survives is a disjunction: what is pending now is what was read, or was *)
(* scheduled after the handler began to read and is then due only after    *)
(* every deadline the handler may still accept.                            *)
(***************************************************************************)
EXTENDS Relayer, RelayAdmission, FeePolicyProofs, SequenceTheorems


Labels == {"idle", "waiting", "rateRead", "rateWrite", "prepare", "check", "estimate",
           "pending", "submitted"}

Txs == [calldata : Calldatas, live : BOOLEAN,
        fate : {"pooled", "executed", "reverted", "dropped"}]

(* The parts of TypeOK the arguments below need. *)
HandlersOK ==
    /\ pc \in [Requests -> Labels]
    /\ seen \in [Requests -> [current : BOOLEAN, counts : [RateKeys -> Nat]]]
    /\ got \in [Requests -> [RecordKeys -> Records \cup {NoRecord}]]
    /\ todo \in [Requests -> SUBSET RecordKeys]
    /\ sent \in [Requests -> Nat]
    /\ fresh \in [Requests -> BOOLEAN]

StoresOK ==
    /\ nullifierRecord \in [Nullifiers -> Records \cup {NoRecord}]
    /\ calldataRecord \in [Calldatas -> Records \cup {NoRecord}]
    /\ counts \in [RateKeys -> Nat]
    /\ admitted \in [RateKeys -> Nat]

TxsOK == txs \in Seq(Txs)

(* RelayerNonceQueue: one handler at a time. *)
Exclusive == \A r, s \in InFlight : r = s

TxNullifier(i) == NullifierOf[txs[i].calldata]

(* A handler that found no nullifier record, and missed none, has no       *)
(* lasting predecessor.                                                    *)
FoundNone(r) ==
    \/ pc[r] \in {"check", "estimate", "pending"}
    \/ pc[r] = "prepare" /\ "nullifier" \notin todo[r] /\ got[r]["nullifier"] = NoRecord

Cleared ==
    \A r \in Requests : FoundNone(r) /\ fresh[r] = TRUE =>
        \A i \in DOMAIN txs : txs[i].live = TRUE => TxNullifier(i) # Nullifier(r)

(* A transaction whose record has not lapsed has its record in the store,  *)
(* and so has a handler that recorded it as pending and may now submit.    *)
Guarded ==
    /\ \A i \in DOMAIN txs : txs[i].live = TRUE => nullifierRecord[TxNullifier(i)] # NoRecord
    /\ \A r \in Requests :
          pc[r] = "pending" /\ "nullifier" \notin todo[r] /\ fresh[r] = TRUE
             => nullifierRecord[Nullifier(r)] # NoRecord

(* No two transactions of a nullifier have a lasting record. *)
Unique ==
    \A i, j \in DOMAIN txs :
        txs[i].live = TRUE /\ txs[j].live = TRUE /\ TxNullifier(i) = TxNullifier(j) => i = j

(* Between its read and its write a handler knows the counters, and the    *)
(* counters bound what was let through.                                    *)
Counted ==
    /\ \A k \in RateKeys : admitted[k] <= counts[k] /\ counts[k] <= Limit[k]
    /\ \A r \in Requests : pc[r] = "rateWrite" /\ seen[r].current = TRUE =>
          \A k \in RateKeysOf[r] : seen[r].counts[k] = counts[k] /\ counts[k] + 1 <= Limit[k]

-----------------------------------------------------------------------------
(* What a handler's last step leaves. *)
LEMMA RespondOK ==
    ASSUME HandlersOK, NEW r \in Requests, NEW kind, NEW tx, Respond(r, kind, tx)
    PROVE  HandlersOK'
BY DEF HandlersOK, Respond, NothingSeen, NothingGot, Labels

(* What a handler that moves on leaves. *)
LEMMA GoToOK ==
    ASSUME HandlersOK, NEW r \in Requests, NEW label \in Labels, GoTo(r, label)
    PROVE  HandlersOK'
BY DEF HandlersOK, GoTo

(* A transaction keeps its shape when its fate or its liveness changes. *)
LEMMA TxFields ==
    ASSUME NEW t \in Txs, NEW b \in BOOLEAN,
           NEW f \in {"pooled", "executed", "reverted", "dropped"}
    PROVE  [t EXCEPT !.live = b] \in Txs /\ [t EXCEPT !.fate = f] \in Txs
BY DEF Txs

(* Records are put well formed. *)
LEMMA RecordOfType ==
    ASSUME HandlersOK, NEW r \in Requests
    PROVE  RecordOf(r) \in Records
BY RelayerAssumption DEF HandlersOK, RecordOf, Records

(* Puts keep the stores well formed. *)
LEMMA PutOK ==
    ASSUME HandlersOK, StoresOK, NEW r \in Requests, NEW key \in RecordKeys, Put(r, key)
    PROVE  /\ nullifierRecord' \in [Nullifiers -> Records \cup {NoRecord}]
           /\ calldataRecord' \in [Calldatas -> Records \cup {NoRecord}]
BY RecordOfType DEF StoresOK, Put

(* Every step keeps the handlers, the stores and the pool of transactions  *)
(* well formed.                                                            *)
LEMMA HandlersStep ==
    ASSUME HandlersOK, StoresOK, TxsOK, [Next]_vars
    PROVE  HandlersOK'
<1> USE RelayerAssumption
<1>1. ASSUME NEW r \in Requests, Submit(r) PROVE HandlersOK'
      BY <1>1 DEF Submit, HandlersOK, Labels, stores, chain, handlers
<1>2. ASSUME NEW r \in Requests, Begin(r) PROVE HandlersOK'
      BY <1>2, RespondOK, GoToOK DEF Begin, Labels
<1>3. ASSUME NEW r \in Requests, RateRead(r) PROVE HandlersOK'
    <2>1. CASE Exceeded(r)
          BY <1>3, <2>1, RespondOK DEF RateRead
    <2>2. CASE ~Exceeded(r)
        <3>1. /\ pc' = [pc EXCEPT ![r] = "rateWrite"]
              /\ seen' = [seen EXCEPT ![r] = [current |-> TRUE, counts |-> counts]]
              /\ UNCHANGED <<got, todo, sent, fresh>>
              BY <1>3, <2>2 DEF RateRead
        <3> QED
              BY <3>1 DEF HandlersOK, StoresOK, Labels
    <2> QED
          BY <2>1, <2>2
<1>4. ASSUME NEW r \in Requests, RateWrite(r) PROVE HandlersOK'
      BY <1>4 DEF RateWrite, HandlersOK, NothingSeen, Labels, RecordKeys
<1>5. ASSUME NEW r \in Requests, RateWriteFails(r) PROVE HandlersOK'
      BY <1>5, RespondOK, GoToOK DEF RateWriteFails, Labels
<1>6. ASSUME NEW r \in Requests, NEW key \in RecordKeys, ReadRecord(r, key) PROVE HandlersOK'
    <2>1. Stored(r, key) \in Records \cup {NoRecord}
          BY RelayerAssumption DEF Stored, StoresOK, Nullifier
    <2> QED
          BY <1>6, <2>1 DEF ReadRecord, HandlersOK, RecordKeys
<1>7. ASSUME NEW r \in Requests, NEW key \in RecordKeys, PutRecord(r, key) PROVE HandlersOK'
      BY <1>7 DEF PutRecord, HandlersOK
<1>8. ASSUME NEW r \in Requests, Decide(r) PROVE HandlersOK'
      BY <1>8, RespondOK, GoToOK DEF Decide, Labels
<1>9. ASSUME NEW r \in Requests, CheckNullifier(r) PROVE HandlersOK'
      BY <1>9, RespondOK, GoToOK DEF CheckNullifier, Labels
<1>10. ASSUME NEW r \in Requests, EstimateGas(r) PROVE HandlersOK'
    <2>1. CASE Nullifier(r) \in spent
          BY <1>10, <2>1, RespondOK DEF EstimateGas
    <2>2. CASE Nullifier(r) \notin spent
        <3>1. /\ pc' = [pc EXCEPT ![r] = "pending"]
              /\ todo' = [todo EXCEPT ![r] = RecordKeys]
              /\ UNCHANGED <<seen, got, sent, fresh>>
              BY <1>10, <2>2 DEF EstimateGas
        <3> QED
              BY <3>1 DEF HandlersOK, Labels
    <2> QED
          BY <2>1, <2>2
<1>11. ASSUME NEW r \in Requests, Send(r) PROVE HandlersOK'
      BY <1>11 DEF Send, Accept, HandlersOK, TxsOK, Labels, RecordKeys
<1>12. ASSUME NEW r \in Requests, Answer(r) PROVE HandlersOK'
      BY <1>12, RespondOK, GoToOK DEF Answer, Labels
<1>13. ASSUME NEW r \in Requests, SendFails(r) PROVE HandlersOK'
      BY <1>13, RespondOK, GoToOK DEF SendFails, Labels
<1>14. ASSUME NEW r \in Requests, Fail(r) PROVE HandlersOK'
      BY <1>14, RespondOK, GoToOK DEF Fail, Labels
<1>15. ASSUME NEW r \in Requests, NEW key \in RecordKeys, PutFails(r, key) PROVE HandlersOK'
      BY <1>15, RespondOK, GoToOK DEF PutFails, Labels
<1>16. ASSUME Crash PROVE HandlersOK'
      BY <1>16 DEF Crash, HandlersOK, NothingSeen, NothingGot, Labels
<1>17. ASSUME NextWindow PROVE HandlersOK'
      BY <1>17 DEF NextWindow, HandlersOK, Labels, stores, chain, handlers
<1>18. ASSUME NEW n \in Nullifiers, LapseNullifier(n) PROVE HandlersOK'
      BY <1>18 DEF LapseNullifier, HandlersOK, Labels, stores, chain, handlers
<1>19. ASSUME NEW n \in Nullifiers, SpentElsewhere(n) PROVE HandlersOK'
      BY <1>19 DEF SpentElsewhere, HandlersOK, Labels, stores, chain, handlers
<1>20. ASSUME NEW c \in Calldatas, LapseCalldata(c) PROVE HandlersOK'
      BY <1>20 DEF LapseCalldata, HandlersOK, Labels, stores, chain, handlers
<1>21. ASSUME NEW i \in DOMAIN txs, Execute(i) PROVE HandlersOK'
      BY <1>21 DEF Execute, HandlersOK, Labels, stores, chain, handlers
<1>22. ASSUME NEW i \in DOMAIN txs, Drop(i) PROVE HandlersOK'
      BY <1>22 DEF Drop, HandlersOK, Labels, stores, chain, handlers
<1>23. CASE UNCHANGED vars
      BY <1>23 DEF vars, stores, chain, handlers, HandlersOK, Labels
<1>24. ASSUME NEW r \in Requests, NEW key \in RecordKeys, StaleRead(r, key) PROVE HandlersOK'
    <2>1. fresh' \in [Requests -> BOOLEAN]
          BY <1>24 DEF StaleRead, HandlersOK
    <2> QED
          BY <1>24, <2>1 DEF StaleRead, HandlersOK, RecordKeys
<1> QED
      BY <1>1, <1>2, <1>3, <1>4, <1>5, <1>6, <1>7, <1>8, <1>9, <1>10, <1>11, <1>12, <1>13,
         <1>14, <1>15, <1>16, <1>17, <1>18, <1>19, <1>20, <1>21, <1>22, <1>23, <1>24 DEF Next,
         Handle, HandlerFault

(* The same for the two key-value stores. *)
LEMMA StoresStep ==
    ASSUME HandlersOK, StoresOK, [Next]_vars
    PROVE  StoresOK'
<1> USE RelayerAssumption
<1>1. ASSUME NEW r \in Requests, Submit(r) PROVE StoresOK'
      BY <1>1 DEF Submit, StoresOK, stores, chain, handlers
<1>2. ASSUME NEW r \in Requests, Begin(r) PROVE StoresOK'
      BY <1>2 DEF Begin, StoresOK, stores, chain, handlers
<1>3. ASSUME NEW r \in Requests, RateRead(r) PROVE StoresOK'
      BY <1>3 DEF RateRead, StoresOK, stores, chain, handlers
<1>4. ASSUME NEW r \in Requests, RateWrite(r) PROVE StoresOK'
      BY <1>4 DEF RateWrite, Recorded, StoresOK, HandlersOK
<1>5. ASSUME NEW r \in Requests, RateWriteFails(r) PROVE StoresOK'
      BY <1>5 DEF RateWriteFails, Recorded, StoresOK, HandlersOK
<1>6. ASSUME NEW r \in Requests, NEW key \in RecordKeys, ReadRecord(r, key) PROVE StoresOK'
      BY <1>6 DEF ReadRecord, StoresOK, stores, chain, handlers
<1>7. ASSUME NEW r \in Requests, NEW key \in RecordKeys, PutRecord(r, key) PROVE StoresOK'
      BY <1>7, PutOK DEF PutRecord, StoresOK
<1>8. ASSUME NEW r \in Requests, Decide(r) PROVE StoresOK'
      BY <1>8 DEF Decide, StoresOK, stores, chain, handlers
<1>9. ASSUME NEW r \in Requests, CheckNullifier(r) PROVE StoresOK'
      BY <1>9 DEF CheckNullifier, StoresOK, stores, chain, handlers
<1>10. ASSUME NEW r \in Requests, EstimateGas(r) PROVE StoresOK'
      BY <1>10 DEF EstimateGas, StoresOK, stores, chain, handlers
<1>11. ASSUME NEW r \in Requests, Send(r) PROVE StoresOK'
      BY <1>11 DEF Send, StoresOK, stores, chain, handlers
<1>12. ASSUME NEW r \in Requests, Answer(r) PROVE StoresOK'
      BY <1>12 DEF Answer, StoresOK, stores, chain, handlers
<1>13. ASSUME NEW r \in Requests, SendFails(r) PROVE StoresOK'
      BY <1>13 DEF SendFails, StoresOK, stores, chain, handlers
<1>14. ASSUME NEW r \in Requests, Fail(r) PROVE StoresOK'
      BY <1>14 DEF Fail, StoresOK, stores, chain, handlers
<1>15. ASSUME NEW r \in Requests, NEW key \in RecordKeys, PutFails(r, key) PROVE StoresOK'
      BY <1>15, PutOK DEF PutFails, StoresOK
<1>16. ASSUME Crash PROVE StoresOK'
      BY <1>16 DEF Crash, StoresOK, stores, chain, handlers
<1>17. ASSUME NextWindow PROVE StoresOK'
      BY <1>17 DEF NextWindow, StoresOK, stores, chain, handlers
<1>18. ASSUME NEW n \in Nullifiers, LapseNullifier(n) PROVE StoresOK'
      BY <1>18 DEF LapseNullifier, StoresOK, stores, chain, handlers
<1>19. ASSUME NEW n \in Nullifiers, SpentElsewhere(n) PROVE StoresOK'
      BY <1>19 DEF SpentElsewhere, StoresOK, stores, chain, handlers
<1>20. ASSUME NEW c \in Calldatas, LapseCalldata(c) PROVE StoresOK'
      BY <1>20 DEF LapseCalldata, StoresOK, stores, chain, handlers
<1>21. ASSUME NEW i \in DOMAIN txs, Execute(i) PROVE StoresOK'
      BY <1>21 DEF Execute, StoresOK, stores, chain, handlers
<1>22. ASSUME NEW i \in DOMAIN txs, Drop(i) PROVE StoresOK'
      BY <1>22 DEF Drop, StoresOK, stores, chain, handlers
<1>23. CASE UNCHANGED vars
      BY <1>23 DEF vars, stores, chain, handlers, StoresOK
<1>24. ASSUME NEW r \in Requests, NEW key \in RecordKeys, StaleRead(r, key) PROVE StoresOK'
      BY <1>24 DEF StaleRead, StoresOK, stores
<1> QED
      BY <1>1, <1>2, <1>3, <1>4, <1>5, <1>6, <1>7, <1>8, <1>9, <1>10, <1>11, <1>12, <1>13,
         <1>14, <1>15, <1>16, <1>17, <1>18, <1>19, <1>20, <1>21, <1>22, <1>23, <1>24 DEF Next,
         Handle, HandlerFault

(* The same for the transactions. *)
LEMMA TxsStep ==
    ASSUME HandlersOK, TxsOK, [Next]_vars
    PROVE  TxsOK'
<1> USE RelayerAssumption
<1>1. ASSUME NEW r \in Requests, Submit(r) PROVE TxsOK'
      BY <1>1 DEF Submit, TxsOK, stores, chain, handlers
<1>2. ASSUME NEW r \in Requests, Begin(r) PROVE TxsOK'
      BY <1>2 DEF Begin, TxsOK, stores, chain, handlers
<1>3. ASSUME NEW r \in Requests, RateRead(r) PROVE TxsOK'
      BY <1>3 DEF RateRead, TxsOK, stores, chain, handlers
<1>4. ASSUME NEW r \in Requests, RateWrite(r) PROVE TxsOK'
      BY <1>4 DEF RateWrite, TxsOK, stores, chain, handlers
<1>5. ASSUME NEW r \in Requests, RateWriteFails(r) PROVE TxsOK'
      BY <1>5 DEF RateWriteFails, TxsOK, stores, chain, handlers
<1>6. ASSUME NEW r \in Requests, NEW key \in RecordKeys, ReadRecord(r, key) PROVE TxsOK'
      BY <1>6 DEF ReadRecord, TxsOK, stores, chain, handlers
<1>7. ASSUME NEW r \in Requests, NEW key \in RecordKeys, PutRecord(r, key) PROVE TxsOK'
      BY <1>7 DEF PutRecord, TxsOK, stores, chain, handlers
<1>8. ASSUME NEW r \in Requests, Decide(r) PROVE TxsOK'
      BY <1>8 DEF Decide, TxsOK, stores, chain, handlers
<1>9. ASSUME NEW r \in Requests, CheckNullifier(r) PROVE TxsOK'
      BY <1>9 DEF CheckNullifier, TxsOK, stores, chain, handlers
<1>10. ASSUME NEW r \in Requests, EstimateGas(r) PROVE TxsOK'
      BY <1>10 DEF EstimateGas, TxsOK, stores, chain, handlers
<1>11. ASSUME NEW r \in Requests, Send(r) PROVE TxsOK'
      BY <1>11 DEF Send, Accept, TxsOK, Txs, HandlersOK
<1>12. ASSUME NEW r \in Requests, Answer(r) PROVE TxsOK'
      BY <1>12 DEF Answer, TxsOK, stores, chain, handlers
<1>13. ASSUME NEW r \in Requests, SendFails(r) PROVE TxsOK'
    <2>1. CASE Accept(r)
          BY <2>1 DEF Accept, TxsOK, Txs, HandlersOK
    <2>2. CASE UNCHANGED txs
          BY <2>2 DEF TxsOK
    <2> QED
          BY <1>13, <2>1, <2>2 DEF SendFails
<1>14. ASSUME NEW r \in Requests, Fail(r) PROVE TxsOK'
      BY <1>14 DEF Fail, TxsOK, stores, chain, handlers
<1>15. ASSUME NEW r \in Requests, NEW key \in RecordKeys, PutFails(r, key) PROVE TxsOK'
      BY <1>15 DEF PutFails, TxsOK, stores, chain, handlers
<1>16. ASSUME Crash PROVE TxsOK'
      BY <1>16 DEF Crash, TxsOK, stores, chain, handlers
<1>17. ASSUME NextWindow PROVE TxsOK'
      BY <1>17 DEF NextWindow, TxsOK, stores, chain, handlers
<1>18. ASSUME NEW n \in Nullifiers, LapseNullifier(n) PROVE TxsOK'
    <2>1. \A j \in DOMAIN txs :
             [txs[j] EXCEPT !.live = @ /\ NullifierOf[txs[j].calldata] # n] \in Txs
        <3> SUFFICES ASSUME NEW j \in DOMAIN txs
                     PROVE  [txs[j] EXCEPT !.live = @ /\ NullifierOf[txs[j].calldata] # n] \in Txs
              OBVIOUS
        <3>1. txs[j] \in Txs
              BY DEF TxsOK
        <3>2. (txs[j].live /\ NullifierOf[txs[j].calldata] # n) \in BOOLEAN
              BY Zenon
        <3> QED
              BY <3>1, <3>2, TxFields
    <2>2. txs' \in [1..Len(txs) -> Txs]
          BY <1>18, <2>1 DEF LapseNullifier, TxsOK
    <2> QED
          BY <2>2, SeqDef DEF TxsOK
<1>19. ASSUME NEW n \in Nullifiers, SpentElsewhere(n) PROVE TxsOK'
      BY <1>19 DEF SpentElsewhere, TxsOK, stores, chain, handlers
<1>20. ASSUME NEW c \in Calldatas, LapseCalldata(c) PROVE TxsOK'
      BY <1>20 DEF LapseCalldata, TxsOK, stores, chain, handlers
<1>21. ASSUME NEW i \in DOMAIN txs, Execute(i) PROVE TxsOK'
    <2>1. txs' \in [1..Len(txs) -> Txs]
        <3>1. txs[i] \in Txs
              BY DEF TxsOK
        <3>2. PICK f \in {"pooled", "executed", "reverted", "dropped"} :
                 txs' = [txs EXCEPT ![i].fate = f]
              BY <1>21 DEF Execute
        <3>3. [txs[i] EXCEPT !.fate = f] \in Txs
              BY <3>1, TxFields
        <3>4. txs \in [1..Len(txs) -> Txs] /\ i \in 1..Len(txs)
              BY DEF TxsOK
        <3> QED
              BY <3>2, <3>3, <3>4
    <2> QED
          BY <2>1, SeqDef DEF TxsOK
<1>22. ASSUME NEW i \in DOMAIN txs, Drop(i) PROVE TxsOK'
    <2>1. txs' \in [1..Len(txs) -> Txs]
        <3>1. txs[i] \in Txs
              BY DEF TxsOK
        <3>2. [txs[i] EXCEPT !.fate = "dropped"] \in Txs
              BY <3>1, TxFields
        <3>3. txs \in [1..Len(txs) -> Txs] /\ i \in 1..Len(txs)
              BY DEF TxsOK
        <3> QED
              BY <1>22, <3>2, <3>3 DEF Drop
    <2> QED
          BY <2>1, SeqDef DEF TxsOK
<1>23. CASE UNCHANGED vars
      BY <1>23 DEF vars, stores, chain, handlers, TxsOK
<1>24. ASSUME NEW r \in Requests, NEW key \in RecordKeys, StaleRead(r, key) PROVE TxsOK'
      BY <1>24 DEF StaleRead, TxsOK, chain
<1> QED
      BY <1>1, <1>2, <1>3, <1>4, <1>5, <1>6, <1>7, <1>8, <1>9, <1>10, <1>11, <1>12, <1>13,
         <1>14, <1>15, <1>16, <1>17, <1>18, <1>19, <1>20, <1>21, <1>22, <1>23, <1>24 DEF Next,
         Handle, HandlerFault

(* Behind the nonce queue no two handlers are ever in flight. *)
LEMMA ExclusiveStep ==
    ASSUME Queued, HandlersOK, Exclusive, [Next]_vars
    PROVE  Exclusive'
<1> USE RelayerAssumption
<1>1. ASSUME NEW r \in Requests, Submit(r) PROVE Exclusive'
      BY <1>1 DEF Submit, Exclusive, InFlight, HandlersOK, stores, chain, handlers
<1>2. ASSUME NEW r \in Requests, Begin(r) PROVE Exclusive'
      BY <1>2 DEF Begin, MayBegin, GoTo, Exclusive, InFlight, HandlersOK
<1>3. ASSUME NEW r \in Requests, RateRead(r) PROVE Exclusive'
      BY <1>3 DEF RateRead, Respond, Exclusive, InFlight, HandlersOK
<1>4. ASSUME NEW r \in Requests, RateWrite(r) PROVE Exclusive'
      BY <1>4 DEF RateWrite, Exclusive, InFlight, HandlersOK, stores, chain, handlers
<1>5. ASSUME NEW r \in Requests, RateWriteFails(r) PROVE Exclusive'
      BY <1>5 DEF RateWriteFails, Respond, Exclusive, InFlight, HandlersOK
<1>6. ASSUME NEW r \in Requests, NEW key \in RecordKeys, ReadRecord(r, key) PROVE Exclusive'
      BY <1>6 DEF ReadRecord, Exclusive, InFlight, HandlersOK, stores, chain, handlers
<1>7. ASSUME NEW r \in Requests, NEW key \in RecordKeys, PutRecord(r, key) PROVE Exclusive'
      BY <1>7 DEF PutRecord, Exclusive, InFlight, HandlersOK, stores, chain, handlers
<1>8. ASSUME NEW r \in Requests, Decide(r) PROVE Exclusive'
      BY <1>8, ZenonT(40) DEF Decide, Respond, GoTo, Exclusive, InFlight, HandlersOK
<1>9. ASSUME NEW r \in Requests, CheckNullifier(r) PROVE Exclusive'
      BY <1>9 DEF CheckNullifier, Respond, GoTo, Exclusive, InFlight, HandlersOK
<1>10. ASSUME NEW r \in Requests, EstimateGas(r) PROVE Exclusive'
      BY <1>10 DEF EstimateGas, Respond, Exclusive, InFlight, HandlersOK
<1>11. ASSUME NEW r \in Requests, Send(r) PROVE Exclusive'
      BY <1>11 DEF Send, Exclusive, InFlight, HandlersOK, stores, chain, handlers
<1>12. ASSUME NEW r \in Requests, Answer(r) PROVE Exclusive'
      BY <1>12 DEF Answer, Respond, Exclusive, InFlight, HandlersOK
<1>13. ASSUME NEW r \in Requests, SendFails(r) PROVE Exclusive'
      BY <1>13 DEF SendFails, Respond, Exclusive, InFlight, HandlersOK
<1>14. ASSUME NEW r \in Requests, Fail(r) PROVE Exclusive'
      BY <1>14 DEF Fail, Respond, Exclusive, InFlight, HandlersOK
<1>15. ASSUME NEW r \in Requests, NEW key \in RecordKeys, PutFails(r, key) PROVE Exclusive'
      BY <1>15 DEF PutFails, Respond, Exclusive, InFlight, HandlersOK
<1>16. ASSUME Crash PROVE Exclusive'
      BY <1>16 DEF Crash, Exclusive, InFlight, HandlersOK, stores, chain, handlers
<1>17. ASSUME NextWindow PROVE Exclusive'
      BY <1>17 DEF NextWindow, Exclusive, InFlight, HandlersOK, stores, chain, handlers
<1>18. ASSUME NEW n \in Nullifiers, LapseNullifier(n) PROVE Exclusive'
      BY <1>18 DEF LapseNullifier, Exclusive, InFlight, HandlersOK, stores, chain, handlers
<1>19. ASSUME NEW n \in Nullifiers, SpentElsewhere(n) PROVE Exclusive'
      BY <1>19 DEF SpentElsewhere, Exclusive, InFlight, HandlersOK, stores, chain, handlers
<1>20. ASSUME NEW c \in Calldatas, LapseCalldata(c) PROVE Exclusive'
      BY <1>20 DEF LapseCalldata, Exclusive, InFlight, HandlersOK, stores, chain, handlers
<1>21. ASSUME NEW i \in DOMAIN txs, Execute(i) PROVE Exclusive'
      BY <1>21 DEF Execute, Exclusive, InFlight, HandlersOK, stores, chain, handlers
<1>22. ASSUME NEW i \in DOMAIN txs, Drop(i) PROVE Exclusive'
      BY <1>22 DEF Drop, Exclusive, InFlight, HandlersOK, stores, chain, handlers
<1>23. CASE UNCHANGED vars
      BY <1>23 DEF vars, stores, chain, handlers, Exclusive, InFlight, HandlersOK
<1>24. ASSUME NEW r \in Requests, NEW key \in RecordKeys, StaleRead(r, key) PROVE Exclusive'
      BY <1>24 DEF StaleRead, Exclusive, InFlight
<1> QED
      BY <1>1, <1>2, <1>3, <1>4, <1>5, <1>6, <1>7, <1>8, <1>9, <1>10, <1>11, <1>12, <1>13,
         <1>14, <1>15, <1>16, <1>17, <1>18, <1>19, <1>20, <1>21, <1>22, <1>23, <1>24 DEF Next,
         Handle, HandlerFault

(* A handler that ends or moves on without touching the counters. *)
LEMMA RespondCounted ==
    ASSUME HandlersOK, Counted, NEW r \in Requests, NEW kind, NEW tx, Respond(r, kind, tx),
           UNCHANGED <<counts, admitted>>
    PROVE  Counted'
BY DEF Counted, HandlersOK, Respond

(* The same for one that moves on. *)
LEMMA GoToCounted ==
    ASSUME HandlersOK, Counted, NEW r \in Requests, NEW label, label # "rateWrite",
           GoTo(r, label), UNCHANGED <<counts, admitted>>
    PROVE  Counted'
BY DEF Counted, HandlersOK, GoTo

(* No other handler touches the counters between a read and its write. *)
LEMMA CountedStep ==
    ASSUME Queued, HandlersOK, StoresOK, Exclusive, Counted, [Next]_vars
    PROVE  Counted'
<1> USE RelayerAssumption
<1>1. ASSUME NEW r \in Requests, Submit(r) PROVE Counted'
      BY <1>1 DEF Submit, Counted, HandlersOK, StoresOK, stores, handlers
<1>2. ASSUME NEW r \in Requests, Begin(r) PROVE Counted'
      BY <1>2, RespondCounted, GoToCounted DEF Begin, stores
<1>3. ASSUME NEW r \in Requests, RateRead(r) PROVE Counted'
    <2>1. CASE Exceeded(r)
          BY <1>3, <2>1, RespondCounted DEF RateRead, stores
    <2>2. CASE ~Exceeded(r)
        <3>1. /\ pc' = [pc EXCEPT ![r] = "rateWrite"]
              /\ seen' = [seen EXCEPT ![r] = [current |-> TRUE, counts |-> counts]]
              /\ UNCHANGED <<counts, admitted>>
              BY <1>3, <2>2 DEF RateRead, stores
        <3>2. \A k \in RateKeysOf[r] : k \in RateKeys /\ counts[k] + 1 <= Limit[k]
              BY <2>2 DEF Exceeded, StoresOK
        <3> QED
              BY <3>1, <3>2 DEF Counted, HandlersOK
    <2> QED
          BY <2>1, <2>2
<1>4. ASSUME NEW r \in Requests, RateWrite(r) PROVE Counted'
    <2>1. \A s \in Requests : pc'[s] # "rateWrite"
        <3> SUFFICES ASSUME NEW s \in Requests, pc'[s] = "rateWrite" PROVE FALSE
              OBVIOUS
        <3>1. s # r /\ pc[s] = "rateWrite" /\ pc[r] = "rateWrite"
              BY <1>4 DEF RateWrite, HandlersOK
        <3> QED
              BY <3>1 DEF Exclusive, InFlight
    <2>2. CASE seen[r].current = TRUE
        <3>1. \A k \in RateKeysOf[r] : k \in RateKeys /\ seen[r].counts[k] = counts[k]
                                       /\ counts[k] + 1 <= Limit[k]
              BY <1>4, <2>2 DEF RateWrite, Counted
        <3> QED
              BY <1>4, <2>1, <2>2, <3>1 DEF RateWrite, Recorded, Counted, StoresOK
    <2>3. CASE seen[r].current = FALSE
          BY <1>4, <2>1, <2>3 DEF RateWrite, Recorded, Counted, StoresOK
    <2> QED
          BY <2>2, <2>3 DEF HandlersOK
<1>5. ASSUME NEW r \in Requests, RateWriteFails(r) PROVE Counted'
    <2>1. \A s \in Requests : pc'[s] # "rateWrite"
        <3> SUFFICES ASSUME NEW s \in Requests, pc'[s] = "rateWrite" PROVE FALSE
              OBVIOUS
        <3>1. s # r /\ pc[s] = "rateWrite" /\ pc[r] = "rateWrite"
              BY <1>5 DEF RateWriteFails, Respond, HandlersOK
        <3> QED
              BY <3>1 DEF Exclusive, InFlight
    <2>2. CASE seen[r].current = TRUE
        <3>1. \A k \in RateKeysOf[r] : k \in RateKeys /\ seen[r].counts[k] = counts[k]
                                       /\ counts[k] + 1 <= Limit[k]
              BY <1>5, <2>2 DEF RateWriteFails, Counted
        <3> QED
              BY <1>5, <2>1, <2>2, <3>1 DEF RateWriteFails, Recorded, Counted, StoresOK
    <2>3. CASE seen[r].current = FALSE
          BY <1>5, <2>1, <2>3 DEF RateWriteFails, Recorded, Counted, StoresOK
    <2> QED
          BY <2>2, <2>3 DEF HandlersOK
<1>6. ASSUME NEW r \in Requests, NEW key \in RecordKeys, ReadRecord(r, key) PROVE Counted'
      BY <1>6 DEF ReadRecord, Counted, HandlersOK, StoresOK, stores, handlers
<1>7. ASSUME NEW r \in Requests, NEW key \in RecordKeys, PutRecord(r, key) PROVE Counted'
      BY <1>7 DEF PutRecord, Counted, HandlersOK, StoresOK, stores, handlers
<1>8. ASSUME NEW r \in Requests, Decide(r) PROVE Counted'
      BY <1>8, RespondCounted, GoToCounted DEF Decide, stores
<1>9. ASSUME NEW r \in Requests, CheckNullifier(r) PROVE Counted'
      BY <1>9, RespondCounted, GoToCounted DEF CheckNullifier, stores
<1>10. ASSUME NEW r \in Requests, EstimateGas(r) PROVE Counted'
    <2>1. CASE Nullifier(r) \in spent
          BY <1>10, <2>1, RespondCounted DEF EstimateGas, stores
    <2>2. CASE Nullifier(r) \notin spent
        <3>1. /\ pc' = [pc EXCEPT ![r] = "pending"]
              /\ UNCHANGED <<seen, counts, admitted>>
              BY <1>10, <2>2 DEF EstimateGas, stores
        <3> QED
              BY <3>1 DEF Counted, HandlersOK
    <2> QED
          BY <2>1, <2>2
<1>11. ASSUME NEW r \in Requests, Send(r) PROVE Counted'
      BY <1>11 DEF Send, Counted, HandlersOK, StoresOK, stores, handlers
<1>12. ASSUME NEW r \in Requests, Answer(r) PROVE Counted'
      BY <1>12, RespondCounted, GoToCounted DEF Answer, stores
<1>13. ASSUME NEW r \in Requests, SendFails(r) PROVE Counted'
      BY <1>13, RespondCounted, GoToCounted DEF SendFails, stores
<1>14. ASSUME NEW r \in Requests, Fail(r) PROVE Counted'
      BY <1>14, RespondCounted, GoToCounted DEF Fail, stores
<1>15. ASSUME NEW r \in Requests, NEW key \in RecordKeys, PutFails(r, key) PROVE Counted'
      BY <1>15, RespondCounted, GoToCounted DEF PutFails, stores
<1>16. ASSUME Crash PROVE Counted'
      BY <1>16 DEF Crash, Counted, HandlersOK, StoresOK, stores, handlers
<1>17. ASSUME NextWindow PROVE Counted'
      BY <1>17 DEF NextWindow, Counted, HandlersOK, StoresOK, stores, handlers
<1>18. ASSUME NEW n \in Nullifiers, LapseNullifier(n) PROVE Counted'
      BY <1>18 DEF LapseNullifier, Counted, HandlersOK, StoresOK, stores, handlers
<1>19. ASSUME NEW n \in Nullifiers, SpentElsewhere(n) PROVE Counted'
      BY <1>19 DEF SpentElsewhere, Counted, HandlersOK, StoresOK, stores, handlers
<1>20. ASSUME NEW c \in Calldatas, LapseCalldata(c) PROVE Counted'
      BY <1>20 DEF LapseCalldata, Counted, HandlersOK, StoresOK, stores, handlers
<1>21. ASSUME NEW i \in DOMAIN txs, Execute(i) PROVE Counted'
      BY <1>21 DEF Execute, Counted, HandlersOK, StoresOK, stores, handlers
<1>22. ASSUME NEW i \in DOMAIN txs, Drop(i) PROVE Counted'
      BY <1>22 DEF Drop, Counted, HandlersOK, StoresOK, stores, handlers
<1>23. CASE UNCHANGED vars
      BY <1>23 DEF vars, stores, chain, handlers, Counted
<1>24. ASSUME NEW r \in Requests, NEW key \in RecordKeys, StaleRead(r, key) PROVE Counted'
      BY <1>24 DEF StaleRead, Counted, stores
<1> QED
      BY <1>1, <1>2, <1>3, <1>4, <1>5, <1>6, <1>7, <1>8, <1>9, <1>10, <1>11, <1>12, <1>13,
         <1>14, <1>15, <1>16, <1>17, <1>18, <1>19, <1>20, <1>21, <1>22, <1>23, <1>24 DEF Next,
         Handle, HandlerFault

(* Steps that submit nothing and leave the nullifier records alone. *)
LEMMA RespondOnce ==
    ASSUME HandlersOK, Cleared, Guarded, NEW r \in Requests, NEW kind, NEW tx,
           Respond(r, kind, tx), UNCHANGED <<txs, nullifierRecord>>
    PROVE  Cleared' /\ Guarded'
BY DEF Cleared, Guarded, FoundNone, TxNullifier, Nullifier, HandlersOK, Respond

(* The same for one that moves on, cleared where it must be. *)
LEMMA GoToOnce ==
    ASSUME HandlersOK, Cleared, Guarded, NEW r \in Requests, NEW label,
           label \in {"rateRead", "check", "estimate"}, label = "rateRead" \/ FoundNone(r),
           GoTo(r, label), UNCHANGED <<txs, nullifierRecord>>
    PROVE  Cleared' /\ Guarded'
BY DEF Cleared, Guarded, FoundNone, TxNullifier, Nullifier, HandlersOK, GoTo

(* The chain changes the fate of a transaction and nothing else of it. *)
LEMMA FateOnly ==
    ASSUME TxsOK, NEW i \in DOMAIN txs, NEW f, txs' = [txs EXCEPT ![i].fate = f]
    PROVE  /\ DOMAIN txs' = DOMAIN txs
           /\ \A j \in DOMAIN txs : txs'[j].live = txs[j].live /\ txs'[j].calldata = txs[j].calldata
<1>1. \A j \in DOMAIN txs : txs[j] \in Txs
      BY DEF TxsOK
<1> QED
      BY <1>1 DEF Txs

(* Putting a record never removes one. *)
LEMMA PutKeeps ==
    ASSUME HandlersOK, StoresOK, NEW r \in Requests, NEW key \in RecordKeys, Put(r, key)
    PROVE  /\ \A n \in Nullifiers : nullifierRecord[n] # NoRecord => nullifierRecord'[n] # NoRecord
           /\ key = "nullifier" => nullifierRecord'[Nullifier(r)] # NoRecord
<1>1. RecordOf(r) # NoRecord
      BY RecordOfType, RelayerAssumption DEF Records
<1>2. Nullifier(r) \in Nullifiers
      BY RelayerAssumption DEF Nullifier
<1> QED
      BY <1>1, <1>2 DEF Put, StoresOK

(* A transaction spends a nullifier. *)
LEMMA TxNullifierType ==
    ASSUME TxsOK, NEW i \in DOMAIN txs
    PROVE  TxNullifier(i) \in Nullifiers
<1>1. txs[i] \in Txs
      BY DEF TxsOK
<1> QED
      BY <1>1, RelayerAssumption DEF Txs, TxNullifier

(* What the node's acceptance adds. *)
LEMMA AcceptAdds ==
    ASSUME TxsOK, NEW r \in Requests, Accept(r)
    PROVE  /\ DOMAIN txs' = DOMAIN txs \cup {Len(txs) + 1}
           /\ Len(txs') = Len(txs) + 1
           /\ \A i \in DOMAIN txs : txs'[i] = txs[i]
           /\ txs'[Len(txs) + 1].live = fresh[r]
           /\ txs'[Len(txs) + 1].calldata = CalldataOf[r]
BY DEF TxsOK, Accept

(* When the record of n lapses, its transactions lose their liveness. *)
LapsesOnly(n) ==
    /\ DOMAIN txs' = DOMAIN txs
    /\ \A j \in DOMAIN txs :
          /\ txs'[j].calldata = txs[j].calldata
          /\ txs'[j].live = TRUE => txs[j].live = TRUE /\ TxNullifier(j) # n

(* Setting the liveness of a transaction sets just that. *)
LEMMA LiveField ==
    ASSUME NEW t \in Txs, NEW b
    PROVE  LET u == [t EXCEPT !.live = b] IN u.live = b /\ u.calldata = t.calldata
BY DEF Txs

(* LapseNullifier does just that to the transactions. *)
LEMMA LapseEffect ==
    ASSUME TxsOK, NEW n \in Nullifiers, LapseNullifier(n)
    PROVE  LapsesOnly(n)
<1>1. DOMAIN txs' = DOMAIN txs
      BY DEF LapseNullifier
<1>2. ASSUME NEW j \in DOMAIN txs
      PROVE  /\ txs'[j].calldata = txs[j].calldata
             /\ txs'[j].live = (txs[j].live /\ NullifierOf[txs[j].calldata] # n)
    <2>1. txs'[j] = [txs[j] EXCEPT !.live = (txs[j].live /\ NullifierOf[txs[j].calldata] # n)]
          BY DEF LapseNullifier
    <2>2. txs[j] \in Txs
          BY DEF TxsOK
    <2> QED
          BY <2>1, <2>2, LiveField
<1> QED
      BY <1>1, <1>2, Zenon DEF LapsesOnly, TxNullifier

(* What a handler has read stays true while it is in flight. *)
LEMMA OnceStep ==
    ASSUME Queued, HandlersOK, StoresOK, TxsOK, Exclusive, Cleared, Guarded, [Next]_vars
    PROVE  Cleared' /\ Guarded'
<1> USE RelayerAssumption
<1>1. ASSUME NEW r \in Requests, Submit(r) PROVE Cleared' /\ Guarded'
      BY <1>1 DEF Submit, Cleared, Guarded, FoundNone, TxNullifier, Nullifier, HandlersOK,
         stores, handlers, chain
<1>2. ASSUME NEW r \in Requests, Begin(r) PROVE Cleared' /\ Guarded'
      BY <1>2, RespondOnce, GoToOnce DEF Begin, FoundNone, stores, chain
<1>3. ASSUME NEW r \in Requests, RateRead(r) PROVE Cleared' /\ Guarded'
    <2>1. CASE Exceeded(r)
          BY <1>3, <2>1, RespondOnce DEF RateRead, stores, chain
    <2>2. CASE ~Exceeded(r)
        <3>1. /\ pc' = [pc EXCEPT ![r] = "rateWrite"]
              /\ UNCHANGED <<got, todo, fresh, txs, nullifierRecord>>
              BY <1>3, <2>2 DEF RateRead, stores, chain
        <3> QED
              BY <3>1 DEF Cleared, Guarded, FoundNone, TxNullifier, Nullifier, HandlersOK
    <2> QED
          BY <2>1, <2>2
<1>4. ASSUME NEW r \in Requests, RateWrite(r) PROVE Cleared' /\ Guarded'
      BY <1>4 DEF RateWrite, Cleared, Guarded, FoundNone, TxNullifier, Nullifier,
         HandlersOK, RecordKeys, chain
<1>5. ASSUME NEW r \in Requests, RateWriteFails(r) PROVE Cleared' /\ Guarded'
      BY <1>5, RespondOnce, GoToOnce DEF RateWriteFails, FoundNone, stores, chain
<1>6. ASSUME NEW r \in Requests, NEW key \in RecordKeys, ReadRecord(r, key) PROVE Cleared' /\ Guarded'
    <2>1. CASE key = "nullifier"
        <3>1. /\ pc[r] = "prepare"
              /\ got' = [got EXCEPT ![r]["nullifier"] = nullifierRecord[Nullifier(r)]]
              /\ todo' = [todo EXCEPT ![r] = @ \ {"nullifier"}]
              /\ UNCHANGED <<pc, fresh, txs, nullifierRecord>>
              BY <1>6, <2>1 DEF ReadRecord, Stored, stores, chain
        <3>2. Guarded'
              BY <3>1 DEF Guarded, TxNullifier, Nullifier, HandlersOK
        <3>3. ASSUME NEW s \in Requests, FoundNone(s)', fresh[s] = TRUE, NEW i \in DOMAIN txs,
                     txs[i].live = TRUE, TxNullifier(i) = Nullifier(s)
              PROVE  FALSE
            <4>1. CASE s = r
                <5>1. got'[r]["nullifier"] = NoRecord
                      BY <3>1, <3>3, <4>1 DEF FoundNone, HandlersOK
                <5>2. nullifierRecord[Nullifier(r)] = NoRecord
                      BY <3>1, <5>1 DEF HandlersOK, RecordKeys
                <5> QED
                      BY <3>3, <4>1, <5>2 DEF Guarded
            <4>2. CASE s # r
                  BY <3>1, <3>3, <4>2 DEF Cleared, FoundNone, HandlersOK
            <4> QED
                  BY <4>1, <4>2
        <3> QED
              BY <3>1, <3>2, <3>3 DEF Cleared, TxNullifier, Nullifier
    <2>2. CASE key = "calldata"
          BY <1>6, <2>2 DEF ReadRecord, Cleared, Guarded, FoundNone, TxNullifier, Nullifier,
             HandlersOK, RecordKeys, stores, chain
    <2> QED
          BY <2>1, <2>2 DEF RecordKeys
<1>7. ASSUME NEW r \in Requests, NEW key \in RecordKeys, PutRecord(r, key) PROVE Cleared' /\ Guarded'
    <2>1. /\ pc[r] \in {"pending", "submitted"} /\ key \in todo[r]
          /\ todo' = [todo EXCEPT ![r] = @ \ {key}]
          /\ UNCHANGED <<pc, got, fresh, txs>>
          /\ Put(r, key)
          BY <1>7 DEF PutRecord, chain
    <2>2. Cleared'
          BY <2>1 DEF Cleared, FoundNone, TxNullifier, Nullifier, HandlersOK
    <2>3. \A i \in DOMAIN txs' : txs'[i].live = TRUE => nullifierRecord'[TxNullifier(i)'] # NoRecord
          BY <2>1, PutKeeps, TxNullifierType DEF Guarded, TxNullifier
    <2>4. ASSUME NEW s \in Requests, pc'[s] = "pending", "nullifier" \notin todo'[s], fresh'[s] = TRUE
          PROVE  nullifierRecord'[Nullifier(s)] # NoRecord
        <3>1. Nullifier(s) \in Nullifiers
              BY RelayerAssumption DEF Nullifier
        <3>2. CASE s = r /\ key = "nullifier"
              BY <2>1, <3>2, PutKeeps
        <3>3. CASE s # r \/ key # "nullifier"
            <4>1. "nullifier" \notin todo[s]
                  BY <2>1, <2>4, <3>3 DEF HandlersOK
            <4> QED
                  BY <2>1, <2>4, <3>1, <4>1, PutKeeps DEF Guarded
        <3> QED
              BY <3>2, <3>3
    <2> QED
          BY <2>2, <2>3, <2>4 DEF Guarded, TxNullifier, Nullifier
<1>8. ASSUME NEW r \in Requests, Decide(r) PROVE Cleared' /\ Guarded'
    <2>1. CASE Ready(r) /\ GoTo(r, "check")
          BY <1>8, <2>1, GoToOnce DEF Decide, Ready, FoundNone, RecordKeys, stores, chain
    <2>2. CASE ~(Ready(r) /\ GoTo(r, "check"))
          BY <1>8, <2>2, RespondOnce DEF Decide, stores, chain
    <2> QED
          BY <2>1, <2>2
<1>9. ASSUME NEW r \in Requests, CheckNullifier(r) PROVE Cleared' /\ Guarded'
      BY <1>9, RespondOnce, GoToOnce DEF CheckNullifier, FoundNone, stores, chain
<1>10. ASSUME NEW r \in Requests, EstimateGas(r) PROVE Cleared' /\ Guarded'
    <2>1. CASE Nullifier(r) \in spent
          BY <1>10, <2>1, RespondOnce DEF EstimateGas, stores, chain
    <2>2. CASE Nullifier(r) \notin spent
        <3>1. /\ pc[r] = "estimate"
              /\ pc' = [pc EXCEPT ![r] = "pending"]
              /\ todo' = [todo EXCEPT ![r] = RecordKeys]
              /\ UNCHANGED <<got, fresh, txs, nullifierRecord>>
              BY <1>10, <2>2 DEF EstimateGas, stores, chain
        <3> QED
              BY <3>1 DEF Cleared, Guarded, FoundNone, TxNullifier, Nullifier,
                 HandlersOK, RecordKeys
    <2> QED
          BY <2>1, <2>2
<1>11. ASSUME NEW r \in Requests, Send(r) PROVE Cleared' /\ Guarded'
    <2>1. Accept(r) /\ pc[r] = "pending" /\ todo[r] = {} /\ UNCHANGED nullifierRecord
          BY <1>11 DEF Send, stores
    <2>2. \A s \in Requests : ~FoundNone(s)' /\ pc'[s] # "pending"
        <3> SUFFICES ASSUME NEW s \in Requests PROVE ~FoundNone(s)' /\ pc'[s] # "pending"
              OBVIOUS
        <3>1. CASE s = r
              BY <1>11, <2>1, <3>1 DEF Send, FoundNone, HandlersOK
        <3>2. CASE s # r
            <4>1. pc[s] \in {"idle", "waiting"}
                  BY <2>1, <3>2 DEF Exclusive, InFlight
            <4> QED
                  BY <1>11, <2>1, <3>2, <4>1 DEF Send, FoundNone, HandlersOK
        <3> QED
              BY <3>1, <3>2
    <2> QED
          BY <2>1, <2>2, AcceptAdds DEF Cleared, Guarded, TxNullifier, Nullifier
<1>12. ASSUME NEW r \in Requests, Answer(r) PROVE Cleared' /\ Guarded'
      BY <1>12, RespondOnce, GoToOnce DEF Answer, FoundNone, stores, chain
<1>13. ASSUME NEW r \in Requests, SendFails(r) PROVE Cleared' /\ Guarded'
    <2>1. Respond(r, "error", 0) /\ UNCHANGED nullifierRecord
          BY <1>13 DEF SendFails, stores
    <2>2. CASE UNCHANGED txs
          BY <2>1, <2>2, RespondOnce
    <2>3. CASE Accept(r)
        <3>1. pc[r] = "pending" /\ todo[r] = {}
              BY <1>13 DEF SendFails
        <3>2. \A s \in Requests : ~FoundNone(s)' /\ pc'[s] # "pending"
            <4> SUFFICES ASSUME NEW s \in Requests PROVE ~FoundNone(s)' /\ pc'[s] # "pending"
                  OBVIOUS
            <4>1. CASE s = r
                  BY <2>1, <3>1, <4>1 DEF Respond, FoundNone, HandlersOK
            <4>2. CASE s # r
                <5>1. pc[s] \in {"idle", "waiting"}
                      BY <2>1, <3>1, <4>2 DEF Exclusive, InFlight
                <5> QED
                      BY <2>1, <3>1, <4>2, <5>1 DEF Respond, FoundNone, HandlersOK
            <4> QED
                  BY <4>1, <4>2
        <3> QED
              BY <2>1, <2>3, <3>1, <3>2, AcceptAdds DEF Cleared, Guarded, TxNullifier, Nullifier
    <2> QED
          BY <1>13, <2>2, <2>3 DEF SendFails
<1>14. ASSUME NEW r \in Requests, Fail(r) PROVE Cleared' /\ Guarded'
      BY <1>14, RespondOnce, GoToOnce DEF Fail, FoundNone, stores, chain
<1>15. ASSUME NEW r \in Requests, NEW key \in RecordKeys, PutFails(r, key) PROVE Cleared' /\ Guarded'
    <2>1. \A n \in Nullifiers : nullifierRecord[n] # NoRecord => nullifierRecord'[n] # NoRecord
          BY <1>15, PutKeeps DEF PutFails
    <2>2. Respond(r, "error", 0) /\ UNCHANGED txs
          BY <1>15 DEF PutFails, chain
    <2>3. \A s \in Requests : Nullifier(s) \in Nullifiers
          BY RelayerAssumption DEF Nullifier
    <2>4. Cleared'
          BY <2>2 DEF Respond, Cleared, FoundNone, TxNullifier, Nullifier, HandlersOK
    <2> QED
          BY <2>1, <2>2, <2>3, <2>4, TxNullifierType
          DEF Respond, Guarded, TxNullifier, Nullifier, HandlersOK
<1>16. ASSUME Crash PROVE Cleared' /\ Guarded'
      BY <1>16 DEF Crash, Cleared, Guarded, FoundNone, TxNullifier, Nullifier, HandlersOK,
         stores, handlers, chain
<1>17. ASSUME NextWindow PROVE Cleared' /\ Guarded'
      BY <1>17 DEF NextWindow, Cleared, Guarded, FoundNone, TxNullifier, Nullifier,
         HandlersOK, stores, handlers, chain
<1>18. ASSUME NEW n \in Nullifiers, LapseNullifier(n) PROVE Cleared' /\ Guarded'
    <2>1. LapsesOnly(n)
          BY <1>18, LapseEffect
    <2>2. \A r \in Requests : fresh'[r] = TRUE =>
             fresh[r] = TRUE /\ (pc[r] = "pending" => Nullifier(r) # n)
          BY <1>18, Zenon DEF LapseNullifier
    <2>3. /\ nullifierRecord' = [nullifierRecord EXCEPT ![n] = NoRecord]
          /\ UNCHANGED <<pc, got, todo>>
          BY <1>18 DEF LapseNullifier
    <2>4. \A r \in Requests : Nullifier(r)' = Nullifier(r) /\ Nullifier(r) \in Nullifiers
          BY RelayerAssumption DEF Nullifier
    <2> QED
          BY <2>1, <2>2, <2>3, <2>4, TxNullifierType
          DEF LapsesOnly, Cleared, Guarded, FoundNone, TxNullifier, StoresOK
<1>19. ASSUME NEW n \in Nullifiers, SpentElsewhere(n) PROVE Cleared' /\ Guarded'
      BY <1>19 DEF SpentElsewhere, Cleared, Guarded, FoundNone, TxNullifier, Nullifier,
         HandlersOK, stores, handlers, chain
<1>20. ASSUME NEW c \in Calldatas, LapseCalldata(c) PROVE Cleared' /\ Guarded'
      BY <1>20 DEF LapseCalldata, Cleared, Guarded, FoundNone, TxNullifier, Nullifier,
         HandlersOK, stores, handlers, chain
<1>21. ASSUME NEW i \in DOMAIN txs, Execute(i) PROVE Cleared' /\ Guarded'
      BY <1>21, FateOnly DEF Execute, Cleared, Guarded, FoundNone, TxNullifier, Nullifier,
         stores, handlers
<1>22. ASSUME NEW i \in DOMAIN txs, Drop(i) PROVE Cleared' /\ Guarded'
      BY <1>22, FateOnly DEF Drop, Cleared, Guarded, FoundNone, TxNullifier, Nullifier,
         stores, handlers
<1>23. CASE UNCHANGED vars
      BY <1>23 DEF vars, stores, chain, handlers, Cleared, Guarded, FoundNone,
         TxNullifier, Nullifier
<1>24. ASSUME NEW r \in Requests, NEW key \in RecordKeys, StaleRead(r, key) PROVE Cleared' /\ Guarded'
    <2>1. /\ pc[r] = "prepare"
          /\ UNCHANGED <<pc, txs, nullifierRecord>>
          /\ \A s \in Requests : s # r => got'[s] = got[s] /\ todo'[s] = todo[s] /\ fresh'[s] = fresh[s]
          BY <1>24 DEF StaleRead, stores, chain, HandlersOK
    <2>2. key = "nullifier" => fresh'[r] = FALSE
          BY <1>24 DEF StaleRead, HandlersOK
    <2>3. key = "calldata" =>
             /\ fresh'[r] = TRUE => fresh[r] = TRUE
             /\ got'[r]["nullifier"] = got[r]["nullifier"]
             /\ "nullifier" \in todo[r] => "nullifier" \in todo'[r]
          BY <1>24 DEF StaleRead, HandlersOK, RecordKeys
    <2> QED
          BY <2>1, <2>2, <2>3 DEF Cleared, Guarded, FoundNone, TxNullifier, Nullifier, RecordKeys
<1> QED
      BY <1>1, <1>2, <1>3, <1>4, <1>5, <1>6, <1>7, <1>8, <1>9, <1>10, <1>11, <1>12, <1>13,
         <1>14, <1>15, <1>16, <1>17, <1>18, <1>19, <1>20, <1>21, <1>22, <1>23, <1>24 DEF Next,
         Handle, HandlerFault

(* A handler submits only where it was cleared to. *)
LEMMA UniqueStep ==
    ASSUME Queued, HandlersOK, TxsOK, Cleared, Unique, [Next]_vars
    PROVE  Unique'
<1> USE RelayerAssumption
<1>1. ASSUME NEW r \in Requests, Submit(r) PROVE Unique'
      BY <1>1 DEF Submit, Unique, TxNullifier, chain
<1>2. ASSUME NEW r \in Requests, Begin(r) PROVE Unique'
      BY <1>2 DEF Begin, Unique, TxNullifier, chain
<1>3. ASSUME NEW r \in Requests, RateRead(r) PROVE Unique'
      BY <1>3 DEF RateRead, Unique, TxNullifier, chain
<1>4. ASSUME NEW r \in Requests, RateWrite(r) PROVE Unique'
      BY <1>4 DEF RateWrite, Unique, TxNullifier, chain
<1>5. ASSUME NEW r \in Requests, RateWriteFails(r) PROVE Unique'
      BY <1>5 DEF RateWriteFails, Unique, TxNullifier, chain
<1>6. ASSUME NEW r \in Requests, NEW key \in RecordKeys, ReadRecord(r, key) PROVE Unique'
      BY <1>6 DEF ReadRecord, Unique, TxNullifier, chain
<1>7. ASSUME NEW r \in Requests, NEW key \in RecordKeys, PutRecord(r, key) PROVE Unique'
      BY <1>7 DEF PutRecord, Unique, TxNullifier, chain
<1>8. ASSUME NEW r \in Requests, Decide(r) PROVE Unique'
      BY <1>8 DEF Decide, Unique, TxNullifier, chain
<1>9. ASSUME NEW r \in Requests, CheckNullifier(r) PROVE Unique'
      BY <1>9 DEF CheckNullifier, Unique, TxNullifier, chain
<1>10. ASSUME NEW r \in Requests, EstimateGas(r) PROVE Unique'
      BY <1>10 DEF EstimateGas, Unique, TxNullifier, chain
<1>11. ASSUME NEW r \in Requests, Send(r) PROVE Unique'
      BY <1>11, AcceptAdds DEF Send, Unique, Cleared, FoundNone, TxNullifier, Nullifier
<1>12. ASSUME NEW r \in Requests, Answer(r) PROVE Unique'
      BY <1>12 DEF Answer, Unique, TxNullifier, chain
<1>13. ASSUME NEW r \in Requests, SendFails(r) PROVE Unique'
      BY <1>13, AcceptAdds DEF SendFails, Unique, Cleared, FoundNone, TxNullifier, Nullifier
<1>14. ASSUME NEW r \in Requests, Fail(r) PROVE Unique'
      BY <1>14 DEF Fail, Unique, TxNullifier, chain
<1>15. ASSUME NEW r \in Requests, NEW key \in RecordKeys, PutFails(r, key) PROVE Unique'
      BY <1>15 DEF PutFails, Unique, TxNullifier, chain
<1>16. ASSUME Crash PROVE Unique'
      BY <1>16 DEF Crash, Unique, TxNullifier, chain
<1>17. ASSUME NextWindow PROVE Unique'
      BY <1>17 DEF NextWindow, Unique, TxNullifier, chain
<1>18. ASSUME NEW n \in Nullifiers, LapseNullifier(n) PROVE Unique'
      BY <1>18, LapseEffect DEF LapsesOnly, Unique, TxNullifier
<1>19. ASSUME NEW n \in Nullifiers, SpentElsewhere(n) PROVE Unique'
      BY <1>19 DEF SpentElsewhere, Unique, TxNullifier, chain
<1>20. ASSUME NEW c \in Calldatas, LapseCalldata(c) PROVE Unique'
      BY <1>20 DEF LapseCalldata, Unique, TxNullifier, chain
<1>21. ASSUME NEW i \in DOMAIN txs, Execute(i) PROVE Unique'
      BY <1>21, FateOnly DEF Execute, Unique, TxNullifier
<1>22. ASSUME NEW i \in DOMAIN txs, Drop(i) PROVE Unique'
      BY <1>22, FateOnly DEF Drop, Unique, TxNullifier
<1>23. CASE UNCHANGED vars
      BY <1>23 DEF vars, stores, chain, handlers, Unique, TxNullifier
<1>24. ASSUME NEW r \in Requests, NEW key \in RecordKeys, StaleRead(r, key) PROVE Unique'
      BY <1>24 DEF StaleRead, Unique, TxNullifier, chain
<1> QED
      BY <1>1, <1>2, <1>3, <1>4, <1>5, <1>6, <1>7, <1>8, <1>9, <1>10, <1>11, <1>12, <1>13,
         <1>14, <1>15, <1>16, <1>17, <1>18, <1>19, <1>20, <1>21, <1>22, <1>23, <1>24 DEF Next,
         Handle, HandlerFault

-----------------------------------------------------------------------------
(* A transaction stays known under its number, with its calldata. *)
Submitted(t, c) == t \in DOMAIN txs /\ txs[t].calldata = c

TxsKept ==
    \A t \in DOMAIN txs : t \in DOMAIN txs' /\ txs'[t].calldata = txs[t].calldata

(* No step forgets a transaction. *)
LEMMA TxsGrow ==
    ASSUME HandlersOK, TxsOK, [Next]_vars
    PROVE  TxsKept
<1> USE RelayerAssumption
<1>1. ASSUME NEW r \in Requests, Submit(r) PROVE TxsKept
      BY <1>1 DEF TxsKept, Submit, chain
<1>2. ASSUME NEW r \in Requests, Begin(r) PROVE TxsKept
      BY <1>2 DEF TxsKept, Begin, chain
<1>3. ASSUME NEW r \in Requests, RateRead(r) PROVE TxsKept
      BY <1>3 DEF TxsKept, RateRead, chain
<1>4. ASSUME NEW r \in Requests, RateWrite(r) PROVE TxsKept
      BY <1>4 DEF TxsKept, RateWrite, chain
<1>5. ASSUME NEW r \in Requests, RateWriteFails(r) PROVE TxsKept
      BY <1>5 DEF TxsKept, RateWriteFails, chain
<1>6. ASSUME NEW r \in Requests, NEW key \in RecordKeys, ReadRecord(r, key) PROVE TxsKept
      BY <1>6 DEF TxsKept, ReadRecord, chain
<1>7. ASSUME NEW r \in Requests, NEW key \in RecordKeys, PutRecord(r, key) PROVE TxsKept
      BY <1>7 DEF TxsKept, PutRecord, chain
<1>8. ASSUME NEW r \in Requests, Decide(r) PROVE TxsKept
      BY <1>8 DEF TxsKept, Decide, chain
<1>9. ASSUME NEW r \in Requests, CheckNullifier(r) PROVE TxsKept
      BY <1>9 DEF TxsKept, CheckNullifier, chain
<1>10. ASSUME NEW r \in Requests, EstimateGas(r) PROVE TxsKept
      BY <1>10 DEF TxsKept, EstimateGas, chain
<1>11. ASSUME NEW r \in Requests, Send(r) PROVE TxsKept
      BY <1>11, AcceptAdds DEF TxsKept, Send
<1>12. ASSUME NEW r \in Requests, Answer(r) PROVE TxsKept
      BY <1>12 DEF TxsKept, Answer, chain
<1>13. ASSUME NEW r \in Requests, SendFails(r) PROVE TxsKept
      BY <1>13, AcceptAdds DEF TxsKept, SendFails
<1>14. ASSUME NEW r \in Requests, Fail(r) PROVE TxsKept
      BY <1>14 DEF TxsKept, Fail, chain
<1>15. ASSUME NEW r \in Requests, NEW key \in RecordKeys, PutFails(r, key) PROVE TxsKept
      BY <1>15 DEF TxsKept, PutFails, chain
<1>16. ASSUME Crash PROVE TxsKept
      BY <1>16 DEF TxsKept, Crash, chain
<1>17. ASSUME NextWindow PROVE TxsKept
      BY <1>17 DEF TxsKept, NextWindow, chain
<1>18. ASSUME NEW n \in Nullifiers, LapseNullifier(n) PROVE TxsKept
      BY <1>18, LapseEffect DEF TxsKept, LapsesOnly
<1>19. ASSUME NEW n \in Nullifiers, SpentElsewhere(n) PROVE TxsKept
      BY <1>19 DEF TxsKept, SpentElsewhere, chain
<1>20. ASSUME NEW c \in Calldatas, LapseCalldata(c) PROVE TxsKept
      BY <1>20 DEF TxsKept, LapseCalldata, chain
<1>21. ASSUME NEW i \in DOMAIN txs, Execute(i) PROVE TxsKept
      BY <1>21, FateOnly DEF TxsKept, Execute
<1>22. ASSUME NEW i \in DOMAIN txs, Drop(i) PROVE TxsKept
      BY <1>22, FateOnly DEF TxsKept, Drop
<1>23. CASE UNCHANGED vars
      BY <1>23 DEF TxsKept, vars, stores, chain, handlers, TxsOK
<1>24. ASSUME NEW r \in Requests, NEW key \in RecordKeys, StaleRead(r, key) PROVE TxsKept
      BY <1>24 DEF TxsKept, StaleRead, chain
<1> QED
      BY <1>1, <1>2, <1>3, <1>4, <1>5, <1>6, <1>7, <1>8, <1>9, <1>10, <1>11, <1>12, <1>13,
         <1>14, <1>15, <1>16, <1>17, <1>18, <1>19, <1>20, <1>21, <1>22, <1>23, <1>24 DEF Next,
         Handle, HandlerFault

(* What the stores and the handlers say of submissions is true. *)
TrueRecord(rec) == rec # NoRecord /\ rec.status = "submitted" => Submitted(rec.tx, rec.calldata)

TrueStores ==
    /\ \A n \in Nullifiers : TrueRecord(nullifierRecord[n])
    /\ \A c \in Calldatas : /\ TrueRecord(calldataRecord[c])
                            /\ calldataRecord[c] # NoRecord => calldataRecord[c].calldata = c

TrueHandlers ==
    \A r \in Requests :
        /\ TrueRecord(got[r]["nullifier"])
        /\ TrueRecord(got[r]["calldata"])
        /\ got[r]["calldata"] # NoRecord => got[r]["calldata"].calldata = CalldataOf[r]
        /\ pc[r] = "submitted" => Submitted(sent[r], CalldataOf[r])

TrueAnswers ==
    /\ DOMAIN response = Requests
    /\ \A r \in Requests : response[r].kind \in {"sent", "replay"} =>
          Submitted(response[r].tx, CalldataOf[r])

(* A true record stays true as transactions are added. *)
LEMMA RecordStaysTrue ==
    ASSUME TxsKept, NEW rec, TrueRecord(rec)
    PROVE  TrueRecord(rec)'
BY DEF TxsKept, TrueRecord, Submitted

(* The record a handler puts is true. *)
LEMMA RecordOfTrue ==
    ASSUME HandlersOK, TrueHandlers, NEW r \in Requests, pc[r] \in {"pending", "submitted"}
    PROVE  TrueRecord(RecordOf(r)) /\ RecordOf(r).calldata = CalldataOf[r]
BY DEF HandlersOK, TrueHandlers, TrueRecord, RecordOf

(* So the stores stay true when it is put. *)
LEMMA PutTrue ==
    ASSUME HandlersOK, StoresOK, TrueStores, TrueHandlers, UNCHANGED txs,
           NEW r \in Requests, NEW key \in RecordKeys, pc[r] \in {"pending", "submitted"}, Put(r, key)
    PROVE  TrueStores'
<1>1. TrueRecord(RecordOf(r)) /\ RecordOf(r).calldata = CalldataOf[r]
      BY RecordOfTrue
<1>2. \A n \in Nullifiers : nullifierRecord'[n] \in {nullifierRecord[n], RecordOf(r)}
      BY DEF Put, StoresOK
<1>3. \A c \in Calldatas : \/ calldataRecord'[c] = calldataRecord[c]
                           \/ c = CalldataOf[r] /\ calldataRecord'[c] = RecordOf(r)
    <2>1. CASE UNCHANGED calldataRecord
          BY <2>1
    <2>2. CASE calldataRecord' = [calldataRecord EXCEPT ![CalldataOf[r]] = RecordOf(r)]
          BY <2>2, RelayerAssumption DEF StoresOK
    <2> QED
          BY <2>1, <2>2 DEF Put
<1> QED
      BY <1>1, <1>2, <1>3 DEF TrueStores, TrueRecord, Submitted

(* A handler that ends with a true answer. *)
LEMMA RespondTrue ==
    ASSUME HandlersOK, TxsKept, TrueHandlers, TrueAnswers, NEW r \in Requests, NEW kind, NEW tx,
           Respond(r, kind, tx), kind \in {"sent", "replay"} => Submitted(tx, CalldataOf[r])
    PROVE  TrueHandlers' /\ TrueAnswers'
<1>1. TrueHandlers'
    <2> SUFFICES ASSUME NEW s \in Requests
                 PROVE  /\ TrueRecord(got[s]["nullifier"])'
                        /\ TrueRecord(got[s]["calldata"])'
                        /\ got'[s]["calldata"] # NoRecord => got'[s]["calldata"].calldata = CalldataOf[s]
                        /\ pc'[s] = "submitted" => Submitted(sent[s], CalldataOf[s])'
          BY DEF TrueHandlers
    <2>1. CASE s = r
          BY <2>1 DEF Respond, NothingGot, RecordKeys, HandlersOK, TrueRecord
    <2>2. CASE s # r
          BY <2>2 DEF Respond, HandlersOK, TrueHandlers, TrueRecord, Submitted, TxsKept
    <2> QED
          BY <2>1, <2>2
<1>2. TrueAnswers'
      BY DEF Respond, TrueAnswers, Submitted, TxsKept
<1> QED
      BY <1>1, <1>2

(* A step that leaves the stores alone. *)
LEMMA StoresStayTrue ==
    ASSUME StoresOK, TxsKept, TrueStores, UNCHANGED <<nullifierRecord, calldataRecord>>
    PROVE  TrueStores'
BY RecordStaysTrue DEF TrueStores, TrueRecord, Submitted, TxsKept

(* A step that reads and submits nothing. *)
LEMMA HandlersStayTrue ==
    ASSUME HandlersOK, TxsKept, TrueHandlers, UNCHANGED <<got, sent>>,
           \A r \in Requests : pc'[r] = "submitted" => pc[r] = "submitted"
    PROVE  TrueHandlers'
BY DEF TrueHandlers, TrueRecord, Submitted, TxsKept

(* A step that answers nothing. *)
LEMMA AnswersStayTrue ==
    ASSUME TxsKept, TrueAnswers, UNCHANGED response
    PROVE  TrueAnswers'
BY DEF TrueAnswers, Submitted, TxsKept

(* Only what was submitted is ever recorded as submitted. *)
LEMMA TrueStoresStep ==
    ASSUME HandlersOK, StoresOK, TxsKept, TrueStores, TrueHandlers, [Next]_vars
    PROVE  TrueStores'
<1> USE RelayerAssumption
<1>1. ASSUME NEW r \in Requests, Submit(r) PROVE TrueStores'
      BY <1>1, StoresStayTrue DEF Submit, stores
<1>2. ASSUME NEW r \in Requests, Begin(r) PROVE TrueStores'
      BY <1>2, StoresStayTrue DEF Begin, stores
<1>3. ASSUME NEW r \in Requests, RateRead(r) PROVE TrueStores'
      BY <1>3, StoresStayTrue DEF RateRead, stores
<1>4. ASSUME NEW r \in Requests, RateWrite(r) PROVE TrueStores'
      BY <1>4, StoresStayTrue DEF RateWrite, stores
<1>5. ASSUME NEW r \in Requests, RateWriteFails(r) PROVE TrueStores'
      BY <1>5, StoresStayTrue DEF RateWriteFails, stores
<1>6. ASSUME NEW r \in Requests, NEW key \in RecordKeys, ReadRecord(r, key) PROVE TrueStores'
      BY <1>6, StoresStayTrue DEF ReadRecord, stores
<1>7. ASSUME NEW r \in Requests, NEW key \in RecordKeys, PutRecord(r, key) PROVE TrueStores'
      BY <1>7, PutTrue DEF PutRecord, chain
<1>8. ASSUME NEW r \in Requests, Decide(r) PROVE TrueStores'
      BY <1>8, StoresStayTrue DEF Decide, stores
<1>9. ASSUME NEW r \in Requests, CheckNullifier(r) PROVE TrueStores'
      BY <1>9, StoresStayTrue DEF CheckNullifier, stores
<1>10. ASSUME NEW r \in Requests, EstimateGas(r) PROVE TrueStores'
      BY <1>10, StoresStayTrue DEF EstimateGas, stores
<1>11. ASSUME NEW r \in Requests, Send(r) PROVE TrueStores'
      BY <1>11, StoresStayTrue DEF Send, stores
<1>12. ASSUME NEW r \in Requests, Answer(r) PROVE TrueStores'
      BY <1>12, StoresStayTrue DEF Answer, stores
<1>13. ASSUME NEW r \in Requests, SendFails(r) PROVE TrueStores'
      BY <1>13, StoresStayTrue DEF SendFails, stores
<1>14. ASSUME NEW r \in Requests, Fail(r) PROVE TrueStores'
      BY <1>14, StoresStayTrue DEF Fail, stores
<1>15. ASSUME NEW r \in Requests, NEW key \in RecordKeys, PutFails(r, key) PROVE TrueStores'
      BY <1>15, PutTrue, StoresStayTrue DEF PutFails, chain
<1>16. ASSUME Crash PROVE TrueStores'
      BY <1>16, StoresStayTrue DEF Crash, stores
<1>17. ASSUME NextWindow PROVE TrueStores'
      BY <1>17, StoresStayTrue DEF NextWindow, stores
<1>18. ASSUME NEW n \in Nullifiers, LapseNullifier(n) PROVE TrueStores'
      BY <1>18 DEF LapseNullifier, TrueStores, TrueRecord, Submitted, TxsKept, StoresOK
<1>19. ASSUME NEW n \in Nullifiers, SpentElsewhere(n) PROVE TrueStores'
      BY <1>19, StoresStayTrue DEF SpentElsewhere, stores
<1>20. ASSUME NEW c \in Calldatas, LapseCalldata(c) PROVE TrueStores'
      BY <1>20 DEF LapseCalldata, TrueStores, TrueRecord, Submitted, TxsKept, StoresOK
<1>21. ASSUME NEW i \in DOMAIN txs, Execute(i) PROVE TrueStores'
      BY <1>21, StoresStayTrue DEF Execute, stores
<1>22. ASSUME NEW i \in DOMAIN txs, Drop(i) PROVE TrueStores'
      BY <1>22, StoresStayTrue DEF Drop, stores
<1>23. CASE UNCHANGED vars
      BY <1>23 DEF vars, stores, chain, handlers, TrueStores, TrueRecord, Submitted
<1>24. ASSUME NEW r \in Requests, NEW key \in RecordKeys, StaleRead(r, key) PROVE TrueStores'
      BY <1>24, StoresStayTrue DEF StaleRead, stores, chain
<1> QED
      BY <1>1, <1>2, <1>3, <1>4, <1>5, <1>6, <1>7, <1>8, <1>9, <1>10, <1>11, <1>12, <1>13,
         <1>14, <1>15, <1>16, <1>17, <1>18, <1>19, <1>20, <1>21, <1>22, <1>23, <1>24 DEF Next,
         Handle, HandlerFault

(* A positive answer rests on a true record of the same calldata. *)
LEMMA TrueHandlersStep ==
    ASSUME HandlersOK, StoresOK, TxsOK, TxsKept, TrueStores, TrueHandlers, TrueAnswers, [Next]_vars
    PROVE  TrueHandlers' /\ TrueAnswers'
<1> USE RelayerAssumption
<1>1. ASSUME NEW r \in Requests, Submit(r) PROVE TrueHandlers' /\ TrueAnswers'
    <2>1. TrueHandlers'
          BY <1>1, HandlersStayTrue DEF Submit, HandlersOK
    <2> QED
          BY <1>1, <2>1 DEF Submit, chain, TrueAnswers, Submitted
<1>2. ASSUME NEW r \in Requests, Begin(r) PROVE TrueHandlers' /\ TrueAnswers'
      BY <1>2, HandlersStayTrue, AnswersStayTrue DEF Begin, GoTo, HandlersOK
<1>3. ASSUME NEW r \in Requests, RateRead(r) PROVE TrueHandlers' /\ TrueAnswers'
    <2>1. CASE Respond(r, "limited", 0)
          BY <2>1, RespondTrue
    <2>2. CASE ~Respond(r, "limited", 0)
          BY <1>3, <2>2, HandlersStayTrue, AnswersStayTrue DEF RateRead, HandlersOK
    <2> QED
          BY <2>1, <2>2
<1>4. ASSUME NEW r \in Requests, RateWrite(r) PROVE TrueHandlers' /\ TrueAnswers'
      BY <1>4, HandlersStayTrue, AnswersStayTrue DEF RateWrite, handlers, HandlersOK
<1>5. ASSUME NEW r \in Requests, RateWriteFails(r) PROVE TrueHandlers' /\ TrueAnswers'
      BY <1>5, RespondTrue DEF RateWriteFails
<1>6. ASSUME NEW r \in Requests, NEW key \in RecordKeys, ReadRecord(r, key) PROVE TrueHandlers' /\ TrueAnswers'
    <2>1. /\ got' = [got EXCEPT ![r][key] = Stored(r, key)]
          /\ UNCHANGED <<pc, sent, response, txs>>
          BY <1>6 DEF ReadRecord, chain
    <2>2. /\ TrueRecord(Stored(r, key))
          /\ key = "calldata" /\ Stored(r, key) # NoRecord => Stored(r, key).calldata = CalldataOf[r]
          BY RelayerAssumption DEF Stored, TrueStores, Nullifier
    <2>3. TrueHandlers'
          BY <2>1, <2>2 DEF TrueHandlers, TrueRecord, Submitted, HandlersOK, RecordKeys
    <2> QED
          BY <2>1, <2>3, AnswersStayTrue
<1>7. ASSUME NEW r \in Requests, NEW key \in RecordKeys, PutRecord(r, key) PROVE TrueHandlers' /\ TrueAnswers'
      BY <1>7, HandlersStayTrue, AnswersStayTrue DEF PutRecord, handlers, HandlersOK
<1>8. ASSUME NEW r \in Requests, Decide(r) PROVE TrueHandlers' /\ TrueAnswers'
    <2>1. CASE GoTo(r, "check")
          BY <2>1, HandlersStayTrue, AnswersStayTrue DEF GoTo, HandlersOK
    <2>2. CASE Respond(r, "conflict", 0) \/ Respond(r, "pending", 0)
          BY <2>2, RespondTrue
    <2>3. CASE /\ ~Ready(r) /\ ~Conflict(r) /\ Decisive(r).status = "submitted"
               /\ Respond(r, "replay", Decisive(r).tx)
        <3>1. Decisive(r) # NoRecord /\ Decisive(r).calldata = CalldataOf[r]
              BY <2>3 DEF Ready, Conflict, SameCalldata, Decisive, TrueHandlers, RecordKeys
        <3>2. Submitted(Decisive(r).tx, CalldataOf[r])
              BY <2>3, <3>1 DEF Decisive, TrueHandlers, TrueRecord
        <3> QED
              BY <2>3, <3>2, RespondTrue
    <2> QED
          BY <1>8, <2>1, <2>2, <2>3 DEF Decide
<1>9. ASSUME NEW r \in Requests, CheckNullifier(r) PROVE TrueHandlers' /\ TrueAnswers'
    <2>1. CASE Respond(r, "error", 0)
          BY <2>1, RespondTrue
    <2>2. CASE GoTo(r, "estimate")
          BY <2>2, HandlersStayTrue, AnswersStayTrue DEF GoTo, HandlersOK
    <2> QED
          BY <1>9, <2>1, <2>2 DEF CheckNullifier
<1>10. ASSUME NEW r \in Requests, EstimateGas(r) PROVE TrueHandlers' /\ TrueAnswers'
    <2>1. CASE Respond(r, "error", 0)
          BY <2>1, RespondTrue
    <2>2. CASE ~Respond(r, "error", 0)
          BY <1>10, <2>2, HandlersStayTrue, AnswersStayTrue DEF EstimateGas, HandlersOK
    <2> QED
          BY <2>1, <2>2
<1>11. ASSUME NEW r \in Requests, Send(r) PROVE TrueHandlers' /\ TrueAnswers'
    <2>1. /\ pc' = [pc EXCEPT ![r] = "submitted"]
          /\ sent' = [sent EXCEPT ![r] = Len(txs')]
          /\ UNCHANGED <<got, response>>
          /\ Accept(r)
          BY <1>11 DEF Send
    <2>2. Len(txs') \in DOMAIN txs' /\ txs'[Len(txs')].calldata = CalldataOf[r]
          BY <2>1, AcceptAdds
    <2>3. TrueHandlers'
          BY <2>1, <2>2, ZenonT(40) DEF TrueHandlers, TrueRecord, Submitted, TxsKept, HandlersOK
    <2> QED
          BY <2>1, <2>3, AnswersStayTrue
<1>12. ASSUME NEW r \in Requests, Answer(r) PROVE TrueHandlers' /\ TrueAnswers'
      BY <1>12, RespondTrue DEF Answer, TrueHandlers
<1>13. ASSUME NEW r \in Requests, SendFails(r) PROVE TrueHandlers' /\ TrueAnswers'
      BY <1>13, RespondTrue DEF SendFails
<1>14. ASSUME NEW r \in Requests, Fail(r) PROVE TrueHandlers' /\ TrueAnswers'
      BY <1>14, RespondTrue DEF Fail
<1>15. ASSUME NEW r \in Requests, NEW key \in RecordKeys, PutFails(r, key) PROVE TrueHandlers' /\ TrueAnswers'
      BY <1>15, RespondTrue DEF PutFails
<1>16. ASSUME Crash PROVE TrueHandlers' /\ TrueAnswers'
      BY <1>16, AnswersStayTrue DEF Crash, NothingGot, RecordKeys, TrueHandlers, TrueRecord
<1>17. ASSUME NextWindow PROVE TrueHandlers' /\ TrueAnswers'
      BY <1>17, HandlersStayTrue, AnswersStayTrue DEF NextWindow, handlers, HandlersOK
<1>18. ASSUME NEW n \in Nullifiers, LapseNullifier(n) PROVE TrueHandlers' /\ TrueAnswers'
      BY <1>18, HandlersStayTrue, AnswersStayTrue DEF LapseNullifier, handlers, HandlersOK
<1>19. ASSUME NEW n \in Nullifiers, SpentElsewhere(n) PROVE TrueHandlers' /\ TrueAnswers'
      BY <1>19, HandlersStayTrue, AnswersStayTrue DEF SpentElsewhere, handlers, HandlersOK
<1>20. ASSUME NEW c \in Calldatas, LapseCalldata(c) PROVE TrueHandlers' /\ TrueAnswers'
      BY <1>20, HandlersStayTrue, AnswersStayTrue DEF LapseCalldata, handlers, HandlersOK
<1>21. ASSUME NEW i \in DOMAIN txs, Execute(i) PROVE TrueHandlers' /\ TrueAnswers'
      BY <1>21, HandlersStayTrue, AnswersStayTrue DEF Execute, handlers, HandlersOK
<1>22. ASSUME NEW i \in DOMAIN txs, Drop(i) PROVE TrueHandlers' /\ TrueAnswers'
      BY <1>22, HandlersStayTrue, AnswersStayTrue DEF Drop, handlers, HandlersOK
<1>23. CASE UNCHANGED vars
      BY <1>23 DEF vars, stores, chain, handlers, TrueHandlers, TrueAnswers, TrueRecord, Submitted
<1>24. ASSUME NEW r \in Requests, NEW key \in RecordKeys, StaleRead(r, key) PROVE TrueHandlers' /\ TrueAnswers'
    <2>1. /\ got' = [got EXCEPT ![r][key] = NoRecord]
          /\ UNCHANGED <<pc, sent, response, txs>>
          BY <1>24 DEF StaleRead, chain
    <2>2. TrueHandlers'
          BY <2>1 DEF TrueHandlers, TrueRecord, Submitted, HandlersOK, RecordKeys
    <2> QED
          BY <2>1, <2>2, AnswersStayTrue
<1> QED
      BY <1>1, <1>2, <1>3, <1>4, <1>5, <1>6, <1>7, <1>8, <1>9, <1>10, <1>11, <1>12, <1>13,
         <1>14, <1>15, <1>16, <1>17, <1>18, <1>19, <1>20, <1>21, <1>22, <1>23, <1>24 DEF Next,
         Handle, HandlerFault

-----------------------------------------------------------------------------
(* The inductive invariants: what holds of any relayer, and what the nonce *)
(* queue adds.                                                             *)
StateOK == HandlersOK /\ StoresOK /\ TxsOK

AnswerInv == StateOK /\ TrueStores /\ TrueHandlers /\ TrueAnswers

QueueInv == StateOK /\ Exclusive /\ Counted /\ Cleared /\ Guarded /\ Unique

(* Nothing is in flight, stored or submitted at first. *)
LEMMA InitInvs ==
    ASSUME Init
    PROVE  AnswerInv /\ QueueInv
<1> USE RelayerAssumption DEF Init
<1>1. HandlersOK
      BY DEF HandlersOK, NothingSeen, NothingGot, Labels
<1>2. StoresOK /\ TxsOK
      BY DEF StoresOK, TxsOK
<1>3. TrueStores /\ TrueHandlers /\ TrueAnswers
      BY DEF TrueStores, TrueHandlers, TrueAnswers, TrueRecord, NothingGot, RecordKeys
<1>4. Exclusive /\ Cleared /\ Guarded /\ Unique
      BY DEF Exclusive, InFlight, Cleared, FoundNone, Guarded, Unique
<1>5. Counted
      BY DEF Counted
<1> QED
      BY <1>1, <1>2, <1>3, <1>4, <1>5 DEF AnswerInv, QueueInv, StateOK

(* With or without the nonce queue, a positive answer names a transaction  *)
(* the node accepted with that request's own calldata (handleRelayRequest, *)
(* relayIdempotencyResponse).                                              *)
THEOREM RelayerAnswersHonestly == Spec => []HonestAnswer
<1>1. Init => AnswerInv
      BY InitInvs
<1>2. AnswerInv /\ [Next]_vars => AnswerInv'
      BY HandlersStep, StoresStep, TxsStep, TxsGrow, TrueStoresStep, TrueHandlersStep
      DEF AnswerInv, StateOK
<1>3. AnswerInv => HonestAnswer
      BY DEF AnswerInv, TrueAnswers, Submitted, HonestAnswer
<1> QED
      BY <1>1, <1>2, <1>3, PTL DEF Spec

(* Behind the nonce queue a handler works alone, so that what it read      *)
(* still holds when it acts on it.                                         *)
LEMMA QueueInvariant == ASSUME Queued PROVE Spec => []QueueInv
<1>1. Init => QueueInv
      BY InitInvs
<1>2. QueueInv /\ [Next]_vars => QueueInv'
      BY HandlersStep, StoresStep, TxsStep, ExclusiveStep, CountedStep, OnceStep, UniqueStep
      DEF QueueInv, StateOK
<1> QED
      BY <1>1, <1>2, PTL DEF Spec

(* Behind the nonce queue the relayer submits a nullifier's withdrawal at  *)
(* most once while its idempotency record lasts (prepareRelayIdempotency,  *)
(* recordRelayPending), through any number of faults and repetitions.      *)
THEOREM RelayerSubmitsOnce == Spec => []OneSubmissionPerRecord
<1>1. CASE Queued
    <2>1. QueueInv => OneSubmissionPerRecord
        <3> SUFFICES ASSUME Unique PROVE OneSubmissionPerRecord
              BY DEF QueueInv
        <3> QED
              BY Zenon DEF Unique, TxNullifier, OneSubmissionPerRecord
    <2> QED
          BY <1>1, <2>1, QueueInvariant, PTL
<1>2. CASE ~Queued
    <2>1. OneSubmissionPerRecord
          BY <1>2 DEF OneSubmissionPerRecord
    <2> QED
          BY <2>1, PTL
<1> QED
      BY <1>1, <1>2

(* Behind the nonce queue no rate-limit counter lets more requests through *)
(* in a window than its limit (checkAndRecordRelayRateLimit).              *)
THEOREM RelayerRateBound == Spec => []RateBound
<1>1. CASE Queued
    <2>1. QueueInv => RateBound
          BY RelayerAssumption DEF QueueInv, StateOK, StoresOK, Counted, RateBound
    <2> QED
          BY <1>1, <2>1, QueueInvariant, PTL
<1>2. CASE ~Queued
    <2>1. RateBound
          BY <1>2 DEF RateBound
    <2> QED
          BY <2>1, PTL
<1> QED
      BY <1>1, <1>2


-----------------------------------------------------------------------------

Mainnet == "megaeth-mainnet"
Runtimes == {Runtime(e) : e \in Envs}

Reading ==
    [at : {"chainId", "fee"}, queued : BOOLEAN, runtime : Runtimes,
     reads : [FeeFields -> Int], since : Nat]
Admitted ==
    [at : {"estimate", "policy", "send"}, queued : BOOLEAN, runtime : Runtimes, body : Bodies]

(* There is no mainnet runtime without the fee on chain and the signer. *)
Vetted(runtime) ==
    runtime.chain = Mainnet => runtime.onChainFee = TRUE /\ runtime.signer = "approved relayer"

(* What is pending was read as a, or was scheduled at time s or later. *)
ReadOrLater(a, s) ==
    pendingFeeBps # 0 =>
        pendingFeeActivationTime = a \/ pendingFeeActivationTime >= s + FEE_INCREASE_DELAY

(* No increase is due by time d, and d is not far away. *)
QuietUntil(d) ==
    /\ d <= timestamp + maxDeadlineSecondsFromNow
    /\ pendingFeeBps # 0 => pendingFeeActivationTime > d

FeeAtMost(f, d) == timestamp <= d => feeBps <= f

ReadInv(h) ==
    /\ h.at = "chainId" => h.reads = NothingRead
    /\ h.at = "fee" =>
          /\ h.since <= timestamp /\ timestamp <= h.since + MaxHandling
          /\ h.runtime.chain = Mainnet /\ h.reads["pendingFeeActivationTime"] # NotRead =>
                ReadOrLater(h.reads["pendingFeeActivationTime"], h.since)

ApprovedBody(body) ==
    body.to = "approved pool" /\ body.selector = "v1.2 bounded" /\ body.valueWei = 0

AdmittedInv(h) ==
    /\ h.body.chain = h.runtime.chain
    /\ h.body.chain = Mainnet =>
          /\ h.runtime.store = TRUE
          /\ ApprovedBody(h.body)
          /\ QuietUntil(h.body.deadline)
          /\ h.at # "estimate" => FeeAtMost(h.body.fee, h.body.deadline)
    /\ h.body.chain # Mainnet /\ h.at # "estimate" => INITIAL_FEE_BPS <= h.body.fee

HandlerInv ==
    \/ handler = Idle
    \/ handler \in Reading /\ Vetted(handler.runtime) /\ ReadInv(handler)
    \/ handler \in Admitted /\ Vetted(handler.runtime) /\ AdmittedInv(handler)

TxInv(tx) ==
    /\ tx.body \in Bodies
    /\ tx.chain = Mainnet =>
          /\ tx.signer = "approved relayer" /\ tx.recorded = TRUE
          /\ ApprovedBody(tx.body)
          /\ QuietUntil(tx.body.deadline)
          /\ FeeAtMost(tx.body.fee, tx.body.deadline)
    /\ tx.chain # Mainnet => INITIAL_FEE_BPS <= tx.body.fee

AdmissionInv ==
    /\ env \in Envs /\ queueEnv \in Envs
    /\ HandlerInv
    /\ \A tx \in sentTxs : TxInv(tx)

-----------------------------------------------------------------------------
(* The fee.                                                                *)

(* A governance call, a block or a reading keeps what a handler knows.     *)
LEMMA FeeStepKeeps ==
    ASSUME FeeInv, FeeGovernance \/ NextBlock \/ QuoteFee
    PROVE  /\ \A a \in Int, s \in Nat : s <= timestamp /\ ReadOrLater(a, s) => ReadOrLater(a, s)'
           /\ \A d \in Nat : QuietUntil(d) => QuietUntil(d)'
           /\ \A d \in Nat, f \in Nat : QuietUntil(d) /\ FeeAtMost(f, d) => FeeAtMost(f, d)'
           /\ timestamp' \in Nat /\ timestamp <= timestamp'
<1> USE FeeAssumption, AdmissionAssumption
        DEF FeeInv, FeeTypeOK, PendingIsIncrease, ReadOrLater, QuietUntil, FeeAtMost
<1>1. CASE \E newFeeBps \in FeeArguments : SetFeeBps(newFeeBps)
  <2> PICK newFeeBps \in FeeArguments : SetFeeBps(newFeeBps)
      BY <1>1
  <2>1. newFeeBps \in Nat /\ timestamp' = timestamp
      BY DEF SetFeeBps, FeeArguments
  <2>2. CASE newFeeBps <= feeBps
    <3>1. feeBps' = newFeeBps /\ pendingFeeBps' = 0
        BY <2>1, <2>2 DEF SetFeeBps, ClearPendingFee
    <3> QED BY <2>1, <2>2, <3>1
  <2>3. CASE newFeeBps > feeBps
    <3>1. feeBps' = feeBps /\ pendingFeeActivationTime' = timestamp + FEE_INCREASE_DELAY
        BY <2>1, <2>3 DEF SetFeeBps, ActivationTime
    <3> QED BY <2>1, <3>1
  <2> QED BY <2>1, <2>2, <2>3
<1>2. CASE ExecutePendingFeeBps
    BY <1>2 DEF ExecutePendingFeeBps, ClearPendingFee
<1>3. CASE CancelPendingFeeBps
    BY <1>3 DEF CancelPendingFeeBps, ClearPendingFee
<1>4. CASE NextBlock
    BY <1>4 DEF NextBlock, feeState
<1>5. CASE QuoteFee
    BY <1>5 DEF QuoteFee, feeState
<1> QED BY <1>1, <1>2, <1>3, <1>4, <1>5 DEF FeeGovernance

(* The fields of the fee state that a handler reads. *)
LEMMA PoolFeeFields ==
    ASSUME NEW network
    PROVE  /\ PoolFee(network).feeBps = IF network = Mainnet THEN feeBps ELSE INITIAL_FEE_BPS
           /\ network = Mainnet => PoolFee(network)["pendingFeeActivationTime"] = pendingFeeActivationTime
           /\ FeeInv => \A f \in FeeFields : PoolFee(network)[f] \in Int
BY FeeAssumption DEF PoolFee, StaticFee, Mainnet, FeeFields, FeeInv, FeeTypeOK

-----------------------------------------------------------------------------
(* The configuration.                                                      *)

(* Whatever variable is set or missing, a configuration that starts a      *)
(* handler on the mainnet reads the fee on chain and signs as approved.    *)
LEMMA StartVetted ==
    ASSUME NEW e \in Envs, BuildsRelayRuntime(e), SignerBound(e)
    PROVE  Runtime(e) \in Runtimes /\ Vetted(Runtime(e))
<1>1. Runtime(e).chain = Environment(e) /\ Runtime(e).signer = e.SIGNER
      /\ Runtime(e).onChainFee = WantsV12(e)
    BY DEF Runtime
<1>2. Environment(e) = Mainnet => e.SIGNER = "approved relayer"
    BY DEF SignerBound, Mainnet
<1>3. Environment(e) = Mainnet => WantsV12(e)
    BY DEF BuildsRelayRuntime, Mainnet
<1>4. Environment(e) = Mainnet => WantsV12(e) = TRUE
    BY <1>3 DEF WantsV12
<1>5. Runtime(e) \in Runtimes
    BY DEF Runtimes
<1> QED BY <1>1, <1>2, <1>4, <1>5 DEF Vetted

(* A new handler knows nothing yet. *)
LEMMA StartInv ==
    ASSUME NEW e \in Envs, StartHandler(e), timestamp \in Nat
    PROVE  HandlerInv'
<1>1. Runtime(e) \in Runtimes /\ Vetted(Runtime(e))
    BY StartVetted DEF StartHandler
<1>2. NothingRead \in [FeeFields -> Int]
    BY DEF NothingRead, NotRead
<1>3. handler' = [at |-> "chainId", queued |-> e = queueEnv, runtime |-> Runtime(e),
                  reads |-> NothingRead, since |-> timestamp]
    BY DEF StartHandler
<1>4. (e = queueEnv) \in BOOLEAN
    OBVIOUS
<1>5. handler' \in Reading
    BY <1>1, <1>2, <1>3, <1>4 DEF Reading
<1>6. handler'.at = "chainId" /\ handler'.reads = NothingRead /\ handler'.runtime = Runtime(e)
    BY <1>3
<1> QED BY <1>1, <1>5, <1>6 DEF HandlerInv, ReadInv, Vetted

-----------------------------------------------------------------------------
(* Invariance.                                                             *)

(* Nothing is read or submitted at the start. *)
LEMMA AdmissionInitInv == AdmissionInit => AdmissionInv
BY DEF AdmissionInit, AdmissionInv, HandlerInv
(* Deadlines and fees of requests are numbers. *)
LEMMA BodyTypes ==
    ASSUME NEW body \in Bodies
    PROVE  body.fee \in Nat /\ body.deadline \in Nat
<1>1. body.fee \in 0..MAX_FEE_BPS /\ body.deadline \in 0..(TimeBound + maxDeadlineSecondsFromNow)
    BY DEF Bodies
<1>2. MAX_FEE_BPS \in Nat /\ TimeBound + maxDeadlineSecondsFromNow \in Nat
    BY FeeAssumption, AdmissionAssumption
<1> QED BY <1>1, <1>2

(* The fee controller and the chain, while a handler waits. *)
LEMMA GovernanceInv ==
    ASSUME FeeInv, AdmissionInv, Governance
    PROVE  AdmissionInv'
<1> USE AdmissionAssumption
<1>1. FeeGovernance \/ NextBlock \/ QuoteFee
    BY DEF Governance
<1>2. UNCHANGED <<env, queueEnv, deploys, handler, sentTxs>>
    BY DEF Governance, relayVars
<1>3. /\ \A a \in Int, s \in Nat : s <= timestamp /\ ReadOrLater(a, s) => ReadOrLater(a, s)'
      /\ \A d \in Nat : QuietUntil(d) => QuietUntil(d)'
      /\ \A d \in Nat, f \in Nat : QuietUntil(d) /\ FeeAtMost(f, d) => FeeAtMost(f, d)'
      /\ timestamp' \in Nat /\ timestamp <= timestamp'
    BY <1>1, FeeStepKeeps
<1>4. ASSUME NEW tx \in sentTxs PROVE TxInv(tx)'
  <2>1. TxInv(tx) /\ tx.body.fee \in Nat /\ tx.body.deadline \in Nat
      BY BodyTypes DEF AdmissionInv, TxInv
  <2> QED BY <1>3, <2>1 DEF TxInv
<1>5. CASE handler \in Reading /\ Vetted(handler.runtime) /\ ReadInv(handler)
  <2>1. handler.since \in Nat /\ handler.reads["pendingFeeActivationTime"] \in Int
      BY <1>5 DEF Reading, FeeFields
  <2>2. handler.at = "fee" => timestamp' <= handler.since + MaxHandling
    <3>1. CASE timestamp' # timestamp
      <4>1. Timely /\ NextBlock
          BY <3>1 DEF Governance, FeeGovernance, SetFeeBps, ExecutePendingFeeBps,
                      CancelPendingFeeBps, QuoteFee
      <4>2. timestamp' = timestamp + 1 /\ timestamp \in Nat
          BY <4>1 DEF NextBlock, FeeInv, FeeTypeOK
      <4> QED BY <2>1, <4>1, <4>2 DEF Timely, HandlerAt
    <3>2. CASE timestamp' = timestamp
        BY <1>5, <3>2 DEF ReadInv
    <3> QED BY <3>1, <3>2
  <2>3. ReadInv(handler)'
      BY <1>2, <1>3, <1>5, <2>1, <2>2 DEF ReadInv, FeeInv, FeeTypeOK
  <2>4. HandlerInv'
      BY <1>2, <1>5, <2>3 DEF HandlerInv, Vetted
  <2> QED BY <1>2, <1>4, <2>4 DEF AdmissionInv
<1>6. CASE handler \in Admitted /\ Vetted(handler.runtime) /\ AdmittedInv(handler)
  <2>1. handler.body.fee \in Nat /\ handler.body.deadline \in Nat
      BY <1>6, BodyTypes DEF Admitted
  <2>2. AdmittedInv(handler)'
      BY <1>2, <1>3, <1>6, <2>1 DEF AdmittedInv
  <2>3. HandlerInv'
      BY <1>2, <1>6, <2>2 DEF HandlerInv, Vetted
  <2> QED BY <1>2, <1>4, <2>3 DEF AdmissionInv
<1>7. CASE handler = Idle
    BY <1>2, <1>4, <1>7 DEF AdmissionInv, HandlerInv
<1> QED BY <1>5, <1>6, <1>7 DEF AdmissionInv, HandlerInv

(* Steps that leave the fee and the submitted transactions alone. *)
LEMMA HandlerOnly ==
    ASSUME AdmissionInv, UNCHANGED <<feeVars, sentTxs>>, env' \in Envs, queueEnv' \in Envs, HandlerInv'
    PROVE  AdmissionInv'
<1>1. UNCHANGED <<feeBps, pendingFeeBps, pendingFeeActivationTime, timestamp, sentTxs>>
    BY DEF feeVars
<1>2. ASSUME NEW tx \in sentTxs PROVE TxInv(tx)'
    BY <1>1 DEF AdmissionInv, TxInv, QuietUntil, FeeAtMost
<1> QED BY <1>1, <1>2 DEF AdmissionInv

(* A handler that stays, or goes. *)
LEMMA HandlerStays ==
    ASSUME AdmissionInv, UNCHANGED feeVars, handler' = handler \/ handler' = Idle
    PROVE  HandlerInv'
<1>1. UNCHANGED <<feeBps, pendingFeeBps, pendingFeeActivationTime, timestamp>>
    BY DEF feeVars
<1>2. CASE handler' = handler
    BY <1>1, <1>2 DEF AdmissionInv, HandlerInv, ReadInv, ReadOrLater, AdmittedInv, QuietUntil,
                      FeeAtMost, Vetted
<1>3. CASE handler' = Idle
    BY <1>3 DEF HandlerInv
<1> QED BY <1>2, <1>3

(* What kind of handler is where. *)
LEMMA HandlerKinds ==
    ASSUME HandlerInv
    PROVE  /\ handler.at \in {"chainId", "fee"} =>
                 handler \in Reading /\ Vetted(handler.runtime) /\ ReadInv(handler)
           /\ handler.at \in {"estimate", "policy", "send"} =>
                 handler \in Admitted /\ Vetted(handler.runtime) /\ AdmittedInv(handler)
BY DEF HandlerInv, Idle, Reading, Admitted

(* The node's chain id, and the start of the reads. *)
LEMMA GetChainIdInv ==
    ASSUME FeeInv, AdmissionInv, GetChainId
    PROVE  HandlerInv'
<1> USE FeeAssumption, AdmissionAssumption
<1>1. timestamp \in Nat /\ timestamp' = timestamp
    BY DEF FeeInv, FeeTypeOK, GetChainId, feeVars
<1>2. handler \in Reading /\ Vetted(handler.runtime) /\ handler.reads = NothingRead
    BY HandlerKinds DEF AdmissionInv, GetChainId, HandlerAt, ReadInv
<1>3. handler' = [handler EXCEPT !.at = "fee", !.since = timestamp]
    BY DEF GetChainId
<1>4. /\ handler' \in Reading
      /\ handler'.runtime = handler.runtime
      /\ handler'.since = timestamp
      /\ handler'.reads = NothingRead
      /\ handler'.at = "fee"
    BY <1>1, <1>2, <1>3 DEF Reading
<1>5. handler'.reads["pendingFeeActivationTime"] = NotRead
    BY <1>4 DEF NothingRead, FeeFields
<1>6. ReadInv(handler)'
    BY <1>1, <1>4, <1>5 DEF ReadInv
<1> QED BY <1>2, <1>4, <1>6 DEF HandlerInv, Vetted

(* A fee field is read: what is pending now is what was read. *)
LEMMA ReadPoolFeeStateInv ==
    ASSUME FeeInv, AdmissionInv, NEW field \in FeeFields, ReadPoolFeeState(field)
    PROVE  HandlerInv'
<1> USE FeeAssumption, AdmissionAssumption
<1> DEFINE v == PoolFee(handler.runtime.chain)[field]
<1>1. UNCHANGED <<timestamp, pendingFeeBps, pendingFeeActivationTime>>
    BY DEF ReadPoolFeeState, feeVars
<1>2. handler \in Reading /\ Vetted(handler.runtime) /\ ReadInv(handler) /\ handler.at = "fee"
    BY HandlerKinds DEF AdmissionInv, ReadPoolFeeState, HandlerAt
<1>3. v \in Int
    BY PoolFeeFields
<1>4. field = "pendingFeeActivationTime" /\ handler.runtime.chain = Mainnet =>
         v = pendingFeeActivationTime
    BY PoolFeeFields
<1>5. handler' = [handler EXCEPT !.reads[field] = v]
    BY DEF ReadPoolFeeState
<1> HIDE DEF v
<1>6. /\ handler' \in Reading
      /\ handler'.runtime = handler.runtime
      /\ handler'.since = handler.since
      /\ handler'.at = "fee"
      /\ handler'.reads = [handler.reads EXCEPT ![field] = v]
    BY <1>2, <1>3, <1>5 DEF Reading
<1>7. handler'.reads["pendingFeeActivationTime"] =
         IF field = "pendingFeeActivationTime" THEN v
                                               ELSE handler.reads["pendingFeeActivationTime"]
    BY <1>2, <1>6 DEF Reading, FeeFields
<1>8. ReadInv(handler)'
    BY <1>1, <1>2, <1>4, <1>6, <1>7 DEF ReadInv, ReadOrLater
<1> QED BY <1>2, <1>6, <1>8 DEF HandlerInv, Vetted

(* normalizeRelayRequest: an increase that could come before the deadline  *)
(* was read, whichever of the fields were read before and after it.        *)
LEMMA NormalizeInv ==
    ASSUME FeeInv, AdmissionInv, HandlerAt("fee"), NEW body \in Bodies, NormalizeRelayRequest(body)
    PROVE  HandlerInv'
<1> USE FeeAssumption, AdmissionAssumption
<1> DEFINE rt == handler.runtime
           reads == handler.reads
           a == handler.reads["pendingFeeActivationTime"]
<1>1. UNCHANGED <<timestamp, feeBps, pendingFeeBps, pendingFeeActivationTime>>
    BY DEF NormalizeRelayRequest, feeVars
<1>2. handler \in Reading /\ Vetted(rt) /\ ReadInv(handler) /\ handler.at = "fee"
    BY HandlerKinds DEF AdmissionInv, HandlerAt
<1>3. handler' = [at |-> "estimate", queued |-> handler.queued, runtime |-> rt, body |-> body]
    BY DEF NormalizeRelayRequest
<1>4. /\ handler' \in Admitted
      /\ handler'.runtime = rt /\ handler'.body = body /\ handler'.at = "estimate"
    BY <1>2, <1>3 DEF Reading, Admitted
<1>5. /\ body.chain = rt.chain /\ body.to = rt.pool /\ body.selector \in rt.selectors
      /\ body.valueWei = 0
      /\ body.deadline <= timestamp + maxDeadlineSecondsFromNow
      /\ rt.chain = Mainnet => rt.pool = "approved pool" /\ rt.selectors = {"v1.2 bounded"}
    BY DEF NormalizeRelayRequest, BroadcastPolicyAdmits, DeadlineOpen, Mainnet
<1>6. ASSUME rt.chain = Mainnet PROVE rt.store = TRUE
  <2>1. PICK e \in Envs : rt = Runtime(e)
      BY <1>2 DEF Reading, Runtimes
  <2>2. rt.store = e.IDEMPOTENCY_KV /\ e.IDEMPOTENCY_KV \in BOOLEAN
      BY <2>1 DEF Runtime
  <2>3. rt.store
      BY <1>6 DEF NormalizeRelayRequest, Resolves, Mainnet
  <2> QED BY <2>2, <2>3
<1>7. ASSUME rt.chain = Mainnet PROVE pendingFeeBps # 0 => pendingFeeActivationTime > body.deadline
  <2>1. rt.onChainFee = TRUE
      BY <1>2, <1>7 DEF Vetted
  <2>2. FeePolicyResolves(reads) /\ FeePolicyAdmits(reads, body)
      BY <2>1 DEF NormalizeRelayRequest
  <2>3. a # NotRead /\ (reads.pendingFeeBps = 0) = (a = 0) /\ (reads.pendingFeeBps # 0 => a > body.deadline)
      BY <2>2 DEF FeePolicyResolves, FeePolicyAdmits, FeeFields
  <2>4. ReadOrLater(a, handler.since) /\ timestamp <= handler.since + MaxHandling
      BY <1>2, <1>7, <2>3 DEF ReadInv
  <2>5. /\ handler.since \in Nat /\ timestamp \in Nat /\ pendingFeeActivationTime \in Nat
        /\ body.deadline \in Nat /\ a \in Int
      BY <1>2, BodyTypes DEF Reading, FeeFields, FeeInv, FeeTypeOK
  <2>6. pendingFeeBps # 0 => pendingFeeActivationTime # 0
      BY DEF FeeInv, PendingIsIncrease
  <2>7. body.deadline < handler.since + FEE_INCREASE_DELAY
    <3> DEFINE deadline == body.deadline
               since == handler.since
    <3>1. deadline <= timestamp + maxDeadlineSecondsFromNow /\ timestamp <= since + MaxHandling
        BY <1>5, <2>4
    <3>2. deadline \in Nat /\ since \in Nat /\ timestamp \in Nat
        BY <2>5
    <3> HIDE DEF deadline, since
    <3>3. deadline < since + FEE_INCREASE_DELAY
        BY <3>1, <3>2
    <3> QED BY <3>3 DEF deadline, since
  <2> HIDE DEF a
  <2> QED BY <2>3, <2>4, <2>5, <2>6, <2>7 DEF ReadOrLater
<1> HIDE DEF rt, a, reads
<1>8. rt.chain = Mainnet => ApprovedBody(body)
    BY <1>5 DEF ApprovedBody
<1>9. AdmittedInv(handler')
    BY <1>4, <1>5, <1>6, <1>7, <1>8 DEF AdmittedInv, QuietUntil
<1>10. AdmittedInv(handler)'
    BY <1>1, <1>9 DEF AdmittedInv, QuietUntil, FeeAtMost
<1> QED BY <1>2, <1>4, <1>10 DEF HandlerInv, Vetted, rt

(* estimateGas sees the fee of the moment, and no increase is due. *)
LEMMA EstimateGasInv ==
    ASSUME FeeInv, AdmissionInv, EstimateRelayGas
    PROVE  HandlerInv'
<1> USE FeeAssumption, AdmissionAssumption
<1>1. UNCHANGED <<timestamp, feeBps, pendingFeeBps, pendingFeeActivationTime>>
    BY DEF EstimateRelayGas, feeVars
<1>2. handler \in Admitted /\ Vetted(handler.runtime) /\ AdmittedInv(handler)
    BY HandlerKinds DEF AdmissionInv, EstimateRelayGas, HandlerAt
<1>3. handler' = [handler EXCEPT !.at = "policy"]
    BY DEF EstimateRelayGas
<1>4. handler' \in Admitted /\ handler'.runtime = handler.runtime /\ handler'.body = handler.body
    BY <1>2, <1>3 DEF Admitted
<1>5. handler.body.fee = IF handler.body.chain = Mainnet THEN feeBps ELSE INITIAL_FEE_BPS
    BY PoolFeeFields DEF EstimateRelayGas, Simulates
<1>6. handler.body.fee \in Nat
    BY <1>2, BodyTypes DEF Admitted
<1>7. AdmittedInv(handler)'
    BY <1>1, <1>2, <1>4, <1>5, <1>6 DEF AdmittedInv, QuietUntil, FeeAtMost
<1> QED BY <1>2, <1>4, <1>7 DEF HandlerInv, Vetted

(* The second policy check changes nothing but the handler's place. *)
LEMMA ValidatePolicyInv ==
    ASSUME AdmissionInv, ValidatePolicy
    PROVE  HandlerInv'
<1>1. UNCHANGED <<timestamp, feeBps, pendingFeeBps, pendingFeeActivationTime>>
    BY DEF ValidatePolicy, feeVars
<1>2. handler \in Admitted /\ Vetted(handler.runtime) /\ AdmittedInv(handler) /\ handler.at = "policy"
    BY HandlerKinds DEF AdmissionInv, ValidatePolicy, HandlerAt
<1>3. handler' = [handler EXCEPT !.at = "send"]
    BY DEF ValidatePolicy
<1>4. handler' \in Admitted /\ handler'.runtime = handler.runtime /\ handler'.body = handler.body
    BY <1>2, <1>3 DEF Admitted
<1>5. AdmittedInv(handler)'
    BY <1>1, <1>2, <1>4 DEF AdmittedInv, QuietUntil, FeeAtMost
<1> QED BY <1>2, <1>4, <1>5 DEF HandlerInv, Vetted

(* sendTransaction: the transaction inherits what is known of the request. *)
LEMMA SendInv ==
    ASSUME AdmissionInv, SendTransaction
    PROVE  AdmissionInv'
<1>1. UNCHANGED <<timestamp, feeBps, pendingFeeBps, pendingFeeActivationTime, env, queueEnv>>
    BY DEF SendTransaction, feeVars
<1>2. handler \in Admitted /\ Vetted(handler.runtime) /\ AdmittedInv(handler) /\ handler.at = "send"
    BY HandlerKinds DEF AdmissionInv, SendTransaction, HandlerAt
<1> DEFINE tx == [chain |-> handler.runtime.chain, signer |-> handler.runtime.signer,
                  recorded |-> handler.runtime.store, body |-> handler.body]
<1>3. sentTxs' = sentTxs \cup {tx} /\ handler' = Idle
    BY DEF SendTransaction
<1>4. tx.body \in Bodies
    BY <1>2 DEF Admitted
<1>5. TxInv(tx)
    BY <1>2, <1>4 DEF TxInv, AdmittedInv, Vetted
<1> HIDE DEF tx
<1>6. ASSUME NEW t \in sentTxs' PROVE TxInv(t)'
  <2>1. TxInv(t)
      BY <1>3, <1>5 DEF AdmissionInv
  <2> QED BY <1>1, <2>1 DEF TxInv, QuietUntil, FeeAtMost
<1> QED BY <1>1, <1>3, <1>6 DEF AdmissionInv, HandlerInv

(* Every step of the relayer, its operator, the controller and the chain.  *)
LEMMA AdmissionNextInv ==
    ASSUME FeeInv, AdmissionInv, [AdmissionNext]_admissionVars
    PROVE  AdmissionInv'
<1>1. CASE Governance
    BY <1>1, GovernanceInv
<1>2. CASE \E e \in Envs : Deploy(e)
  <2>1. UNCHANGED <<feeVars, sentTxs, handler, queueEnv>> /\ env' \in Envs
      BY <1>2 DEF Deploy
  <2> QED BY <2>1, HandlerStays, HandlerOnly DEF AdmissionInv
<1>3. CASE RestartQueue \/ Refuse
  <2>1. /\ UNCHANGED <<feeVars, sentTxs, env>>
        /\ queueEnv' \in Envs
        /\ handler' = handler \/ handler' = Idle
      BY <1>3 DEF RestartQueue, Refuse, AdmissionInv
  <2> QED BY <2>1, HandlerStays, HandlerOnly DEF AdmissionInv
<1>4. CASE PostToQueue \/ \E marked \in BOOLEAN : PostDirectly(marked)
  <2>1. UNCHANGED <<feeVars, env, queueEnv, sentTxs>> /\ (StartHandler(queueEnv) \/ StartHandler(env))
      BY <1>4 DEF PostToQueue, PostDirectly
  <2>2. timestamp \in Nat
      BY DEF FeeInv, FeeTypeOK
  <2>3. HandlerInv'
      BY <2>1, <2>2, StartInv DEF AdmissionInv
  <2> QED BY <2>1, <2>3, HandlerOnly DEF AdmissionInv
<1>5. CASE GetChainId \/ \E field \in FeeFields : ReadPoolFeeState(field)
  <2>1. UNCHANGED <<feeVars, env, queueEnv, sentTxs>>
      BY <1>5 DEF GetChainId, ReadPoolFeeState
  <2> QED BY <1>5, <2>1, GetChainIdInv, ReadPoolFeeStateInv, HandlerOnly DEF AdmissionInv
<1>6. CASE HandlerAt("fee") /\ \E body \in Bodies : NormalizeRelayRequest(body)
  <2>1. UNCHANGED <<feeVars, env, queueEnv, sentTxs>>
      BY <1>6 DEF NormalizeRelayRequest
  <2> QED BY <1>6, <2>1, NormalizeInv, HandlerOnly DEF AdmissionInv
<1>7. CASE EstimateRelayGas \/ ValidatePolicy
  <2>1. UNCHANGED <<feeVars, env, queueEnv, sentTxs>>
      BY <1>7 DEF EstimateRelayGas, ValidatePolicy
  <2> QED BY <1>7, <2>1, EstimateGasInv, ValidatePolicyInv, HandlerOnly DEF AdmissionInv
<1>8. CASE SendTransaction
    BY <1>8, SendInv
<1>9. CASE UNCHANGED admissionVars
  <2>1. UNCHANGED <<feeVars, env, queueEnv, handler, sentTxs>>
      BY <1>9 DEF admissionVars, relayVars
  <2> QED BY <2>1, HandlerStays, HandlerOnly DEF AdmissionInv
<1> QED BY <1>1, <1>2, <1>3, <1>4, <1>5, <1>6, <1>7, <1>8, <1>9 DEF AdmissionNext

(* What the relayer does is no concern of the pool's fee governance. *)
LEMMA AdmissionStepIsFeeStep == ASSUME [AdmissionNext]_admissionVars PROVE [FeeNext]_feeVars
<1>1. CASE Governance
    BY <1>1 DEF Governance, FeeNext
<1>2. CASE ~Governance
    BY <1>2 DEF AdmissionNext, admissionVars, Deploy, RestartQueue, PostToQueue, PostDirectly, GetChainId,
                ReadPoolFeeState, NormalizeRelayRequest, EstimateRelayGas, ValidatePolicy,
                SendTransaction, Refuse
<1> QED BY <1>1, <1>2

-----------------------------------------------------------------------------
(* Results.                                                                *)

(* The inductive invariant: fee governance is in order, and what handlers  *)
(* have read and transactions carry stays true as described above.         *)
LEMMA AdmissionInvariant == AdmissionSpec => [](FeeInv /\ AdmissionInv)
<1>1. AdmissionInit => FeeInv /\ AdmissionInv
    BY FeeInitInv, AdmissionInitInv DEF AdmissionInit
<1>2. (FeeInv /\ AdmissionInv) /\ [AdmissionNext]_admissionVars => (FeeInv /\ AdmissionInv)'
    BY AdmissionNextInv, AdmissionStepIsFeeStep, FeeStepInv
<1> QED BY <1>1, <1>2, PTL DEF AdmissionSpec

(* A withdrawal that the relayer submitted meets no higher fee before its  *)
(* deadline, although the fee fields are read one by one and the fee       *)
(* controller acts in between, if the fee delay outlasts the deadline      *)
(* window and a request's reads (normalizeRelayRequest, estimateGas).      *)
THEOREM SubmittedFeesHold == AdmissionSpec => []SubmittedFeeHolds
<1>1. ASSUME FeeInv, AdmissionInv PROVE SubmittedFeeHolds
  <2> SUFFICES ASSUME NEW tx \in sentTxs, timestamp <= tx.body.deadline
               PROVE  PoolFee(tx.chain).feeBps <= tx.body.fee
      BY DEF SubmittedFeeHolds
  <2>1. TxInv(tx)
      BY <1>1 DEF AdmissionInv
  <2>2. PoolFee(tx.chain).feeBps = IF tx.chain = Mainnet THEN feeBps ELSE INITIAL_FEE_BPS
      BY PoolFeeFields
  <2> QED BY <2>1, <2>2 DEF TxInv, FeeAtMost
<1> QED BY <1>1, AdmissionInvariant, PTL

(* Whatever the operator deploys, and whenever, what the relayer submits   *)
(* on the mainnet is an approved withdrawal (buildRelayRuntime,            *)
(* assertRelayerSignerBinding, validateRelayBroadcastRequest).             *)
THEOREM MainnetSubmissionsAreApproved == AdmissionSpec => []MainnetSubmissionsApproved
<1>1. ASSUME AdmissionInv PROVE MainnetSubmissionsApproved
    BY <1>1 DEF AdmissionInv, TxInv, ApprovedBody, MainnetSubmissionsApproved, Mainnet
<1> QED BY <1>1, AdmissionInvariant, PTL
=============================================================================
