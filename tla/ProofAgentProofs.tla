-------------------------- MODULE ProofAgentProofs --------------------------
(***************************************************************************)
(* Proofs about ProofAgent, for every set of requests and submissions and  *)
(* every choice of disturbances.                                           *)
(***************************************************************************)
EXTENDS ProofAgent, TLAPS

-----------------------------------------------------------------------------
(* The operators on tracked requests stay within Tracked.                  *)

\* A status with its market id is a tracked request (ProofRequestStatus).
LEMMA StatusTyped ==
    ASSUME NEW st \in Statuses, NEW id \in MarketIds
    PROVE  Status(st, id) \in Tracked
  BY DEF Status, Tracked, MarketIds

\* The two statuses without a market id are tracked requests.
LEMMA BlankTyped == Preparing \in Tracked /\ Failed \in Tracked
  BY StatusTyped DEF Preparing, Failed, Statuses, MarketIds

\* Recording a status keeps an entry of the map, and a row, well formed
\* (update_request_status, BoundlessStorage::update_status).
LEMMA RecordTyped ==
    ASSUME NEW entry \in Tracked, NEW new \in Tracked
    PROVE  RecordInMap(entry, new) \in Tracked /\ RecordInRow(entry, new) \in Tracked
  BY DEF RecordInMap, RecordInRow, Tracked

\* No tracked request is the mark of an absent one.
LEMMA NothingApart == Nothing \notin Requests /\ Nothing \notin Tracked /\ Nothing \notin Queries
  BY NothingAssumption

\* Everything one check of the market answers is a tracked request
\* (check_market_status).
LEMMA AnswersTyped ==
    ASSUME NEW s \in Submissions
    PROVE  Answers(s) \subseteq Tracked
  <1>1. Status("submitted", s) \in Tracked
    BY StatusTyped DEF Statuses, MarketIds
  <1>2. market[s] \in {"locked", "fulfilled"} => Status(market[s], s) \in Tracked
    BY StatusTyped DEF Statuses, MarketIds
  <1> QED BY <1>1, <1>2, BlankTyped DEF Answers

-----------------------------------------------------------------------------
(* Storage calls, and the steps every task takes, keep their variables     *)
(* well formed.                                                            *)

RowsOK == rows \in [Requests -> Tracked \union {Nothing}] /\ stale \subseteq Requests

TaskOK ==
    /\ pc \in [Submissions -> Pcs]
    /\ req \in [Submissions -> Requests \union {Nothing}]
    /\ \A s \in Submissions : pc[s] # "idle" => req[s] \in Requests
    /\ obs \in [Submissions -> Tracked]
    /\ why \in [Submissions -> Purposes]
    /\ attached \subseteq Submissions

\* INSERT OR REPLACE, UPDATE and DELETE leave a well-formed table.
LEMMA StorageTyped ==
    ASSUME RowsOK, NEW r \in Requests, NEW new \in Tracked, NEW S \in SUBSET Requests,
           Insert(r) \/ Update(r, new) \/ Delete(S) \/ PurgeExpired
    PROVE  RowsOK'
  <1>1. CASE Insert(r)
    BY <1>1, BlankTyped DEF RowsOK, Insert
  <1>2. CASE Update(r, new)
    <2>1. rows[r] # Nothing => RecordInRow(rows[r], new) \in Tracked
      BY RecordTyped DEF RowsOK
    <2> QED BY <1>2, <2>1 DEF RowsOK, Update
  <1>3. ASSUME NEW T \in SUBSET Requests, Delete(T) PROVE RowsOK'
    BY <1>3 DEF RowsOK, Delete
  <1>4. CASE PurgeExpired
    BY <1>3, <1>4 DEF RowsOK, PurgeExpired
  <1> QED BY <1>1, <1>2, <1>3, <1>4

\* The control steps of a task leave well-formed task variables.
LEMMA TaskTyped ==
    ASSUME TaskOK, NEW s \in Submissions, pc[s] # "idle", NEW new \in Tracked,
           NEW purpose \in Purposes,
           \/ Finish(s) \/ Record(s, new, purpose)
           \/ KeepPolling(s) \/ StartForgetting(s)
    PROVE  TaskOK'
  BY BlankTyped DEF TaskOK, Finish, Record, KeepPolling, StartForgetting, Goto, Purposes,
                    Pcs, HandlerPcs, RecordingPcs

-----------------------------------------------------------------------------
(* Type correctness.                                                       *)

MapOK == memory \in [Requests -> Tracked \union {Nothing}]

SideOK ==
    /\ images \subseteq ProofTypes
    /\ refreshing \in BOOLEAN
    /\ query \in Queries \union {Nothing}
    /\ pruning \in BOOLEAN
    /\ swept \subseteq Requests

\* The type invariant in its parts, before and after a step.
LEMMA TypeParts ==
    /\ TypeOK <=> /\ MarketType /\ RowsOK /\ adrift \subseteq Writes /\ MapOK /\ TaskOK /\ SideOK
    /\ TypeOK' <=> (/\ MarketType /\ RowsOK /\ adrift \subseteq Writes /\ MapOK /\ TaskOK /\ SideOK)'
  BY DEF TypeOK, RowsOK, MapOK, TaskOK, SideOK

\* The states a task moves through are all control states (Pcs).
LEMMA PcsHas ==
    /\ {"idle", "cache", "prepare", "store", "submit", "accepted"} \subseteq Pcs
    /\ {"remember", "persist", "forget", "poll", "done"} \subseteq Pcs
  BY DEF Pcs, HandlerPcs, RecordingPcs

\* A request may start to be handled, and the handler go on, within the types
\* (batch_run, aggregate, prepare_async_request).
LEMMA HandlerTyped ==
    ASSUME TypeOK, NEW s \in Submissions, NEW r \in Requests,
           \/ PostNew(s, r) \/ PostExisting(s, r) \/ CacheExisting(s)
           \/ Prepare(s) \/ Store(s) \/ Disconnect(s)
    PROVE  TypeOK'
  <1> USE TypeParts, PcsHas, BlankTyped
  <1>1. CASE PostNew(s, r)
    <2>1. TaskOK'
      BY <1>1 DEF PostNew, StartHandler, Goto, TaskOK
    <2> QED BY <1>1, <2>1 DEF PostNew, MarketType, RowsOK, MapOK, SideOK, storeVars, readerVars
  <1>2. CASE PostExisting(s, r)
    <2>1. TaskOK'
      BY <1>2, NothingApart DEF PostExisting, StartHandler, Goto, TaskOK, RowsOK
    <2> QED BY <1>2, <2>1 DEF PostExisting, MarketType, RowsOK, MapOK, SideOK, storeVars, readerVars
  <1>3. CASE CacheExisting(s)
    <2>1. TaskOK'
      BY <1>3 DEF CacheExisting, Goto, TaskOK
    <2>2. MapOK'
      BY <1>3 DEF CacheExisting, MapOK, TaskOK
    <2> QED BY <1>3, <2>1, <2>2 DEF CacheExisting, MarketType, RowsOK, SideOK, storeVars, readerVars
  <1>4. CASE Prepare(s)
    <2>1. TaskOK'
      BY <1>4 DEF Prepare, Goto, TaskOK
    <2>2. MapOK'
      BY <1>4 DEF Prepare, MapOK
    <2> QED BY <1>4, <2>1, <2>2 DEF Prepare, MarketType, RowsOK, SideOK, storeVars, readerVars
  <1>5. CASE Store(s)
    <2>1. TaskOK'
      BY <1>5 DEF Store, Goto, TaskOK
    <2>2. req[s] \in Requests
      BY <1>5 DEF Store, TaskOK
    <2>3. RowsOK'
      BY <1>5, <2>2, StorageTyped DEF Store, RowsOK
    <2> QED BY <1>5, <2>1, <2>3 DEF Store, MarketType, MapOK, SideOK, readerVars
  <1>6. CASE Disconnect(s)
    <2>1. pc[s] # "idle" /\ req[s] \in Requests
      BY <1>6 DEF Disconnect, HandlerPcs, TaskOK
    <2>2. ASSUME Finish(s) PROVE TaskOK'
      BY <2>1, <2>2, TaskTyped DEF Purposes
    <2>3. ASSUME Goto(s, "done"), UNCHANGED <<req, obs, why, attached>> PROVE TaskOK'
      BY <2>1, <2>3 DEF TaskOK, Goto
    <2>4. [kind |-> "insert", by |-> s, req |-> req[s], entry |-> Preparing] \in Writes
      BY <2>1 DEF Writes
    <2>5. (adrift \subseteq Writes)' /\ TaskOK'
      BY <1>6, <2>2, <2>3, <2>4 DEF Disconnect
    <2> QED BY <1>6, <2>5 DEF Disconnect, MarketType, RowsOK, MapOK, SideOK, readerVars
  <1> QED BY <1>1, <1>2, <1>3, <1>4, <1>5, <1>6

\* So does the spawned task, up to its record of the submission
\* (process_and_submit_request).
LEMMA SubmissionTyped ==
    ASSUME TypeOK, NEW s \in Submissions,
           SubmitFails(s) \/ SubmitAccepted(s) \/ Acknowledge(s) \/ AcknowledgeLost(s)
    PROVE  TypeOK'
  <1> USE TypeParts
  <1>1. CASE SubmitAccepted(s)
    <2>1. TaskOK'
      BY <1>1, PcsHas DEF SubmitAccepted, Goto, TaskOK
    <2>2. MarketType'
      BY <1>1 DEF SubmitAccepted, MarketAccepts, Becomes, MarketType, MarketStates
    <2> QED BY <1>1, <2>1, <2>2 DEF SubmitAccepted, RowsOK, MapOK, SideOK, storeVars, readerVars
  <1>2. CASE SubmitFails(s) \/ Acknowledge(s) \/ AcknowledgeLost(s)
    <2>1. Status("submitted", s) \in Tracked
      BY StatusTyped DEF Statuses, MarketIds
    <2>2. TaskOK'
      BY <1>2, <2>1, BlankTyped, TaskTyped
         DEF SubmitFails, Acknowledge, AcknowledgeLost, Purposes
    <2>3. UNCHANGED <<market, storeVars, memory, images, refreshing, readerVars>>
      BY <1>2 DEF SubmitFails, Acknowledge, AcknowledgeLost
    <2> QED BY <2>2, <2>3 DEF MarketType, RowsOK, MapOK, SideOK, storeVars, readerVars
  <1> QED BY <1>1, <1>2

\* So do the recording of a status, the polling and its deadline
\* (update_request_status, poll_market_status, handle_polling_timeout).
LEMMA RecordingTyped ==
    ASSUME TypeOK, NEW s \in Submissions,
           \/ Remember(s) \/ Persist(s) \/ PersistFails(s) \/ Forget(s)
           \/ CheckMarket(s) \/ Deadline(s)
    PROVE  TypeOK'
  <1> USE TypeParts
  <1> pc[s] # "idle" /\ req[s] \in Requests /\ obs[s] \in Tracked
    BY DEF Remember, Persist, PersistFails, Forget, CheckMarket, Deadline, RecordingPcs, TaskOK
  <1>1. CASE Remember(s)
    <2>1. TaskOK'
      BY <1>1, PcsHas DEF Remember, Goto, TaskOK
    <2>2. memory[req[s]] # Nothing => RecordInMap(memory[req[s]], obs[s]) \in Tracked
      BY RecordTyped DEF MapOK
    <2>3. MapOK'
      BY <1>1, <2>2 DEF Remember, MapOK
    <2> QED BY <1>1, <2>1, <2>3 DEF Remember, MarketType, RowsOK, SideOK, storeVars, readerVars
  <1>2. CASE Persist(s)
    <2>1. TaskOK'
      BY <1>2, TaskTyped, BlankTyped DEF Persist, AfterRecording, Purposes
    <2>2. RowsOK'
      BY <1>2, StorageTyped DEF Persist
    <2> QED BY <1>2, <2>1, <2>2 DEF Persist, MarketType, MapOK, SideOK, readerVars
  <1>3. CASE PersistFails(s)
    <2>1. TaskOK'
      BY <1>3, TaskTyped, BlankTyped DEF PersistFails, Purposes
    <2> QED BY <1>3, <2>1 DEF PersistFails, MarketType, RowsOK, MapOK, SideOK, storeVars, readerVars
  <1>4. CASE Forget(s)
    <2>1. TaskOK'
      BY <1>4, TaskTyped, BlankTyped DEF Forget, Purposes
    <2>2. MapOK'
      BY <1>4 DEF Forget, MapOK
    <2> QED BY <1>4, <2>1, <2>2 DEF Forget, MarketType, RowsOK, SideOK, storeVars, readerVars
  <1>5. CASE CheckMarket(s)
    <2>1. PICK new \in Answers(s) : Record(s, new, "poll")
      BY <1>5 DEF CheckMarket
    <2>2. TaskOK'
      BY <2>1, AnswersTyped, TaskTyped DEF Purposes
    <2> QED BY <1>5, <2>2 DEF CheckMarket, MarketType, RowsOK, MapOK, SideOK, storeVars, readerVars
  <1>6. CASE Deadline(s)
    <2>1. TaskOK'
      BY <1>6, BlankTyped, TaskTyped DEF Deadline, Purposes
    <2>2. [kind |-> "update", by |-> s, req |-> req[s], entry |-> obs[s]] \in Writes
      BY DEF Writes
    <2>3. (adrift \subseteq Writes)'
      BY <1>6, <2>2 DEF Deadline
    <2> QED BY <1>6, <2>1, <2>3 DEF Deadline, MarketType, RowsOK, MapOK, SideOK, readerVars
  <1> QED BY <1>1, <1>2, <1>3, <1>4, <1>5, <1>6

\* So do uploads, status queries, prunes, the clean-up and dropped writes
\* (get_request_status, delete_all_requests, start_ttl_cleanup_task).
LEMMA ReadersTyped ==
    ASSUME TypeOK,
           \/ \E w \in adrift : LandAdrift(w)
           \/ \E t \in ProofTypes : Upload(t)
           \/ \E r \in Requests : QueryRead(r) \/ Age(r)
           \/ QueryCache \/ PruneTable \/ PruneMap
           \/ \E S \in SUBSET Requests : CleanupDelete(S)
           \/ CleanupForget
    PROVE  TypeOK'
  <1> USE TypeParts
  <1>1. ASSUME NEW w \in adrift, LandAdrift(w) PROVE TypeOK'
    <2>1. w.req \in Requests /\ w.entry \in Tracked
      BY DEF Writes
    <2>2. RowsOK'
      BY <1>1, <2>1, StorageTyped DEF LandAdrift
    <2>3. TaskOK'
      BY <1>1 DEF LandAdrift, TaskOK
    <2> QED BY <1>1, <2>2, <2>3 DEF LandAdrift, MarketType, MapOK, SideOK, readerVars
  <1>2. ASSUME NEW t \in ProofTypes, Upload(t) PROVE TypeOK'
    BY <1>2 DEF Upload, MarketType, RowsOK, MapOK, TaskOK, SideOK, storeVars, taskVars, readerVars
  <1>3. ASSUME NEW r \in Requests, QueryRead(r) PROVE TypeOK'
    <2>1. query' \in Queries
      BY <1>3 DEF QueryRead, RowsOK, Queries
    <2> QED BY <1>3, <2>1 DEF QueryRead, MarketType, RowsOK, MapOK, TaskOK, SideOK, storeVars, taskVars
  <1>4. ASSUME NEW r \in Requests, Age(r) PROVE TypeOK'
    BY <1>4 DEF Age, MarketType, RowsOK, MapOK, TaskOK, SideOK, taskVars, readerVars
  <1>5. CASE QueryCache
    <2>1. query.req \in Requests /\ query.seen \in Tracked
      BY <1>5 DEF QueryCache, SideOK, Queries
    <2>2. MapOK'
      BY <1>5, <2>1 DEF QueryCache, MapOK
    <2> QED BY <1>5, <2>2 DEF QueryCache, MarketType, RowsOK, TaskOK, SideOK, storeVars, taskVars
  <1>6. CASE PruneTable
    <2>1. RowsOK'
      BY <1>6 DEF PruneTable, Delete, RowsOK
    <2> QED BY <1>6, <2>1 DEF PruneTable, MarketType, MapOK, TaskOK, SideOK, taskVars
  <1>7. CASE PruneMap
    BY <1>7 DEF PruneMap, MarketType, RowsOK, MapOK, TaskOK, SideOK, storeVars, taskVars
  <1>8. ASSUME NEW S \in SUBSET Requests, CleanupDelete(S) PROVE TypeOK'
    <2>1. RowsOK'
      BY <1>8 DEF CleanupDelete, Delete, RowsOK
    <2> QED BY <1>8, <2>1 DEF CleanupDelete, MarketType, MapOK, TaskOK, SideOK, taskVars
  <1>9. CASE CleanupForget
    BY <1>9 DEF CleanupForget, MarketType, RowsOK, MapOK, TaskOK, SideOK, storeVars, taskVars
  <1> QED BY <1>1, <1>2, <1>3, <1>4, <1>5, <1>6, <1>7, <1>8, <1>9

\* So do the refresh of the prover, a restart, and the market
\* (get_or_refresh_prover, BoundlessProver::new).
LEMMA WorldTyped ==
    ASSUME TypeOK, BeginRefresh \/ EndRefresh \/ Restart \/ MarketStep
    PROVE  TypeOK'
  <1> USE TypeParts
  <1>1. PurgeExpired => RowsOK'
    BY DEF PurgeExpired, Delete, RowsOK
  <1>2. CASE BeginRefresh
    BY <1>1, <1>2 DEF BeginRefresh, MarketType, MapOK, TaskOK, SideOK, taskVars, readerVars
  <1>3. CASE EndRefresh
    BY <1>3 DEF EndRefresh, EmptyMap, MarketType, RowsOK, MapOK, TaskOK, SideOK, storeVars
  <1>4. CASE Restart
    <2>1. TaskOK'
      BY <1>4, BlankTyped, PcsHas DEF Restart, EmptyMap, TaskOK, Purposes
    <2> QED BY <1>1, <1>4, <2>1 DEF Restart, EmptyMap, MarketType, MapOK, SideOK
  <1>5. CASE MarketStep
    <2>1. PICK s \in Submissions : MarketMoves(s)
      BY <1>5 DEF MarketStep
    <2>2. MarketType'
      BY <2>1 DEF MarketMoves, MarketLocks, MarketFulfills, MarketExpires, Becomes, MarketType, MarketStates
    <2> QED BY <1>5, <2>2 DEF MarketStep, RowsOK, MapOK, TaskOK, SideOK, storeVars, taskVars, readerVars
  <1> QED BY <1>2, <1>3, <1>4, <1>5

\* The tracker starts well formed.
LEMMA InitTyped == Init => TypeOK
  BY BlankTyped DEF Init, TypeOK, MarketInit, MarketType, MarketStates, Pcs, Purposes

\* Every step of the agent, of its clients and of the market keeps it so.
LEMMA NextTyped == TypeOK /\ [Next]_vars => TypeOK'
  <1> SUFFICES ASSUME TypeOK, [Next]_vars PROVE TypeOK'
    OBVIOUS
  <1>1. CASE UNCHANGED vars
    BY <1>1 DEF vars, TypeOK, MarketType
  <1>2. ASSUME NEW s \in Submissions, TaskStep(s) \/ Disconnect(s) \/ Deadline(s) PROVE TypeOK'
    <2>1. CASE CacheExisting(s) \/ Prepare(s) \/ Store(s) \/ Disconnect(s)
      <3>1. req[s] \in Requests
        BY <2>1 DEF CacheExisting, Prepare, Store, Disconnect, HandlerPcs, TypeOK
      <3> QED BY <2>1, <3>1, HandlerTyped
    <2>2. CASE SubmitFails(s) \/ SubmitAccepted(s) \/ Acknowledge(s) \/ AcknowledgeLost(s)
      BY <2>2, SubmissionTyped
    <2>3. CASE \/ Remember(s) \/ Persist(s) \/ PersistFails(s) \/ Forget(s)
               \/ CheckMarket(s) \/ Deadline(s)
      BY <2>3, RecordingTyped
    <2> QED BY <1>2, <2>1, <2>2, <2>3 DEF TaskStep
  <1>3. ASSUME NEW s \in Submissions, NEW r \in Requests, PostNew(s, r) \/ PostExisting(s, r)
        PROVE  TypeOK'
    BY <1>3, HandlerTyped
  <1>4. CASE \/ \E w \in adrift : LandAdrift(w)
             \/ \E t \in ProofTypes : Upload(t)
             \/ \E r \in Requests : QueryRead(r) \/ Age(r)
             \/ QueryCache \/ PruneTable \/ PruneMap
             \/ \E S \in SUBSET Requests : CleanupDelete(S)
             \/ CleanupForget
    BY <1>4, ReadersTyped
  <1>5. CASE BeginRefresh \/ EndRefresh \/ Restart \/ MarketStep
    BY <1>5, WorldTyped
  <1> QED BY <1>1, <1>2, <1>3, <1>4, <1>5 DEF Next

\* Every variable of the tracker keeps its type in every behaviour, with every
\* disturbance: the rows, the map and the pending statuses stay well formed.
THEOREM TypeCorrect == Spec => []TypeOK
  BY InitTyped, NextTyped, PTL DEF Spec

-----------------------------------------------------------------------------
(* No record runs ahead of the market.  The invariant is not inductive by  *)
(* itself: a submission may change the request it works for, and a market  *)
(* request may be recorded, so where a submission stands has to say        *)
(* whether its market request exists (Stages).  The argument is then that  *)
(* market requests only move forward and keep their owner, so that what    *)
(* was confirmed stays confirmed (Advances), and that each new record is   *)
(* either an old one, a blank one, or what the market has just answered.   *)

Stages ==
    /\ \A s \in Submissions :
          pc[s] \in {"idle", "cache", "prepare", "store", "submit"} => market[s] = "absent"
    /\ \A s \in Submissions : pc[s] = "accepted" => market[s] # "absent"
    /\ \A s \in Submissions : pc[s] = "idle" => obs[s] = Preparing

IndInv == TypeOK /\ Stages /\ NeverAheadOfMarket

\* From one owner and state of market requests to a later one.
Advances(owner, state, owner2, state2) ==
    \A m \in Submissions :
        /\ state[m] # "absent" => state2[m] # "absent" /\ owner2[m] = owner[m]
        /\ state[m] \in {"locked", "fulfilled", "expired"}
              => state2[m] \in {"locked", "fulfilled", "expired"}
        /\ state[m] = "fulfilled" => state2[m] = "fulfilled"

\* What was confirmed stays confirmed.
LEMMA ConfirmedLater ==
    ASSUME NEW r, NEW entry \in Tracked, NEW owner, NEW state, NEW owner2, NEW state2,
           Confirmed(r, entry, owner, state), Advances(owner, state, owner2, state2)
    PROVE  Confirmed(r, entry, owner2, state2)
  <1>1. entry.id \in Submissions \union {NoMarket} /\ entry.column \in Submissions \union {NoMarket}
    BY DEF Tracked, MarketIds
  <1> QED BY <1>1 DEF Confirmed, Advances

\* An entry without a market request claims nothing.
LEMMA BlankConfirmed ==
    ASSUME NEW r, NEW owner, NEW state
    PROVE  Confirmed(r, Preparing, owner, state) /\ Confirmed(r, Failed, owner, state)
  BY DEF Confirmed, Preparing, Failed, Status

\* A recorded status claims what the old entry and the new status claimed
\* (update_request_status, BoundlessStorage::update_status).
LEMMA RecordConfirmed ==
    ASSUME NEW r, NEW entry \in Tracked, NEW new \in Tracked, NEW owner, NEW state,
           Confirmed(r, entry, owner, state), Confirmed(r, new, owner, state)
    PROVE  /\ Confirmed(r, RecordInMap(entry, new), owner, state)
           /\ Confirmed(r, RecordInRow(entry, new), owner, state)
  BY DEF Confirmed, RecordInMap, RecordInRow

\* What a check of the market answers is confirmed by it (check_market_status).
LEMMA AnswersConfirmed ==
    ASSUME MarketType, NEW s \in Submissions, NEW new \in Answers(s)
    PROVE  Confirmed(req[s], new, req, market)
  <1>1. CASE new = Failed
    BY <1>1, BlankConfirmed
  <1>2. CASE new = Status("submitted", s) /\ market[s] = "open"
    BY <1>2, NothingAssumption DEF Confirmed, Status
  <1>3. CASE new = Status(market[s], s) /\ market[s] \in {"locked", "fulfilled"}
    BY <1>3, NothingAssumption DEF Confirmed, Status
  <1> QED BY <1>1, <1>2, <1>3 DEF Answers

\* A market request moves forward and keeps its owner, whatever the step.
LEMMA StepAdvances ==
    ASSUME IndInv, [Next]_vars
    PROVE  Advances(req, market, req', market')
  <1> USE DEF Advances
  <1>1. ASSUME NEW s \in Submissions, pc[s] \in {"idle", "cache"}, NEW r,
               req' = [req EXCEPT ![s] = r], UNCHANGED market
        PROVE  Advances(req, market, req', market')
    BY <1>1 DEF IndInv, Stages, TypeOK
  <1>2. ASSUME NEW s \in Submissions, UNCHANGED req, MarketAccepts(s) \/ MarketMoves(s)
        PROVE  Advances(req, market, req', market')
    BY <1>2 DEF IndInv, TypeOK, MarketType, MarketStates, MarketAccepts, MarketMoves,
                MarketLocks, MarketFulfills, MarketExpires, Becomes, Unsettled
  <1>3. CASE UNCHANGED <<req, market>>
    BY <1>3
  <1>4. CASE \E s \in Submissions : CacheExisting(s)
    BY <1>1, <1>4 DEF CacheExisting
  <1>5. CASE \E s \in Submissions, r \in Requests : PostNew(s, r) \/ PostExisting(s, r)
    BY <1>1, <1>5 DEF PostNew, PostExisting, StartHandler
  <1>6. CASE \E s \in Submissions : SubmitAccepted(s)
    BY <1>2, <1>6 DEF SubmitAccepted
  <1>7. CASE MarketStep
    BY <1>2, <1>7 DEF MarketStep, taskVars
  <1>8. ASSUME NEW s \in Submissions, ~ CacheExisting(s), ~ SubmitAccepted(s),
               TaskStep(s) \/ Disconnect(s) \/ Deadline(s)
        PROVE  UNCHANGED <<req, market>>
    BY <1>8 DEF TaskStep, Disconnect, Deadline, Prepare, Store, SubmitFails, Acknowledge,
                AcknowledgeLost, Remember, Persist, PersistFails, Forget, CheckMarket,
                Record, Finish, AfterRecording, KeepPolling, StartForgetting
  <1>9. CASE \/ \E w \in adrift : LandAdrift(w)
             \/ \E t \in ProofTypes : Upload(t)
             \/ \E r \in Requests : QueryRead(r) \/ Age(r)
             \/ QueryCache \/ PruneTable \/ PruneMap
             \/ \E S \in SUBSET Requests : CleanupDelete(S)
             \/ CleanupForget \/ BeginRefresh \/ EndRefresh \/ Restart
    BY <1>3, <1>9 DEF LandAdrift, Upload, QueryRead, Age, QueryCache, PruneTable, PruneMap,
                CleanupDelete, CleanupForget, BeginRefresh, EndRefresh, Restart, EmptyMap, taskVars
  <1> QED BY <1>3, <1>4, <1>5, <1>6, <1>7, <1>8, <1>9 DEF Next, vars

-----------------------------------------------------------------------------
(* Where a submission stands tells whether its market request exists.      *)

\* The stages of the others are not disturbed.
LEMMA StagesElsewhere ==
    ASSUME IndInv, NEW s \in Submissions, NEW to \in Pcs, Goto(s, to),
           \A t \in Submissions \ {s} : market'[t] = market[t] /\ obs'[t] = obs[t],
           to \in {"idle", "cache", "prepare", "store", "submit"} => market'[s] = "absent",
           to = "accepted" => market'[s] # "absent",
           to = "idle" => obs'[s] = Preparing
    PROVE  Stages'
  BY DEF IndInv, TypeOK, Stages, Goto

\* A status may be recorded, and a task end, at any stage.
LEMMA StagesRecording ==
    ASSUME IndInv, NEW s \in Submissions, NEW new, NEW purpose, UNCHANGED market,
           \/ Record(s, new, purpose) \/ Finish(s)
           \/ KeepPolling(s) \/ StartForgetting(s)
    PROVE  Stages'
  BY StagesElsewhere, PcsHas DEF IndInv, TypeOK, Record, Finish, KeepPolling, StartForgetting

LEMMA StepStages == ASSUME IndInv, [Next]_vars PROVE Stages'
  <1> USE PcsHas
  <1>0. pc \in [Submissions -> Pcs] /\ obs \in [Submissions -> Tracked] /\ MarketType
    BY DEF IndInv, TypeOK
  <1>1. ASSUME UNCHANGED <<pc, obs, market>> PROVE Stages'
    BY <1>1 DEF IndInv, Stages
  <1>2. ASSUME NEW s \in Submissions, NEW r \in Requests, PostNew(s, r) \/ PostExisting(s, r)
        PROVE  Stages'
    <2>1. market[s] = "absent" /\ UNCHANGED market
      BY <1>2 DEF PostNew, PostExisting, StartHandler, IndInv, Stages
    <2>2. Goto(s, "prepare") \/ Goto(s, "cache")
      BY <1>2 DEF PostNew, PostExisting, StartHandler
    <2>3. \A t \in Submissions \ {s} : obs'[t] = obs[t]
      BY <1>0, <1>2 DEF PostNew, PostExisting
    <2> QED BY <2>1, <2>2, <2>3, StagesElsewhere
  <1>3. ASSUME NEW s \in Submissions, CacheExisting(s) \/ Prepare(s) \/ Store(s) PROVE Stages'
    <2>1. market[s] = "absent" /\ UNCHANGED market
      BY <1>3 DEF CacheExisting, Prepare, Store, IndInv, Stages
    <2>2. CASE CacheExisting(s)
      BY <1>0, <2>1, <2>2, StagesElsewhere DEF CacheExisting
    <2>3. CASE Prepare(s) \/ Store(s)
      BY <2>1, <2>3, StagesElsewhere DEF Prepare, Store
    <2> QED BY <1>3, <2>2, <2>3
  <1>4. ASSUME NEW s \in Submissions, SubmitAccepted(s) PROVE Stages'
    <2>1. market' = [market EXCEPT ![s] = "open"]
      BY <1>4 DEF SubmitAccepted, MarketAccepts, Becomes
    <2> QED BY <1>0, <1>4, <2>1, StagesElsewhere DEF SubmitAccepted, MarketType
  <1>5. ASSUME NEW s \in Submissions,
               \/ SubmitFails(s) \/ Acknowledge(s) \/ AcknowledgeLost(s) \/ Persist(s)
               \/ PersistFails(s) \/ Forget(s) \/ CheckMarket(s) \/ Disconnect(s) \/ Deadline(s)
        PROVE  Stages'
    BY <1>5, StagesRecording, StagesElsewhere DEF SubmitFails, Acknowledge, AcknowledgeLost,
          Persist, AfterRecording, PersistFails, Forget, CheckMarket, Disconnect, Deadline
  <1>6. ASSUME NEW s \in Submissions, Remember(s) PROVE Stages'
    BY <1>6, StagesElsewhere DEF Remember
  <1>7. CASE MarketStep
    <2>1. PICK s \in Submissions : market[s] # "absent" /\ \E state \in MarketStates \ {"absent"} :
                                       market' = [market EXCEPT ![s] = state]
      BY <1>7 DEF MarketStep, MarketMoves, MarketLocks, MarketFulfills, MarketExpires,
                  Unsettled, Becomes, MarketStates
    <2>2. UNCHANGED <<pc, obs>>
      BY <1>7 DEF MarketStep, taskVars
    <2> QED BY <1>0, <2>1, <2>2 DEF IndInv, Stages, MarketType
  <1>8. CASE Restart
    BY <1>0, <1>8 DEF Restart, IndInv, Stages
  <1>9. CASE \/ \E w \in adrift : LandAdrift(w)
             \/ \E t \in ProofTypes : Upload(t)
             \/ \E r \in Requests : QueryRead(r) \/ Age(r)
             \/ QueryCache \/ PruneTable \/ PruneMap
             \/ \E S \in SUBSET Requests : CleanupDelete(S)
             \/ CleanupForget \/ BeginRefresh \/ EndRefresh
    BY <1>1, <1>9 DEF LandAdrift, Upload, QueryRead, Age, QueryCache, PruneTable, PruneMap,
                CleanupDelete, CleanupForget, BeginRefresh, EndRefresh, EmptyMap, taskVars
  <1>10. CASE UNCHANGED vars
    BY <1>1, <1>10 DEF vars
  <1> QED BY <1>2, <1>3, <1>4, <1>5, <1>6, <1>7, <1>8, <1>9, <1>10 DEF Next, TaskStep

-----------------------------------------------------------------------------
(* Every record the step leaves behind is confirmed by the market after it. *)

\* After a step, all that was recorded before it is still confirmed.
LEMMA OldConfirmed ==
    ASSUME IndInv, [Next]_vars
    PROVE  /\ \A r \in Requests : rows[r] # Nothing => Confirmed(r, rows[r], req', market')
           /\ \A r \in Requests : memory[r] # Nothing => Confirmed(r, memory[r], req', market')
           /\ \A s \in Submissions : Confirmed(req[s], obs[s], req', market')
           /\ \A w \in adrift : Confirmed(w.req, w.entry, req', market')
           /\ query # Nothing => Confirmed(query.req, query.seen, req', market')
  <1>1. Advances(req, market, req', market')
    BY StepAdvances
  <1>2. ASSUME NEW r \in Requests
        PROVE  /\ rows[r] # Nothing => rows[r] \in Tracked
               /\ memory[r] # Nothing => memory[r] \in Tracked
    BY DEF IndInv, TypeOK
  <1>3. \A s \in Submissions : obs[s] \in Tracked
    BY DEF IndInv, TypeOK
  <1>4. \A w \in adrift : w.entry \in Tracked
    BY DEF IndInv, TypeOK, Writes
  <1>5. query # Nothing => query.seen \in Tracked
    BY DEF IndInv, TypeOK, Queries
  <1> QED BY <1>1, <1>2, <1>3, <1>4, <1>5, ConfirmedLater
          DEF IndInv, NeverAheadOfMarket, RowsConfirmed, MapConfirmed, PendingConfirmed,
              AdriftConfirmed, QueryConfirmed

\* A storage call leaves confirmed rows when what it writes is confirmed.
LEMMA StorageConfirmed ==
    ASSUME IndInv, [Next]_vars,
           \/ UNCHANGED rows
           \/ \E r \in Requests : Insert(r)
           \/ \E r \in Requests : \E new \in Tracked :
                 Update(r, new) /\ Confirmed(r, new, req', market')
           \/ \E S \in SUBSET Requests : Delete(S)
    PROVE  RowsConfirmed'
  <1>0. /\ rows \in [Requests -> Tracked \union {Nothing}]
        /\ \A r \in Requests : rows[r] # Nothing => Confirmed(r, rows[r], req', market')
    BY OldConfirmed DEF IndInv, TypeOK
  <1>1. CASE UNCHANGED rows
    BY <1>0, <1>1 DEF RowsConfirmed
  <1>2. ASSUME NEW r \in Requests, Insert(r) PROVE RowsConfirmed'
    BY <1>0, <1>2, BlankConfirmed DEF RowsConfirmed, Insert
  <1>3. ASSUME NEW r \in Requests, NEW new \in Tracked, Update(r, new),
               Confirmed(r, new, req', market')
        PROVE  RowsConfirmed'
    <2>1. rows[r] # Nothing => Confirmed(r, RecordInRow(rows[r], new), req', market')
      BY <1>0, <1>3, RecordConfirmed
    <2> QED BY <1>0, <1>3, <2>1 DEF RowsConfirmed, Update
  <1>4. ASSUME NEW S \in SUBSET Requests, Delete(S) PROVE RowsConfirmed'
    BY <1>0, <1>4 DEF RowsConfirmed, Delete
  <1> QED BY <1>1, <1>2, <1>3, <1>4

LEMMA StepRows == ASSUME IndInv, [Next]_vars PROVE RowsConfirmed'
  <1>1. ASSUME NEW s \in Submissions, Store(s) PROVE RowsConfirmed'
    <2>1. req[s] \in Requests
      BY <1>1 DEF Store, IndInv, TypeOK
    <2> QED BY <1>1, <2>1, StorageConfirmed DEF Store
  <1>2. ASSUME NEW s \in Submissions, Persist(s) PROVE RowsConfirmed'
    <2>1. req[s] \in Requests /\ obs[s] \in Tracked
      BY <1>2 DEF Persist, IndInv, TypeOK
    <2> QED BY <1>2, <2>1, OldConfirmed, StorageConfirmed DEF Persist
  <1>3. ASSUME NEW w \in adrift, LandAdrift(w) PROVE RowsConfirmed'
    <2>1. w.req \in Requests /\ w.entry \in Tracked
      BY DEF IndInv, TypeOK, Writes
    <2> QED BY <1>3, <2>1, OldConfirmed, StorageConfirmed DEF LandAdrift
  <1>4. CASE PruneTable
    BY <1>4, StorageConfirmed DEF PruneTable
  <1>5. CASE \E S \in SUBSET Requests : CleanupDelete(S)
    BY <1>5, StorageConfirmed DEF CleanupDelete
  <1>6. CASE BeginRefresh \/ Restart
    <2>1. {r \in Requests : Expirable(r)} \in SUBSET Requests
      OBVIOUS
    <2> QED BY <1>6, <2>1, StorageConfirmed DEF BeginRefresh, Restart, PurgeExpired
  <1>7. ASSUME NEW s \in Submissions, ~ Store(s), ~ Persist(s),
               TaskStep(s) \/ Disconnect(s) \/ Deadline(s)
        PROVE  UNCHANGED rows
    BY <1>7 DEF TaskStep, Disconnect, Deadline, CacheExisting, Prepare, SubmitFails,
                SubmitAccepted, Acknowledge, AcknowledgeLost, Remember, PersistFails, Forget,
                CheckMarket, storeVars
  <1>8. CASE \/ \E s \in Submissions, r \in Requests : PostNew(s, r) \/ PostExisting(s, r)
             \/ \E t \in ProofTypes : Upload(t)
             \/ \E r \in Requests : QueryRead(r) \/ Age(r)
             \/ QueryCache \/ PruneMap \/ CleanupForget \/ EndRefresh \/ MarketStep
    BY <1>8, StorageConfirmed DEF PostNew, PostExisting, Upload, QueryRead, Age, QueryCache,
          PruneMap, CleanupForget, EndRefresh, MarketStep, storeVars
  <1> QED BY <1>1, <1>2, <1>3, <1>4, <1>5, <1>6, <1>7, <1>8, StorageConfirmed DEF Next, vars

LEMMA StepMap == ASSUME IndInv, [Next]_vars PROVE MapConfirmed'
  <1>0. /\ memory \in [Requests -> Tracked \union {Nothing}]
        /\ \A r \in Requests : memory[r] # Nothing => Confirmed(r, memory[r], req', market')
    BY OldConfirmed DEF IndInv, TypeOK
  <1>1. CASE UNCHANGED memory
    BY <1>0, <1>1 DEF MapConfirmed
  <1>2. ASSUME NEW s \in Submissions, CacheExisting(s) PROVE MapConfirmed'
    <2>1. req[s] \in Requests /\ Confirmed(req[s], obs[s], req', market')
      BY <1>2, OldConfirmed DEF CacheExisting, IndInv, TypeOK
    <2> QED BY <1>0, <1>2, <2>1 DEF CacheExisting, MapConfirmed
  <1>3. ASSUME NEW s \in Submissions, Prepare(s) PROVE MapConfirmed'
    BY <1>0, <1>3, BlankConfirmed DEF Prepare, MapConfirmed
  <1>4. ASSUME NEW s \in Submissions, Remember(s) PROVE MapConfirmed'
    <2>1. req[s] \in Requests /\ obs[s] \in Tracked /\ Confirmed(req[s], obs[s], req', market')
      BY <1>4, OldConfirmed DEF Remember, IndInv, TypeOK
    <2>2. memory[req[s]] # Nothing =>
            Confirmed(req[s], RecordInMap(memory[req[s]], obs[s]), req', market')
      BY <1>0, <2>1, RecordConfirmed
    <2> QED BY <1>0, <1>4, <2>1, <2>2 DEF Remember, MapConfirmed
  <1>5. ASSUME NEW s \in Submissions, Forget(s) PROVE MapConfirmed'
    BY <1>0, <1>5 DEF Forget, MapConfirmed
  <1>6. CASE QueryCache
    BY <1>0, <1>6, OldConfirmed DEF QueryCache, MapConfirmed
  <1>7. CASE PruneMap \/ CleanupForget \/ EndRefresh \/ Restart
    BY <1>0, <1>7 DEF PruneMap, CleanupForget, EndRefresh, Restart, EmptyMap, MapConfirmed
  <1>8. ASSUME NEW s \in Submissions,
               \/ Store(s) \/ SubmitFails(s) \/ SubmitAccepted(s) \/ Acknowledge(s)
               \/ AcknowledgeLost(s) \/ Persist(s) \/ PersistFails(s) \/ CheckMarket(s)
               \/ Disconnect(s) \/ Deadline(s)
        PROVE  UNCHANGED memory
    BY <1>8 DEF Store, SubmitFails, SubmitAccepted, Acknowledge, AcknowledgeLost, Persist,
                PersistFails, CheckMarket, Disconnect, Deadline
  <1>9. CASE \/ \E s \in Submissions, r \in Requests : PostNew(s, r) \/ PostExisting(s, r)
             \/ \E w \in adrift : LandAdrift(w)
             \/ \E t \in ProofTypes : Upload(t)
             \/ \E r \in Requests : QueryRead(r) \/ Age(r)
             \/ PruneTable \/ (\E S \in SUBSET Requests : CleanupDelete(S))
             \/ BeginRefresh \/ MarketStep
    BY <1>1, <1>9 DEF PostNew, PostExisting, LandAdrift, Upload, QueryRead, Age, PruneTable,
          CleanupDelete, BeginRefresh, MarketStep
  <1> QED BY <1>1, <1>2, <1>3, <1>4, <1>5, <1>6, <1>7, <1>8, <1>9 DEF Next, TaskStep, vars

\* When one task changes what it is about to record, the others' are as before.
LEMMA PendingElsewhere ==
    ASSUME IndInv, [Next]_vars, NEW s \in Submissions,
           \A t \in Submissions \ {s} : req'[t] = req[t] /\ obs'[t] = obs[t],
           Confirmed(req'[s], obs'[s], req', market')
    PROVE  PendingConfirmed'
  BY OldConfirmed DEF PendingConfirmed

LEMMA StepPending == ASSUME IndInv, [Next]_vars PROVE PendingConfirmed'
  <1>0. /\ req \in [Submissions -> Requests \union {Nothing}] /\ obs \in [Submissions -> Tracked]
        /\ \A s \in Submissions : Confirmed(req[s], obs[s], req', market')
    BY OldConfirmed DEF IndInv, TypeOK
  <1>1. CASE UNCHANGED <<req, obs>>
    BY <1>0, <1>1 DEF PendingConfirmed
  <1>2. ASSUME NEW s \in Submissions, NEW r \in Requests, PostNew(s, r) PROVE PendingConfirmed'
    <2>1. obs'[s] = Preparing
      BY <1>2 DEF PostNew, StartHandler, IndInv, Stages
    <2> QED BY <1>0, <1>2, <2>1, BlankConfirmed, PendingElsewhere DEF PostNew, StartHandler
  <1>3. ASSUME NEW s \in Submissions, NEW r \in Requests, PostExisting(s, r)
        PROVE  PendingConfirmed'
    <2>1. req'[s] = r /\ obs'[s] = rows[r] /\ Confirmed(r, rows[r], req', market')
      BY <1>0, <1>3, OldConfirmed DEF PostExisting, StartHandler
    <2> QED BY <1>0, <1>3, <2>1, PendingElsewhere DEF PostExisting, StartHandler
  <1>4. ASSUME NEW s \in Submissions, CacheExisting(s) PROVE PendingConfirmed'
    BY <1>0, <1>4, BlankConfirmed, PendingElsewhere DEF CacheExisting
  <1>5. ASSUME NEW s \in Submissions, NEW new, NEW purpose, Record(s, new, purpose),
               Confirmed(req[s], new, req', market')
        PROVE  PendingConfirmed'
    BY <1>0, <1>5, PendingElsewhere DEF Record
  <1>6. ASSUME NEW s \in Submissions,
               Finish(s) \/ KeepPolling(s) \/ StartForgetting(s) \/ UNCHANGED <<req, obs>>
        PROVE  PendingConfirmed'
    BY <1>0, <1>1, <1>6, BlankConfirmed, PendingElsewhere DEF Finish, KeepPolling, StartForgetting
  <1>7. ASSUME NEW s \in Submissions, Acknowledge(s) PROVE PendingConfirmed'
    <2>1. market'[s] # "absent" /\ req'[s] = req[s]
      BY <1>7 DEF Acknowledge, Record, IndInv, Stages
    <2>2. Confirmed(req[s], Status("submitted", s), req', market')
      BY <2>1, NothingAssumption DEF Confirmed, Status
    <2> QED BY <1>5, <1>7, <2>2 DEF Acknowledge
  <1>8. ASSUME NEW s \in Submissions, CheckMarket(s) PROVE PendingConfirmed'
    <2>1. PICK new \in Answers(s) : Record(s, new, "poll")
      BY <1>8 DEF CheckMarket
    <2>2. UNCHANGED <<req, market>>
      BY <1>8, <2>1 DEF CheckMarket, Record
    <2>3. Confirmed(req[s], new, req', market')
      BY <2>2, AnswersConfirmed DEF IndInv, TypeOK
    <2> QED BY <1>5, <2>1, <2>3
  <1>9. ASSUME NEW s \in Submissions,
               SubmitFails(s) \/ AcknowledgeLost(s) \/ Deadline(s)
        PROVE  PendingConfirmed'
    BY <1>5, <1>9, BlankConfirmed DEF SubmitFails, AcknowledgeLost, Deadline
  <1>10. ASSUME NEW s \in Submissions, Persist(s) \/ PersistFails(s) \/ Forget(s) \/ Disconnect(s)
         PROVE  PendingConfirmed'
    BY <1>6, <1>10 DEF Persist, AfterRecording, PersistFails, Forget, Disconnect
  <1>11. CASE Restart
    BY <1>11, BlankConfirmed DEF Restart, PendingConfirmed
  <1>12. ASSUME NEW s \in Submissions,
                Prepare(s) \/ Store(s) \/ SubmitAccepted(s) \/ Remember(s)
         PROVE  UNCHANGED <<req, obs>>
    BY <1>12 DEF Prepare, Store, SubmitAccepted, Remember
  <1>13. CASE \/ \E w \in adrift : LandAdrift(w)
              \/ \E t \in ProofTypes : Upload(t)
              \/ \E r \in Requests : QueryRead(r) \/ Age(r)
              \/ QueryCache \/ PruneTable \/ PruneMap
              \/ \E S \in SUBSET Requests : CleanupDelete(S)
              \/ CleanupForget \/ BeginRefresh \/ EndRefresh \/ MarketStep
    BY <1>1, <1>13 DEF LandAdrift, Upload, QueryRead, Age, QueryCache, PruneTable, PruneMap,
          CleanupDelete, CleanupForget, BeginRefresh, EndRefresh, EmptyMap, MarketStep, taskVars
  <1> QED BY <1>1, <1>2, <1>3, <1>4, <1>7, <1>8, <1>9, <1>10, <1>11, <1>12, <1>13
          DEF Next, TaskStep, vars

LEMMA StepAdrift == ASSUME IndInv, [Next]_vars PROVE AdriftConfirmed'
  <1>0. \A w \in adrift : Confirmed(w.req, w.entry, req', market')
    BY OldConfirmed
  <1>1. CASE adrift' \subseteq adrift
    BY <1>0, <1>1 DEF AdriftConfirmed
  <1>2. ASSUME NEW w, adrift' = adrift \union {w}, Confirmed(w.req, w.entry, req', market')
        PROVE  AdriftConfirmed'
    BY <1>0, <1>2 DEF AdriftConfirmed
  <1>3. ASSUME NEW s \in Submissions, Disconnect(s) PROVE AdriftConfirmed'
    BY <1>1, <1>2, <1>3, BlankConfirmed DEF Disconnect
  <1>4. ASSUME NEW s \in Submissions, Deadline(s) PROVE AdriftConfirmed'
    BY <1>1, <1>2, <1>4, OldConfirmed DEF Deadline
  <1>5. ASSUME NEW s \in Submissions, TaskStep(s) PROVE UNCHANGED adrift
    BY <1>5 DEF TaskStep, CacheExisting, Prepare, Store, SubmitFails, SubmitAccepted,
          Acknowledge, AcknowledgeLost, Remember, Persist, PersistFails, Forget, CheckMarket,
          storeVars
  <1>6. CASE \/ \E s \in Submissions, r \in Requests : PostNew(s, r) \/ PostExisting(s, r)
             \/ \E w \in adrift : LandAdrift(w)
             \/ \E t \in ProofTypes : Upload(t)
             \/ \E r \in Requests : QueryRead(r) \/ Age(r)
             \/ QueryCache \/ PruneTable \/ PruneMap
             \/ \E S \in SUBSET Requests : CleanupDelete(S)
             \/ CleanupForget \/ BeginRefresh \/ EndRefresh \/ Restart \/ MarketStep
    BY <1>1, <1>6 DEF PostNew, PostExisting, LandAdrift, Upload, QueryRead, Age, QueryCache,
          PruneTable, PruneMap, CleanupDelete, CleanupForget, BeginRefresh, EndRefresh, Restart,
          MarketStep, storeVars
  <1> QED BY <1>1, <1>3, <1>4, <1>5, <1>6 DEF Next, vars

LEMMA StepQuery == ASSUME IndInv, [Next]_vars PROVE QueryConfirmed'
  <1>1. CASE UNCHANGED query \/ query' = Nothing
    BY <1>1, OldConfirmed DEF QueryConfirmed
  <1>2. ASSUME NEW r \in Requests, QueryRead(r) PROVE QueryConfirmed'
    BY <1>2, OldConfirmed DEF QueryRead, QueryConfirmed
  <1>3. ASSUME NEW s \in Submissions, TaskStep(s) \/ Disconnect(s) \/ Deadline(s)
        PROVE  UNCHANGED query
    BY <1>3 DEF TaskStep, CacheExisting, Prepare, Store, SubmitFails, SubmitAccepted,
          Acknowledge, AcknowledgeLost, Remember, Persist, PersistFails, Forget, CheckMarket,
          Disconnect, Deadline, readerVars
  <1>4. CASE \/ \E s \in Submissions, r \in Requests : PostNew(s, r) \/ PostExisting(s, r)
             \/ \E w \in adrift : LandAdrift(w)
             \/ \E t \in ProofTypes : Upload(t)
             \/ \E r \in Requests : Age(r)
             \/ QueryCache \/ PruneTable \/ PruneMap
             \/ \E S \in SUBSET Requests : CleanupDelete(S)
             \/ CleanupForget \/ BeginRefresh \/ EndRefresh \/ Restart \/ MarketStep
    BY <1>1, <1>4 DEF PostNew, PostExisting, LandAdrift, Upload, Age, QueryCache,
          PruneTable, PruneMap, CleanupDelete, CleanupForget, BeginRefresh, EndRefresh, Restart,
          EmptyMap, MarketStep, readerVars
  <1> QED BY <1>1, <1>2, <1>3, <1>4 DEF Next, vars

-----------------------------------------------------------------------------
\* The inductive invariant holds at the start ...
LEMMA InitIndInv == Init => IndInv
  <1> SUFFICES ASSUME Init PROVE IndInv
    OBVIOUS
  <1>1. Stages
    BY DEF Init, MarketInit, Stages
  <1>2. NeverAheadOfMarket
    BY BlankConfirmed DEF Init, NeverAheadOfMarket, RowsConfirmed, MapConfirmed,
          PendingConfirmed, AdriftConfirmed, QueryConfirmed
  <1> QED BY <1>1, <1>2, InitTyped DEF IndInv

\* ... and every step keeps it.
LEMMA NextIndInv == IndInv /\ [Next]_vars => IndInv'
  <1> SUFFICES ASSUME IndInv, [Next]_vars PROVE IndInv'
    OBVIOUS
  <1>1. TypeOK'
    BY NextTyped DEF IndInv
  <1> QED BY <1>1, StepStages, StepRows, StepMap, StepPending, StepAdrift, StepQuery
          DEF IndInv, NeverAheadOfMarket

\* However the handlers, tasks, timeouts, faults, refreshes, restarts and the
\* market interleave, no record of a request runs ahead of the market or
\* carries the market id of another request.
THEOREM NeverAhead == Spec => []NeverAheadOfMarket
  <1>1. IndInv => NeverAheadOfMarket
    BY DEF IndInv
  <1> QED BY <1>1, InitIndInv, NextIndInv, PTL DEF Spec
=============================================================================
