----------------------------- MODULE ProofAgent -----------------------------
(***************************************************************************)
(* The request tracker of the agent: BoundlessProver (src/boundless.rs)    *)
(* over its SQLite table (src/storage.rs) and its in-memory map            *)
(* active_requests.                                                        *)
(*                                                                         *)
(* A client POSTs an (input, proof type) pair, which determines the        *)
(* request id.  batch_run / aggregate look for a row with the same input,  *)
(* and when there is none to reuse they record the request and spawn a     *)
(* task that submits it to the market and then polls the market until the  *)
(* request ends or an hour has passed.  Every await is a place where       *)
(* another task runs, so each action below is the code between two awaits  *)
(* that touch shared state; one storage call is one atomic step.           *)
(***************************************************************************)
EXTENDS BoundlessMarket

CONSTANTS
    Requests,             \* request ids: one per (input, proof type) pair
    ProofTypes,           \* {batch, aggregate}
    TypeOf,               \* [Requests -> ProofTypes]
    Disturbances,         \* which of AllDisturbances may happen
    Nothing,              \* no row, no map entry, no request
    NoMarket              \* market request id U256::ZERO

(***************************************************************************)
(* "overlap"    a POST may start while another POST is being handled       *)
(* "disconnect" a client may hang up, which drops its POST handler         *)
(* "deadline"   the one-hour polling deadline may pass                     *)
(* "cut"        it may pass while a poll is recording its result           *)
(* "lasting"    a market request may be unsettled after that hour, as the  *)
(*              timeouts of an offer may be longer (see Settings)          *)
(* "rpc"        a market call may fail for good after its retries          *)
(* "decode"     a proof that is fetched may not decode, or lack its journal *)
(* "storage"    a SQLite write may fail for good after its retries         *)
(* "prune"      the operator may call DELETE /prune                        *)
(* "slow"       a task or query may outlast the age at which rows expire   *)
(* "crash"      the process may stop and be started again                  *)
(***************************************************************************)
AllDisturbances ==
    {"overlap", "disconnect", "deadline", "cut", "lasting", "rpc", "decode",
     "storage", "prune", "slow", "crash"}

(***************************************************************************)
(* A tracked request.  Its market request id is held twice, as in          *)
(* AsyncProofRequest: inside the status, and in a field (a column of the   *)
(* table) of its own.                                                      *)
(***************************************************************************)
Statuses == {"preparing", "submitted", "locked", "fulfilled", "failed"}
MarketIds == Submissions \union {NoMarket}
Tracked == [st : Statuses, id : MarketIds, column : MarketIds]

\* A GET /status: the request it asks about and the row it has read.
Queries == [req : Requests, seen : Tracked]

\* A write of submission `by` whose caller has been dropped; the thread of the
\* connection still runs it.
Writes == [kind : {"insert", "update"}, by : Submissions, req : Requests, entry : Tracked]

ASSUME TypeOfAssumption == TypeOf \in [Requests -> ProofTypes]
ASSUME DisturbancesAssumption == Disturbances \subseteq AllDisturbances
ASSUME NothingAssumption ==
    /\ Nothing \notin Requests \union Tracked \union Queries
    /\ NoMarket \notin Submissions

VARIABLES
    rows,       \* the table boundless_requests, by request id
    stale,      \* rows whose updated_at is more than an hour ago
    adrift,     \* writes whose caller has been dropped
    memory,     \* active_requests of the prover now in AppState
    pc,         \* where each submission is: handler, then task, then poller
    req,        \* the request a submission works for
    obs,        \* the row it has read, or the status it is about to record
    why,        \* what it records a status for, see Purposes
    attached,   \* submissions that share the map `memory`
    images,     \* proof types whose ELF image is uploaded
    refreshing, \* url_ttl has passed and AppState has no new prover yet
    query,      \* a GET /status between its storage read and its map write
    pruning,    \* a DELETE /prune between the table and the map
    swept       \* ids deleted by the TTL cleanup, still to leave the map

storeVars == <<rows, stale, adrift>>
taskVars == <<pc, req, obs, why, attached>>
readerVars == <<query, pruning, swept>>
vars == <<market, rows, stale, adrift, memory, pc, req, obs, why, attached,
          images, refreshing, query, pruning, swept>>

-----------------------------------------------------------------------------
Status(st, id) == [st |-> st, id |-> id, column |-> NoMarket]
Preparing == Status("preparing", NoMarket)
Failed == Status("failed", NoMarket)

Terminal(entry) == entry.st \in {"fulfilled", "failed"}
Active(entry) == ~ Terminal(entry)

\* What update_request_status does to an entry of the map ...
RecordInMap(entry, new) ==
    [st |-> new.st, id |-> new.id,
     column |-> IF new.id = NoMarket THEN entry.column ELSE new.id]

\* Fault: a locked row is never updated again.
FaultyRecordInRow(row, new) ==
    IF row.st = "locked" THEN row
    ELSE [st |-> new.st, id |-> new.id, column |-> row.column]

\* ... and UPDATE boundless_requests SET status, ... to a row of the table.
RecordInRow(row, new) == [st |-> new.st, id |-> new.id, column |-> row.column]

(***************************************************************************)
(* The storage calls, each one SQL statement.  An update of a row that is  *)
(* not there changes nothing and succeeds.                                 *)
(***************************************************************************)
Insert(r) ==
    /\ rows' = [rows EXCEPT ![r] = Preparing]
    /\ stale' = stale \ {r}

Update(r, new) ==
    /\ rows' = [rows EXCEPT ![r] = IF @ = Nothing THEN Nothing ELSE RecordInRow(@, new)]
    /\ stale' = stale \ {r}

Delete(S) ==
    /\ rows' = [r \in Requests |-> IF r \in S THEN Nothing ELSE rows[r]]
    /\ stale' = stale \ S

(***************************************************************************)
(* A prover and its clones have one connection, whose thread takes the     *)
(* calls in turn: a call waits for the writes adrift on its connection.    *)
(* Submissions that share the map share the connection.  (Tasks of provers *)
(* replaced earlier are kept apart from each other: a call more that may   *)
(* overtake.)                                                              *)
(***************************************************************************)
ConnectionFree(s) == \A w \in adrift : w.by # s /\ (s \in attached => w.by \notin attached)

\* The connection of the current prover.
CurrentFree == \A w \in adrift : w.by \notin attached

\* Fault: the purge does not look at updated_at.
FaultyExpirable(r) == rows[r] # Nothing /\ rows[r].st # "fulfilled"

\* fulfilled rows survive delete_expired_requests, whatever their age.
Expirable(r) == r \in stale /\ rows[r] # Nothing /\ rows[r].st # "fulfilled"

-----------------------------------------------------------------------------
Purposes == {"none", "submit", "poll", "deadline", "error"}

\* idle; the POST handler; the submission task; recording a status; polling.
HandlerPcs == {"cache", "prepare", "store"}
RecordingPcs == {"remember", "persist", "forget"}
Pcs == {"idle", "submit", "accepted", "poll", "done"} \union HandlerPcs \union RecordingPcs

\* A submission that has passed the deduplication and may still act for r.
Working(s) == pc[s] \notin {"idle", "cache", "forget", "done"}

\* An hour may pass for submission s: by then its market request is settled,
\* unless market requests last longer.
HourMayPass(s) == "lasting" \in Disturbances \/ ~ Unsettled(s)

\* Nobody is between two steps on r, so time can only pass for r.
Quiet(r) ==
    \/ "slow" \in Disturbances
    \/ /\ \A s \in Submissions : pc[s] \notin {"idle", "done"} => req[s] # r
       /\ query # Nothing => query.req # r
       /\ \A w \in adrift : w.req # r

TypeOK ==
    /\ MarketType
    /\ rows \in [Requests -> Tracked \union {Nothing}]
    /\ stale \subseteq Requests
    /\ adrift \subseteq Writes
    /\ memory \in [Requests -> Tracked \union {Nothing}]
    /\ pc \in [Submissions -> Pcs]
    /\ req \in [Submissions -> Requests \union {Nothing}]
    /\ \A s \in Submissions : pc[s] # "idle" => req[s] \in Requests
    /\ obs \in [Submissions -> Tracked]
    /\ why \in [Submissions -> Purposes]
    /\ attached \subseteq Submissions
    /\ images \subseteq ProofTypes
    /\ refreshing \in BOOLEAN
    /\ query \in Queries \union {Nothing}
    /\ pruning \in BOOLEAN
    /\ swept \subseteq Requests

Init ==
    /\ MarketInit
    /\ rows = [r \in Requests |-> Nothing]
    /\ stale = {}
    /\ adrift = {}
    /\ memory = [r \in Requests |-> Nothing]
    /\ pc = [s \in Submissions |-> "idle"]
    /\ req = [s \in Submissions |-> Nothing]
    /\ obs = [s \in Submissions |-> Preparing]
    /\ why = [s \in Submissions |-> "none"]
    /\ attached = {}
    /\ images = {}
    /\ refreshing = FALSE
    /\ query = Nothing
    /\ pruning = FALSE
    /\ swept = {}

-----------------------------------------------------------------------------
(* POST /proof: batch_run and aggregate.                                   *)

Goto(s, to) == pc' = [pc EXCEPT ![s] = to]

\* The task or handler of s is over.
Finish(s) ==
    /\ Goto(s, "done")
    /\ obs' = [obs EXCEPT ![s] = Preparing]
    /\ why' = [why EXCEPT ![s] = "none"]
    /\ attached' = attached \ {s}
    /\ UNCHANGED req

\* Handlers get the prover first, and wait while it is being replaced.
HandlerMayStart ==
    /\ ~ refreshing
    /\ "overlap" \in Disturbances \/ \A t \in Submissions : pc[t] \notin HandlerPcs

StartHandler(s, r, to) ==
    /\ pc[s] = "idle"
    /\ HandlerMayStart /\ CurrentFree
    /\ Goto(s, to)
    /\ req' = [req EXCEPT ![s] = r]
    /\ attached' = attached \union {s}

\* Fault: a row in preparation is not reused.
FaultyPostNew(s, r) ==
    /\ rows[r] # Nothing => rows[r].st \in {"preparing", "failed"}
    /\ StartHandler(s, r, "prepare")
    /\ UNCHANGED <<market, storeVars, memory, obs, why, images, refreshing, readerVars>>

\* No row for this input, or a failed one: go on to a new submission.
PostNew(s, r) ==
    /\ rows[r] # Nothing => rows[r].st = "failed"
    /\ StartHandler(s, r, "prepare")
    /\ UNCHANGED <<market, storeVars, memory, obs, why, images, refreshing, readerVars>>

\* The request is under way: answer with it, after putting the row just read
\* into the map.  (A fulfilled one is answered without any change of state.)
PostExisting(s, r) ==
    /\ rows[r] # Nothing /\ Active(rows[r])
    /\ StartHandler(s, r, "cache")
    /\ obs' = [obs EXCEPT ![s] = rows[r]]
    /\ UNCHANGED <<market, storeVars, memory, why, images, refreshing, readerVars>>

\* The handler makes no submission: s is free to name a later one.
CacheExisting(s) ==
    /\ pc[s] = "cache"
    /\ memory' = IF s \in attached /\ memory[req[s]] = Nothing
                 THEN [memory EXCEPT ![req[s]] = obs[s]] ELSE memory
    /\ Goto(s, "idle")
    /\ req' = [req EXCEPT ![s] = Nothing]
    /\ obs' = [obs EXCEPT ![s] = Preparing]
    /\ attached' = attached \ {s}
    /\ UNCHANGED <<market, storeVars, why, images, refreshing, readerVars>>

\* prepare_async_request, first the map ...
Prepare(s) ==
    /\ pc[s] = "prepare"
    /\ memory' = IF s \in attached THEN [memory EXCEPT ![req[s]] = Preparing] ELSE memory
    /\ Goto(s, "store")
    /\ UNCHANGED <<market, storeVars, req, obs, why, attached, images, refreshing, readerVars>>

\* ... then INSERT OR REPLACE; when it fails the request goes on without a row.
Store(s) ==
    /\ pc[s] = "store" /\ ConnectionFree(s)
    /\ \/ Insert(req[s])
       \/ "storage" \in Disturbances /\ UNCHANGED <<rows, stale>>
    /\ Goto(s, "submit")
    /\ UNCHANGED <<market, adrift, memory, req, obs, why, attached, images, refreshing, readerVars>>

\* The client hangs up and the handler's future is dropped at its await.  An
\* INSERT already handed to the connection's thread goes ahead without it; one
\* whose handler slept before its next attempt does not.
Disconnect(s) ==
    /\ "disconnect" \in Disturbances
    /\ \/ /\ pc[s] \in HandlerPcs
          /\ Finish(s)
          /\ UNCHANGED adrift
       \/ /\ pc[s] = "store"
          /\ adrift' = adrift \union
                {[kind |-> "insert", by |-> s, req |-> req[s], entry |-> Preparing]}
          /\ Goto(s, "done")
          /\ UNCHANGED <<req, obs, why, attached>>
    /\ UNCHANGED <<market, rows, stale, memory, images, refreshing, readerVars>>

\* The thread runs a write without its caller.
LandAdrift(w) ==
    /\ IF w.kind = "insert" THEN Insert(w.req) ELSE Update(w.req, w.entry)
    /\ adrift' = adrift \ {w}
    /\ attached' = IF pc[w.by] = "done" THEN attached \ {w.by} ELSE attached
    /\ UNCHANGED <<market, memory, pc, req, obs, why, images, refreshing, readerVars>>

-----------------------------------------------------------------------------
(* The spawned task: process_and_submit_request.                           *)

\* The task of s starts to record a status.
Record(s, new, purpose) ==
    /\ Goto(s, "remember")
    /\ obs' = [obs EXCEPT ![s] = new]
    /\ why' = [why EXCEPT ![s] = purpose]
    /\ UNCHANGED <<req, attached>>

\* Fault: the error of submit_request_async is ignored.
FaultySubmitFails(s) ==
    /\ pc[s] = "submit"
    /\ Record(s, Status("submitted", s), "submit")
    /\ UNCHANGED <<market, storeVars, memory, images, refreshing, readerVars>>

\* No image, or one of: client, guest environment, input upload, request
\* build, or the submission itself fails with nothing created on the market.
SubmitFails(s) ==
    /\ pc[s] = "submit"
    /\ Record(s, Failed, "error")
    /\ UNCHANGED <<market, storeVars, memory, images, refreshing, readerVars>>

\* The market has the request; the agent does not know it yet.
SubmitAccepted(s) ==
    /\ pc[s] = "submit"
    /\ TypeOf[req[s]] \in images
    /\ MarketAccepts(s)
    /\ Goto(s, "accepted")
    /\ UNCHANGED <<storeVars, memory, req, obs, why, attached, images, refreshing, readerVars>>

Acknowledge(s) ==
    /\ pc[s] = "accepted"
    /\ Record(s, Status("submitted", s), "submit")
    /\ UNCHANGED <<market, storeVars, memory, images, refreshing, readerVars>>

\* The answer is lost until the retries are used up.
AcknowledgeLost(s) ==
    /\ "rpc" \in Disturbances
    /\ pc[s] = "accepted"
    /\ Record(s, Failed, "error")
    /\ UNCHANGED <<market, storeVars, memory, images, refreshing, readerVars>>

-----------------------------------------------------------------------------
(* update_request_status: the map, the table, and the map again for a      *)
(* terminal status.  process_and_submit_request has the first two inline.  *)

Remember(s) ==
    /\ pc[s] = "remember"
    /\ memory' = IF s \in attached /\ memory[req[s]] # Nothing
                 THEN [memory EXCEPT ![req[s]] = RecordInMap(@, obs[s])] ELSE memory
    /\ Goto(s, "persist")
    /\ UNCHANGED <<market, storeVars, req, obs, why, attached, images, refreshing, readerVars>>

\* The next poll, ten seconds later.
KeepPolling(s) ==
    /\ Goto(s, "poll")
    /\ obs' = [obs EXCEPT ![s] = Preparing]
    /\ why' = [why EXCEPT ![s] = "none"]
    /\ UNCHANGED <<req, attached>>

\* A terminal status is taken out of the map before the task ends.
StartForgetting(s) == Goto(s, "forget") /\ UNCHANGED <<req, obs, why, attached>>

\* Fault: polling stops at the first lock.
FaultyAfterRecording(s) ==
    IF obs[s].st \in {"locked", "fulfilled", "failed"} THEN StartForgetting(s) ELSE KeepPolling(s)

AfterRecording(s) == IF Terminal(obs[s]) THEN StartForgetting(s) ELSE KeepPolling(s)

Persist(s) ==
    /\ pc[s] = "persist" /\ ConnectionFree(s)
    /\ Update(req[s], obs[s])
    /\ AfterRecording(s)
    /\ UNCHANGED <<market, adrift, memory, images, refreshing, readerVars>>

\* update_status returns an error: a poller only logs it, whatever the status.
PersistFails(s) ==
    /\ "storage" \in Disturbances
    /\ pc[s] = "persist" /\ ConnectionFree(s)
    /\ \/ why[s] = "deadline" /\ StartForgetting(s)
       \/ why[s] # "deadline" /\ Terminal(obs[s]) /\ Finish(s)
       \/ why[s] # "deadline" /\ Active(obs[s]) /\ KeepPolling(s)
    /\ UNCHANGED <<market, storeVars, memory, images, refreshing, readerVars>>

\* Fault: the terminal entry stays in the map.
FaultyForget(s) ==
    /\ pc[s] = "forget"
    /\ Finish(s)
    /\ UNCHANGED <<market, storeVars, memory, images, refreshing, readerVars>>

Forget(s) ==
    /\ pc[s] = "forget"
    /\ memory' = IF s \in attached THEN [memory EXCEPT ![req[s]] = Nothing] ELSE memory
    /\ Finish(s)
    /\ UNCHANGED <<market, storeVars, images, refreshing, readerVars>>

-----------------------------------------------------------------------------
(* start_status_polling, check_market_status.                              *)

\* Fault: the state of the market stored as it is.
FaultyAnswersVerbatim(s) == {Status(market[s], s)}

\* Fault: a locked request counts as lost.
FaultyAnswersNoLock(s) ==
    {IF market[s] = "open" THEN Status("submitted", s)
     ELSE IF market[s] = "fulfilled" THEN Status("fulfilled", s) ELSE Failed}

\* What one check of the market can return.  When get_status, or the fetch of
\* the proof of a fulfilled request, still fails after its retries, the
\* answer is Failed; so it is when the proof then makes no sense.  (When no
\* client can be built the poll changes nothing.)
Answers(s) ==
    {new \in {Status("submitted", s)} : market[s] = "open"}
    \union {new \in {Status(market[s], s)} : market[s] \in {"locked", "fulfilled"}}
    \union {new \in {Failed} :
               \/ market[s] = "expired"
               \/ "rpc" \in Disturbances
               \/ market[s] = "fulfilled" /\ "decode" \in Disturbances}

CheckMarket(s) ==
    /\ pc[s] = "poll"
    /\ \E new \in Answers(s) : Record(s, new, "poll")
    /\ UNCHANGED <<market, storeVars, memory, images, refreshing, readerVars>>

\* timeout(3600 s) drops the polling future at its await and handles the
\* timeout.  With a write under way, its thread may still carry it out.
Deadline(s) ==
    /\ HourMayPass(s)
    /\ \/ /\ "deadline" \in Disturbances
          /\ pc[s] = "poll"
          /\ UNCHANGED adrift
       \/ /\ "cut" \in Disturbances
          /\ pc[s] \in RecordingPcs /\ why[s] = "poll"
          /\ \/ UNCHANGED adrift
             \/ /\ pc[s] = "persist"
                /\ adrift' = adrift \union
                      {[kind |-> "update", by |-> s, req |-> req[s], entry |-> obs[s]]}
    /\ Record(s, Failed, "deadline")
    /\ UNCHANGED <<market, rows, stale, memory, images, refreshing, readerVars>>

-----------------------------------------------------------------------------
(* POST /upload-image, GET /status, DELETE /prune.                         *)

Upload(t) ==
    /\ ~ refreshing
    /\ images' = images \union {t}
    /\ UNCHANGED <<market, storeVars, memory, taskVars, refreshing, readerVars>>

\* get_request_status reads the table (and only then the map: no change).
QueryRead(r) ==
    /\ ~ refreshing /\ CurrentFree /\ query = Nothing
    /\ rows[r] # Nothing
    /\ query' = [req |-> r, seen |-> rows[r]]
    /\ UNCHANGED <<market, storeVars, memory, taskVars, images, refreshing, pruning, swept>>

QueryCache ==
    /\ query # Nothing
    /\ memory' = [memory EXCEPT ![query.req] =
                     IF Terminal(query.seen) THEN Nothing ELSE query.seen]
    /\ query' = Nothing
    /\ UNCHANGED <<market, storeVars, taskVars, images, refreshing, pruning, swept>>

\* delete_all_requests: the table ...
PruneTable ==
    /\ "prune" \in Disturbances
    /\ ~ refreshing /\ CurrentFree /\ ~ pruning
    /\ Delete(Requests)
    /\ pruning' = TRUE
    /\ UNCHANGED <<market, adrift, memory, taskVars, images, refreshing, query, swept>>

\* ... then the map.
PruneMap ==
    /\ pruning
    /\ memory' = [r \in Requests |-> Nothing]
    /\ pruning' = FALSE
    /\ UNCHANGED <<market, storeVars, taskVars, images, refreshing, query, swept>>

-----------------------------------------------------------------------------
(* Time, the TTL cleanup task, prover refresh and restart.                 *)

Age(r) ==
    /\ rows[r] # Nothing
    /\ Quiet(r)
    /\ \A s \in Submissions : req[s] = r => HourMayPass(s)
    /\ stale' = stale \union {r}
    /\ UNCHANGED <<market, rows, adrift, memory, taskVars, images, refreshing, readerVars>>

\* delete_expired_ttl_requests removes terminal rows older than twelve hours ...
CleanupDelete(S) ==
    /\ CurrentFree /\ swept = {} /\ S # {}
    /\ \A r \in S : r \in stale /\ Terminal(rows[r])
    /\ Delete(S)
    /\ swept' = S
    /\ UNCHANGED <<market, adrift, memory, taskVars, images, refreshing, query, pruning>>

\* Fault: the clean-up leaves the map alone.
FaultyCleanupForget ==
    /\ swept # {}
    /\ swept' = {}
    /\ UNCHANGED <<market, storeVars, memory, taskVars, images, refreshing, query, pruning>>

\* ... and then the cleanup task removes them from the map.
CleanupForget ==
    /\ swept # {}
    /\ memory' = [r \in Requests |-> IF r \in swept THEN Nothing ELSE memory[r]]
    /\ swept' = {}
    /\ UNCHANGED <<market, storeVars, taskVars, images, refreshing, query, pruning>>

\* delete_expired_requests; an error is logged and ignored.
PurgeExpired ==
    \/ Delete({r \in Requests : Expirable(r)})
    \/ UNCHANGED <<rows, stale>>

\* get_or_refresh_prover finds url_ttl exceeded: BoundlessProver::new purges
\* the table first.  When it fails later on, the next caller starts again.
BeginRefresh ==
    /\ PurgeExpired
    /\ refreshing' = TRUE
    /\ UNCHANGED <<market, adrift, memory, taskVars, images, readerVars>>

\* The new prover has an empty map of its own; tasks and handlers of the old
\* one keep the old map, and the old cleanup task is aborted.
EmptyMap ==
    /\ memory' = [r \in Requests |-> Nothing]
    /\ attached' = {}
    /\ refreshing' = FALSE
    /\ query' = Nothing
    /\ pruning' = FALSE
    /\ swept' = {}

EndRefresh ==
    /\ refreshing
    /\ EmptyMap
    /\ UNCHANGED <<market, storeVars, pc, req, obs, why, images>>

\* The process stops anywhere and starts again: only the table survives, and
\* nothing resumes the polling of the requests in it.
Restart ==
    /\ "crash" \in Disturbances
    /\ PurgeExpired
    /\ EmptyMap
    /\ adrift' = {}
    /\ pc' = [s \in Submissions |-> IF pc[s] = "idle" THEN "idle" ELSE "done"]
    /\ obs' = [s \in Submissions |-> Preparing]
    /\ why' = [s \in Submissions |-> "none"]
    /\ images' = {}
    /\ UNCHANGED <<market, req>>

MarketStep ==
    /\ \E s \in Submissions : MarketMoves(s)
    /\ UNCHANGED <<storeVars, memory, taskVars, images, refreshing, readerVars>>

-----------------------------------------------------------------------------
TaskStep(s) ==
    \/ CacheExisting(s) \/ Prepare(s) \/ Store(s)
    \/ SubmitFails(s) \/ SubmitAccepted(s) \/ Acknowledge(s) \/ AcknowledgeLost(s)
    \/ Remember(s) \/ Persist(s) \/ PersistFails(s) \/ Forget(s)
    \/ CheckMarket(s)

Next ==
    \/ \E s \in Submissions : TaskStep(s) \/ Disconnect(s) \/ Deadline(s)
    \/ \E s \in Submissions, r \in Requests : PostNew(s, r) \/ PostExisting(s, r)
    \/ \E w \in adrift : LandAdrift(w)
    \/ \E t \in ProofTypes : Upload(t)
    \/ \E r \in Requests : QueryRead(r) \/ Age(r)
    \/ QueryCache \/ PruneTable \/ PruneMap
    \/ \E S \in SUBSET Requests : CleanupDelete(S)
    \/ CleanupForget \/ BeginRefresh \/ EndRefresh \/ Restart
    \/ MarketStep

Spec == Init /\ [][Next]_vars

(***************************************************************************)
(* tokio runs every ready task, a connection's thread every call it was    *)
(* handed, and every retry loop and market call returns.  The deadline of  *)
(* a poller that goes on polling stays elapsed from one poll to the next,  *)
(* so it is taken: strong fairness.  Nothing is assumed of clients,        *)
(* provers, refreshes or the clean-up.                                     *)
(***************************************************************************)
FairSpec ==
    /\ Spec
    /\ \A s \in Submissions : WF_vars(TaskStep(s)) /\ SF_vars(Deadline(s))
    /\ WF_vars(\E w \in adrift : LandAdrift(w))

-----------------------------------------------------------------------------
(* What can be relied on.                                                  *)

\* An entry for request r names a market request made for r, and says no more
\* of it than the market has done, given owner and state of market requests.
Confirmed(r, entry, owner, state) ==
    /\ \A m \in {entry.id, entry.column} \ {NoMarket} : owner[m] = r /\ state[m] # "absent"
    /\ entry.st \in {"submitted", "locked", "fulfilled"} => entry.id # NoMarket
    /\ entry.st = "locked" => state[entry.id] \in {"locked", "fulfilled", "expired"}
    /\ entry.st = "fulfilled" => state[entry.id] = "fulfilled"

RowsConfirmed ==
    \A r \in Requests : rows[r] # Nothing => Confirmed(r, rows[r], req, market)
MapConfirmed ==
    \A r \in Requests : memory[r] # Nothing => Confirmed(r, memory[r], req, market)
PendingConfirmed ==
    \A s \in Submissions : Confirmed(req[s], obs[s], req, market)
AdriftConfirmed ==
    \A w \in adrift : Confirmed(w.req, w.entry, req, market)
QueryConfirmed ==
    query # Nothing => Confirmed(query.req, query.seen, req, market)

(***************************************************************************)
(* No record of a request runs ahead of the market or carries another      *)
(* request's market id: not a row, not an entry of the map, not a status   *)
(* some task, query or dropped write is still about to store, whatever     *)
(* overtakes whatever (update_request_status, get_request_status).         *)
(***************************************************************************)
NeverAheadOfMarket ==
    RowsConfirmed /\ MapConfirmed /\ PendingConfirmed /\ AdriftConfirmed /\ QueryConfirmed

(***************************************************************************)
(* Deduplication: at most one submission works for a request at a time     *)
(* (batch_run and aggregate look for a row before they create one).        *)
(***************************************************************************)
OneWorkingSubmission ==
    \A s, t \in Submissions :
        Working(s) /\ Working(t) /\ req[s] = req[t] => s = t

(***************************************************************************)
(* A row that says the request is under way has a task behind it, and once *)
(* it names a market request, the very task that polls that request        *)
(* (start_status_polling is called once, by the submission).               *)
(***************************************************************************)
Tended ==
    \A r \in Requests :
        rows[r] # Nothing /\ Active(rows[r]) =>
            \E s \in Submissions :
                Working(s) /\ req[s] = r /\ rows[r].id \in {NoMarket, s}

(***************************************************************************)
(* Every request that needs status polling, submitted or locked, has the   *)
(* task that polls its market request (get_pending_requests lists them).   *)
(***************************************************************************)
PendingIsPolled ==
    \A r \in Requests :
        rows[r] # Nothing /\ rows[r].st \in {"submitted", "locked"} =>
            \E s \in Submissions : Working(s) /\ req[s] = r /\ rows[r].id = s

(***************************************************************************)
(* The other way round, no task works unseen: from its insert on, the row  *)
(* of its request is there and under way, and names no other submission.   *)
(* So GET /status finds it, whatever a retry has lost from the map, and a  *)
(* POST reuses it (get_request_status, batch_run, aggregate; the purges    *)
(* delete_expired_requests and delete_expired_ttl_requests leave it).      *)
(***************************************************************************)
WorkIsOnRecord ==
    \A s \in Submissions :
        Working(s) /\ pc[s] \notin {"prepare", "store"} =>
            /\ rows[req[s]] # Nothing /\ Active(rows[req[s]])
            /\ rows[req[s]].id \in {NoMarket, s}

(***************************************************************************)
(* A terminal entry is in the map only while the task that put it there is *)
(* about to remove it (update_request_status, "Drop terminal entries from  *)
(* memory to avoid unbounded growth").                                     *)
(***************************************************************************)
TerminalLeavesMap ==
    \A r \in Requests :
        memory[r] # Nothing /\ Terminal(memory[r]) =>
            \E s \in attached : req[s] = r /\ pc[s] \in {"persist", "forget"}

(***************************************************************************)
(* The map answers for a request without a row only while a step that ends *)
(* with the row stored or the entry removed is under way                   *)
(* (get_request_status falls back to the map when there is no row).        *)
(***************************************************************************)
NoGhosts ==
    \A r \in Requests :
        rows[r] = Nothing /\ memory[r] # Nothing =>
            \/ refreshing \/ pruning \/ r \in swept
            \/ \E s \in attached : req[s] = r /\ pc[s] = "store"

(***************************************************************************)
(* The agent never has two market requests for one input that can both     *)
(* still be charged, and none once it holds the proof.                     *)
(***************************************************************************)
PaysOnce ==
    \A s \in Submissions :
        Unsettled(s) =>
            /\ rows[req[s]] # Nothing => rows[req[s]].st # "fulfilled"
            /\ \A t \in Submissions : Unsettled(t) /\ req[t] = req[s] => t = s

(***************************************************************************)
(* The agent gives up nothing that it may still have to pay for: the row   *)
(* of a market request that can be charged says that it is under way       *)
(* (process_and_submit_request after a submission that failed,             *)
(* check_market_status, handle_polling_timeout, the purges).               *)
(***************************************************************************)
ChargeableIsUnderWay ==
    \A s \in Submissions :
        Unsettled(s) => rows[req[s]] # Nothing /\ Active(rows[req[s]])

(***************************************************************************)
(* A request whose market request has been fulfilled is not recorded as    *)
(* failed: its proof has been paid for (check_market_status turns a status *)
(* or a proof it cannot fetch into Failed, poll_market_status stores it).  *)
(***************************************************************************)
RecordedFailed(r) ==
    /\ rows[r] # Nothing /\ Active(rows[r])
    /\ rows'[r] # Nothing /\ rows'[r].st = "failed"

DeliveredNeverFails ==
    [][\A r \in Requests :
          RecordedFailed(r) /\ rows[r].id # NoMarket => market[rows[r].id] # "fulfilled"]_vars

(***************************************************************************)
(* Seen from the table alone, a request goes through the life cycle of the *)
(* API description; see ProofLifecycle.                                    *)
(***************************************************************************)
PhaseOf(row) ==
    IF row = Nothing THEN "none"
    ELSE CASE row.st = "locked" -> "in_progress"
           [] row.st = "fulfilled" -> "completed"
           [] OTHER -> row.st

Lifecycle == INSTANCE ProofLifecycle WITH phase <- [r \in Requests |-> PhaseOf(rows[r])]

FollowsLifecycle == Lifecycle!Spec

(***************************************************************************)
(* Every request that is under way ends, because its task reaches an       *)
(* answer or its deadline (start_status_polling, handle_polling_timeout).  *)
(***************************************************************************)
EveryRequestEnds ==
    \A r \in Requests :
        (rows[r] # Nothing /\ Active(rows[r])) ~> (rows[r] = Nothing \/ Terminal(rows[r]))

(***************************************************************************)
(* A proof the market delivers while a task polls for it gets to the table *)
(* (poll_market_status).                                                   *)
(***************************************************************************)
ProofIsStored ==
    \A s \in Submissions, r \in Requests :
        (pc[s] = "poll" /\ req[s] = r /\ market[s] = "fulfilled")
            ~> (rows[r] # Nothing /\ rows[r].st = "fulfilled")
=============================================================================
