------------------------ MODULE ProofAgentSerialProofs ------------------------
(***************************************************************************)
(* ProofAgent implements ProofLifecycle when POSTs are handled one after   *)
(* the other and the store works: of the disturbances, only the one-hour   *)
(* deadline, market requests that outlive it, market calls that fail for   *)
(* good, and proofs that do not decode.  Any number of requests,           *)
(* submissions, queries, clean-ups and refreshes.                          *)
(*                                                                         *)
(* The argument: what a task is about to do fits the row it will do it to  *)
(* (InStep), because no other task works for the same request (OnceInv),   *)
(* and because only rows of ended requests grow old enough to be deleted   *)
(* (OldRowsEnded), since a row under way has a task that is between two    *)
(* steps (Tended).                                                         *)
(***************************************************************************)
EXTENDS ProofAgentOnceProofs

Serial == Disturbances \subseteq {"deadline", "lasting", "rpc", "decode"}

\* What the other modules prove in these circumstances.
SerialBase == IndInv /\ OnceInv /\ Tended

\* No write has lost its caller and nobody prunes.
Calm == adrift = {} /\ ~ pruning

\* The statuses that one step of a task may take a row through.
Follows(from, to) ==
    \/ from = "preparing" /\ to \in {"submitted", "failed"}
    \/ from = "submitted" /\ to \in {"submitted", "locked", "fulfilled", "failed"}
    \/ from = "locked" /\ to \in {"locked", "fulfilled", "failed"}

\* The row of a request fits what the task that works for it does next.
InStep(s) ==
    /\ pc[s] \in {"prepare", "store"} => rows[req[s]] = Nothing \/ rows[req[s]].st = "failed"
    /\ pc[s] \in {"submit", "accepted"} => rows[req[s]].st = "preparing"
    /\ pc[s] = "poll" => rows[req[s]].st \in {"submitted", "locked"}
    /\ pc[s] \in {"remember", "persist"} => Follows(rows[req[s]].st, obs[s].st)

TasksInStep == \A s \in Submissions : InStep(s)

\* Only rows of ended requests grow old.
OldRowsEnded == \A r \in stale : rows[r] # Nothing /\ Terminal(rows[r])

FollowInv == Calm /\ TasksInStep /\ OldRowsEnded

\* The circumstances include those of the properties used.
LEMMA SerialAssumes ==
    ASSUME Serial
    PROVE  OneByOne /\ ClientsStay /\ ProcessStays
  BY DEF Serial, OneByOne, PostsInTurn, WritesSucceed, PollsComplete, NobodyPrunes, TasksAreQuick,
         ClientsStay, ProcessStays

\* A task that has stored its request has its row, and is the only one at work
\* for it (batch_run, aggregate).
LEMMA TaskHasRow ==
    ASSUME SerialBase, NEW s \in Submissions, PastStore(s)
    PROVE  /\ req[s] \in Requests /\ rows[req[s]] \in Tracked /\ rows[req[s]] # Nothing
           /\ rows[req[s]].id \in {NoMarket, s}
           /\ \A t \in Submissions : Working(t) /\ t # s => req[t] # req[s]
  <1> USE Types, NothingApart DEF SerialBase, OnceInv
  <1>1. Working(s) /\ HasRow(s) /\ req[s] \in Requests
    BY DEF PastStore, WorkersHaveRows, Working
  <1>2. \A t \in Submissions : Working(t) /\ t # s => req[t] # req[s]
    BY <1>1, OnlyWorker
  <1> QED BY <1>1, <1>2 DEF HasRow

-----------------------------------------------------------------------------
(* The steps of handlers and tasks.                                        *)

\* A step that leaves the table alone and keeps the tasks in step.
LEMMA FollowElsewhere ==
    ASSUME FollowInv, UNCHANGED <<rows, stale, adrift, pruning>>, TasksInStep'
    PROVE  FollowInv'
  BY DEF FollowInv, Calm, OldRowsEnded

\* A handler goes on to a new submission only without a row under way
\* (batch_run, aggregate, prepare_async_request).
LEMMA HandlerFollows ==
    ASSUME SerialBase, FollowInv, NEW s \in Submissions, NEW r \in Requests,
           PostNew(s, r) \/ PostExisting(s, r) \/ CacheExisting(s) \/ Prepare(s)
    PROVE  FollowInv'
  <1> USE Types DEF SerialBase, OnceInv, FollowInv
  <1>1. /\ UNCHANGED <<rows, stale, adrift, pruning>>
        /\ \A t \in Submissions \ {s} : pc'[t] = pc[t] /\ obs'[t] = obs[t] /\ req'[t] = req[t]
        /\ \/ pc'[s] \in {"cache", "idle"}
           \/ pc'[s] = "prepare" /\ req'[s] = r /\ (rows[r] = Nothing \/ rows[r].st = "failed")
           \/ pc[s] = "prepare" /\ pc'[s] = "store" /\ req'[s] = req[s]
    BY DEF PostNew, PostExisting, CacheExisting, Prepare, StartHandler, Goto, storeVars, readerVars
  <1>2. TasksInStep'
    BY <1>1 DEF TasksInStep, InStep
  <1> QED BY <1>1, <1>2, FollowElsewhere

\* The row takes the place of one that no other task works for
\* (store_request).
LEMMA StoreFollows ==
    ASSUME Serial, SerialBase, FollowInv, NEW s \in Submissions, Store(s)
    PROVE  FollowInv'
  <1> USE Types DEF SerialBase, OnceInv, FollowInv
  <1>1. /\ pc[s] = "store" /\ req[s] \in Requests /\ Working(s) /\ Insert(req[s])
        /\ pc' = [pc EXCEPT ![s] = "submit"]
        /\ UNCHANGED <<adrift, req, obs, pruning>>
    BY DEF Store, Working, Goto, Serial, readerVars
  <1>2. /\ rows' = [rows EXCEPT ![req[s]] = Preparing] /\ Preparing.st = "preparing"
        /\ stale' = stale \ {req[s]}
    BY <1>1, InsertDoes, BlankEnds
  <1>3. \A t \in Submissions : Working(t) /\ t # s => req[t] # req[s]
    BY <1>1, OnlyWorker
  <1>4. TasksInStep'
    BY <1>1, <1>2, <1>3 DEF TasksInStep, InStep, Working
  <1> QED BY <1>1, <1>2, <1>4 DEF Calm, OldRowsEnded

\* What the market answers a poll is a status that the row may take: a locked
\* row is that of the polling task, whose request the market has locked
\* (check_market_status).
LEMMA AnswersFollow ==
    ASSUME SerialBase, FollowInv, NEW s \in Submissions, pc[s] = "poll", NEW new \in Answers(s)
    PROVE  Follows(rows[req[s]].st, new.st)
  <1> USE DEF SerialBase, FollowInv
  <1>1. /\ req[s] \in Requests /\ rows[req[s]] # Nothing
        /\ rows[req[s]].st \in {"submitted", "locked"} /\ rows[req[s]].id \in {NoMarket, s}
    BY TaskHasRow DEF PastStore, Working, TasksInStep, InStep
  <1>2. rows[req[s]].st = "locked" => market[s] # "open"
    BY <1>1 DEF IndInv, NeverAheadOfMarket, RowsConfirmed, Confirmed
  <1>3. \/ new = Failed
        \/ new = Status("submitted", s) /\ market[s] = "open"
        \/ new = Status(market[s], s) /\ market[s] \in {"locked", "fulfilled"}
    BY DEF Answers
  <1> QED BY <1>1, <1>2, <1>3, BlankEnds DEF Follows, Status

\* A task comes to record a status that its row may take
\* (process_and_submit_request, start_status_polling).
LEMMA RecordFollows ==
    ASSUME Serial, SerialBase, FollowInv, NEW s \in Submissions,
           \/ SubmitFails(s) \/ Acknowledge(s) \/ AcknowledgeLost(s)
           \/ CheckMarket(s) \/ Deadline(s)
    PROVE  FollowInv'
  <1> USE Types DEF SerialBase, OnceInv, FollowInv
  <1>1. UNCHANGED <<rows, stale, adrift, pruning>>
    BY DEF SubmitFails, Acknowledge, AcknowledgeLost, CheckMarket, Deadline, Serial, storeVars, readerVars
  <1>2. PICK new, purpose : Record(s, new, purpose) /\ Follows(rows[req[s]].st, new.st)
    <2>1. Failed.st = "failed" /\ Status("submitted", s).st = "submitted"
      BY DEF Failed, Status
    <2>2. CASE SubmitFails(s) \/ AcknowledgeLost(s)
      <3>1. pc[s] \in {"submit", "accepted"} /\ Record(s, Failed, "error")
        BY <2>2 DEF SubmitFails, AcknowledgeLost
      <3> QED BY <2>1, <3>1 DEF TasksInStep, InStep, Follows
    <2>3. CASE Acknowledge(s)
      <3>1. pc[s] = "accepted" /\ Record(s, Status("submitted", s), "submit")
        BY <2>3 DEF Acknowledge
      <3> QED BY <2>1, <3>1 DEF TasksInStep, InStep, Follows
    <2>4. CASE CheckMarket(s)
      <3>1. pc[s] = "poll" /\ \E new \in Answers(s) : Record(s, new, "poll")
        BY <2>4 DEF CheckMarket
      <3> QED BY <3>1, AnswersFollow
    <2>5. CASE Deadline(s)
      <3>1. pc[s] = "poll" /\ Record(s, Failed, "deadline")
        BY <2>5 DEF Deadline, Serial
      <3> QED BY <2>1, <3>1 DEF TasksInStep, InStep, Follows
    <2> QED BY <2>2, <2>3, <2>4, <2>5
  <1>3. /\ pc' = [pc EXCEPT ![s] = "remember"] /\ obs' = [obs EXCEPT ![s] = new]
        /\ UNCHANGED req
    BY <1>2 DEF Record, Goto
  <1>4. TasksInStep'
    BY <1>1, <1>2, <1>3 DEF TasksInStep, InStep
  <1> QED BY <1>1, <1>4, FollowElsewhere

\* A task goes through its submission and its writes to the map without
\* touching the table (process_and_submit_request, update_request_status).
LEMMA MapFollows ==
    ASSUME SerialBase, FollowInv, NEW s \in Submissions,
           SubmitAccepted(s) \/ Remember(s) \/ Forget(s)
    PROVE  FollowInv'
  <1> USE Types DEF SerialBase, OnceInv, FollowInv
  <1>1. /\ UNCHANGED <<rows, stale, adrift, pruning, req>>
        /\ \A t \in Submissions \ {s} : pc'[t] = pc[t] /\ obs'[t] = obs[t]
        /\ \/ pc[s] = "submit" /\ pc'[s] = "accepted"
           \/ pc[s] = "remember" /\ pc'[s] = "persist" /\ obs'[s] = obs[s]
           \/ pc'[s] = "done"
    BY DEF SubmitAccepted, Remember, Forget, Finish, Goto, storeVars, readerVars
  <1>2. TasksInStep'
    BY <1>1 DEF TasksInStep, InStep
  <1> QED BY <1>1, <1>2, FollowElsewhere

\* What Persist does to the row, and to the task that goes on polling or ends
\* (update_request_status).
LEMMA PersistDoes ==
    ASSUME SerialBase, FollowInv, NEW s \in Submissions, Persist(s)
    PROVE  /\ pc[s] = "persist" /\ req[s] \in Requests /\ rows[req[s]] \in Tracked
           /\ Follows(rows[req[s]].st, obs[s].st)
           /\ \A t \in Submissions : Working(t) /\ t # s => req[t] # req[s]
           /\ \E row \in Tracked :
                 /\ row # Nothing /\ row.st = obs[s].st
                 /\ rows' = [rows EXCEPT ![req[s]] = row]
           /\ stale' = stale \ {req[s]}
           /\ \/ Terminal(obs[s]) /\ pc' = [pc EXCEPT ![s] = "forget"]
              \/ Active(obs[s]) /\ pc' = [pc EXCEPT ![s] = "poll"]
           /\ \A t \in Submissions \ {s} : obs'[t] = obs[t]
           /\ UNCHANGED <<adrift, req, pruning>>
  <1> USE Types DEF SerialBase, OnceInv, FollowInv
  <1>1. pc[s] = "persist" /\ req[s] \in Requests /\ Follows(rows[req[s]].st, obs[s].st)
    BY DEF Persist, TasksInStep, InStep
  <1>2. /\ rows[req[s]] \in Tracked /\ rows[req[s]] # Nothing
        /\ \A t \in Submissions : Working(t) /\ t # s => req[t] # req[s]
    BY <1>1, TaskHasRow DEF PastStore, Working
  <1>3. rows' = [rows EXCEPT ![req[s]] = RecordInRow(rows[req[s]], obs[s])] /\ stale' = stale \ {req[s]}
    BY <1>1, <1>2 DEF Persist, Update
  <1>4. /\ RecordInRow(rows[req[s]], obs[s]) \in Tracked
        /\ RecordInRow(rows[req[s]], obs[s]) # Nothing
        /\ RecordInRow(rows[req[s]], obs[s]).st = obs[s].st
    BY <1>2, RecordTyped, RecordInRowEnds
  <1>5. /\ \/ Terminal(obs[s]) /\ pc' = [pc EXCEPT ![s] = "forget"]
           \/ Active(obs[s]) /\ pc' = [pc EXCEPT ![s] = "poll"]
        /\ \A t \in Submissions \ {s} : obs'[t] = obs[t]
        /\ UNCHANGED <<adrift, req, pruning>>
    BY DEF Persist, AfterRecording, StartForgetting, KeepPolling, Goto, Active, readerVars
  <1> QED BY <1>1, <1>2, <1>3, <1>4, <1>5

\* The row takes the status, and no other task works for it (update_status).
LEMMA PersistFollows ==
    ASSUME SerialBase, FollowInv, NEW s \in Submissions, Persist(s)
    PROVE  FollowInv'
  <1> USE Types, PersistDoes DEF SerialBase, OnceInv, FollowInv
  <1>1. PICK row \in Tracked :
           row # Nothing /\ row.st = obs[s].st /\ rows' = [rows EXCEPT ![req[s]] = row]
    OBVIOUS
  <1>2. ASSUME NEW t \in Submissions, t # s PROVE InStep(t)'
    BY <1>1, <1>2 DEF TasksInStep, InStep, Working
  <1>3. InStep(s)'
    BY <1>1 DEF InStep, Follows, Active, Terminal
  <1>4. OldRowsEnded' /\ Calm'
    BY <1>1 DEF Calm, OldRowsEnded
  <1> QED BY <1>2, <1>3, <1>4 DEF TasksInStep

-----------------------------------------------------------------------------
(* Time, clean-up and refresh.                                             *)

\* A row grows old only when nobody is between two steps on its request, and
\* then it is not under way.
LEMMA AgeFollows ==
    ASSUME Serial, SerialBase, FollowInv, NEW r \in Requests, Age(r)
    PROVE  FollowInv'
  <1> USE Types DEF SerialBase, OnceInv, FollowInv
  <1>1. /\ rows[r] # Nothing /\ stale' = stale \union {r}
        /\ \A s \in Submissions : pc[s] \notin {"idle", "done"} => req[s] # r
        /\ UNCHANGED <<rows, adrift, pc, req, obs, pruning>>
    BY DEF Age, Quiet, Serial, taskVars, readerVars
  <1>2. Terminal(rows[r])
    BY <1>1 DEF Tended, Working, Active
  <1> QED BY <1>1, <1>2 DEF Calm, TasksInStep, InStep, OldRowsEnded

\* What is deleted is old (delete_expired_requests,
\* delete_expired_ttl_requests).
LEMMA DeletesOld ==
    ASSUME TypeOK, BeginRefresh \/ \E S \in SUBSET Requests : CleanupDelete(S)
    PROVE  \E S \in SUBSET Requests : S \subseteq stale /\ Delete(S)
  <1> USE Types
  <1>1. ASSUME UNCHANGED <<rows, stale>> PROVE Delete({})
    BY <1>1 DEF Delete
  <1>2. {r \in Requests : Expirable(r)} \subseteq stale
    BY DEF Expirable
  <1>3. CASE BeginRefresh
    BY <1>1, <1>2, <1>3 DEF BeginRefresh, PurgeExpired
  <1>4. CASE \E S \in SUBSET Requests : CleanupDelete(S)
    BY <1>4 DEF CleanupDelete
  <1> QED BY <1>3, <1>4

\* The rows deleted have ended, so no task is waiting for them
\* (start_ttl_cleanup_task, BoundlessProver::new).
LEMMA DeleteFollows ==
    ASSUME SerialBase, FollowInv, BeginRefresh \/ \E S \in SUBSET Requests : CleanupDelete(S)
    PROVE  FollowInv'
  <1> USE Types DEF SerialBase, OnceInv, FollowInv
  <1>1. PICK S \in SUBSET Requests : S \subseteq stale /\ Delete(S)
    BY DeletesOld
  <1>2. UNCHANGED <<adrift, pc, req, obs, pruning>>
    BY DEF BeginRefresh, CleanupDelete, taskVars, readerVars
  <1>3. /\ \A r \in Requests : rows'[r] = IF r \in S THEN Nothing ELSE rows[r]
        /\ stale' = stale \ S
    BY <1>1 DEF Delete
  <1>4. ASSUME NEW s \in Submissions, PastStore(s) PROVE req[s] \in Requests \ stale
    BY <1>4 DEF WorkersHaveRows, HasRow, PastStore, Working
  <1>5. ASSUME NEW s \in Submissions PROVE InStep(s)'
    <2>1. CASE PastStore(s)
      BY <1>1, <1>2, <1>3, <1>4, <2>1 DEF TasksInStep, InStep
    <2>2. CASE ~ PastStore(s)
      BY <1>2, <1>3, <2>2 DEF TasksInStep, InStep, PastStore, Working
    <2> QED BY <2>1, <2>2
  <1> QED BY <1>2, <1>3, <1>5 DEF Calm, TasksInStep, OldRowsEnded

-----------------------------------------------------------------------------
\* Nothing is under way at the start.
LEMMA InitFollows == Init => FollowInv
  BY DEF Init, FollowInv, Calm, TasksInStep, InStep, OldRowsEnded

\* Every step of the agent, of its clients and of the market keeps it so.
LEMMA NextFollows ==
    ASSUME Serial, SerialBase, FollowInv, [Next]_vars
    PROVE  FollowInv'
  <1>1. ASSUME NEW s \in Submissions, TaskStep(s) \/ Disconnect(s) \/ Deadline(s) PROVE FollowInv'
    <2>1. ~ PersistFails(s) /\ ~ Disconnect(s)
      BY DEF Serial, PersistFails, Disconnect
    <2>2. req[s] \in Requests \/ ~ (CacheExisting(s) \/ Prepare(s))
      BY Types DEF CacheExisting, Prepare, SerialBase, OnceInv
    <2> QED BY <1>1, <2>1, <2>2, HandlerFollows, StoreFollows, RecordFollows, MapFollows, PersistFollows
            DEF TaskStep
  <1>2. ASSUME NEW s \in Submissions, NEW r \in Requests, PostNew(s, r) \/ PostExisting(s, r)
        PROVE  FollowInv'
    BY <1>2, HandlerFollows
  <1>3. (\A w \in adrift : ~ LandAdrift(w)) /\ ~ PruneTable /\ ~ PruneMap /\ ~ Restart
    BY DEF Serial, FollowInv, Calm, PruneTable, PruneMap, Restart
  <1>4. ASSUME NEW r \in Requests, Age(r) PROVE FollowInv'
    BY <1>4, AgeFollows
  <1>5. CASE BeginRefresh \/ \E S \in SUBSET Requests : CleanupDelete(S)
    BY <1>5, DeleteFollows
  <1>6. CASE EndRefresh
    BY <1>6 DEF EndRefresh, EmptyMap, storeVars, FollowInv, Calm, TasksInStep, InStep, OldRowsEnded
  <1>7. CASE \/ \E t \in ProofTypes : Upload(t)
             \/ \E r \in Requests : QueryRead(r)
             \/ QueryCache \/ CleanupForget \/ MarketStep \/ UNCHANGED vars
    <2>1. UNCHANGED <<rows, stale, adrift, pruning, pc, req, obs>>
      BY <1>7 DEF Upload, QueryRead, QueryCache, CleanupForget, MarketStep,
            vars, storeVars, taskVars, readerVars
    <2> QED BY <2>1, FollowElsewhere DEF FollowInv, TasksInStep, InStep
  <1> QED BY <1>1, <1>2, <1>3, <1>4, <1>5, <1>6, <1>7 DEF Next

\* The invariant holds at all times.
LEMMA SerialInvariant == Serial => (Spec => [](SerialBase /\ FollowInv))
  <1> SUFFICES ASSUME Serial PROVE Spec => [](SerialBase /\ FollowInv)
    OBVIOUS
  <1>1. Spec => [](IndInv /\ OnceInv)
    BY OnceInvariant, SerialAssumes
  <1>2. Spec => []Tended
    BY RowsAreTended, SerialAssumes DEF OneByOne
  <1>3. IndInv /\ OnceInv /\ Tended => SerialBase
    BY DEF SerialBase
  <1>4. SerialBase /\ FollowInv /\ [Next]_vars => FollowInv'
    BY NextFollows
  <1> QED BY <1>1, <1>2, <1>3, <1>4, InitFollows, PTL DEF Spec

-----------------------------------------------------------------------------
(* The table, seen through PhaseOf, goes through ProofLifecycle.           *)

PhaseNow == [r \in Requests |-> PhaseOf(rows[r])]

\* The phases of rows that a task is about to change or that may be deleted.
LEMMA PhaseOfStatus ==
    ASSUME NEW row \in Tracked
    PROVE  /\ row # Nothing
           /\ row.st = "preparing" => PhaseOf(row) = "preparing"
           /\ row.st = "submitted" => PhaseOf(row) = "submitted"
           /\ row.st = "locked" => PhaseOf(row) = "in_progress"
           /\ row.st = "fulfilled" => PhaseOf(row) = "completed"
           /\ row.st = "failed" => PhaseOf(row) = "failed"
  BY NothingApart DEF PhaseOf

\* A row that a task writes moves its request on, and no other
\* (store_request, update_status).
LEMMA PhaseMoves ==
    ASSUME TypeOK, NEW r \in Requests, NEW row \in Tracked, rows' = [rows EXCEPT ![r] = row]
    PROVE  PhaseNow' = [PhaseNow EXCEPT ![r] = PhaseOf(row)]
  BY Types DEF PhaseNow

\* A stored request is accepted, for the first time or after a failure
\* (store_request).
LEMMA StoreMoves ==
    ASSUME Serial, SerialBase, FollowInv, NEW s \in Submissions, Store(s)
    PROVE  Lifecycle!Accept(req[s])
  <1> USE Types DEF SerialBase, OnceInv, FollowInv
  <1>1. /\ req[s] \in Requests
        /\ rows[req[s]] = Nothing \/ rows[req[s]].st = "failed"
        /\ rows' = [rows EXCEPT ![req[s]] = Preparing]
    BY DEF Store, Insert, Serial, TasksInStep, InStep
  <1>2. PhaseOf(Preparing) = "preparing"
    BY PhaseOfStatus, BlankTyped, BlankEnds
  <1>3. PhaseOf(rows[req[s]]) \in {"none", "failed"}
    BY <1>1, PhaseOfStatus DEF PhaseOf
  <1>4. PhaseNow' = [PhaseNow EXCEPT ![req[s]] = "preparing"]
    BY <1>1, <1>2, PhaseMoves, BlankTyped
  <1> QED BY <1>1, <1>3, <1>4 DEF Lifecycle!Accept, Lifecycle!Moves, PhaseNow

\* A stored status moves its request on, or repeats where it was
\* (update_status).
LEMMA PersistMoves ==
    ASSUME SerialBase, FollowInv, NEW s \in Submissions, Persist(s)
    PROVE  \/ \E r \in Requests :
                 \/ Lifecycle!Submit(r) \/ Lifecycle!Progress(r)
                 \/ Lifecycle!Complete(r) \/ Lifecycle!Fail(r)
           \/ UNCHANGED PhaseNow
  <1> USE Types DEF SerialBase, OnceInv, FollowInv
  <1>1. PICK row \in Tracked : row.st = obs[s].st /\ rows' = [rows EXCEPT ![req[s]] = row]
    BY PersistDoes
  <1>2. req[s] \in Requests /\ rows[req[s]] \in Tracked /\ Follows(rows[req[s]].st, row.st)
    BY <1>1, PersistDoes
  <1>3. PhaseNow' = [PhaseNow EXCEPT ![req[s]] = PhaseOf(row)] /\ PhaseNow[req[s]] = PhaseOf(rows[req[s]])
    BY <1>1, <1>2, PhaseMoves DEF PhaseNow
  <1>4. \/ PhaseNow[req[s]] = "preparing" /\ PhaseOf(row) \in {"submitted", "failed"}
        \/ PhaseNow[req[s]] = "submitted" /\ PhaseOf(row) \in {"submitted", "in_progress", "completed", "failed"}
        \/ PhaseNow[req[s]] = "in_progress" /\ PhaseOf(row) \in {"in_progress", "completed", "failed"}
    BY <1>2, <1>3, PhaseOfStatus DEF Follows
  <1>5. PhaseOf(row) = PhaseNow[req[s]] => UNCHANGED PhaseNow
    BY <1>2, <1>3 DEF PhaseNow
  <1> QED BY <1>2, <1>3, <1>4, <1>5
      DEF Lifecycle!Submit, Lifecycle!Progress, Lifecycle!Complete, Lifecycle!Fail, Lifecycle!Moves,
          Lifecycle!UnderWay, PhaseNow

\* What is deleted has ended (delete_expired_requests,
\* delete_expired_ttl_requests).
LEMMA DeleteMoves ==
    ASSUME SerialBase, FollowInv, NEW S \in SUBSET Requests, S \subseteq stale, Delete(S)
    PROVE  Lifecycle!Forget(S)
  <1> USE Types DEF SerialBase, OnceInv, FollowInv
  <1>1. ASSUME NEW r \in S PROVE PhaseNow[r] \in {"completed", "failed"}
    <2>1. rows[r] \in Tracked /\ rows[r].st \in {"fulfilled", "failed"}
      BY DEF OldRowsEnded, Terminal
    <2> QED BY <2>1, PhaseOfStatus DEF PhaseNow
  <1>2. PhaseNow' = [r \in Requests |-> IF r \in S THEN "none" ELSE PhaseNow[r]]
    BY DEF Delete, PhaseNow, PhaseOf
  <1> QED BY <1>1, <1>2 DEF Lifecycle!Forget, Lifecycle!Finished, PhaseNow

\* Every step is one of the life cycle, or none.
LEMMA StepMoves ==
    ASSUME Serial, SerialBase, FollowInv, [Next]_vars
    PROVE  [Lifecycle!Next]_PhaseNow
  <1> USE Types DEF SerialBase, OnceInv, FollowInv
  <1>1. CASE UNCHANGED rows
    BY <1>1 DEF PhaseNow
  <1>2. ASSUME NEW s \in Submissions, Store(s) PROVE Lifecycle!Next
    <2>1. req[s] \in Requests
      BY <1>2 DEF Store
    <2> QED BY <1>2, <2>1, StoreMoves DEF Lifecycle!Next
  <1>3. ASSUME NEW s \in Submissions, Persist(s) PROVE [Lifecycle!Next]_PhaseNow
    BY <1>3, PersistMoves DEF Lifecycle!Next
  <1>4. ASSUME NEW S \in SUBSET Requests, CleanupDelete(S) PROVE Lifecycle!Next
    <2>1. S \subseteq stale /\ Delete(S)
      BY <1>4 DEF CleanupDelete
    <2> QED BY <2>1, DeleteMoves DEF Lifecycle!Next
  <1>5. ASSUME BeginRefresh PROVE Lifecycle!Next
    <2>1. PICK S \in SUBSET Requests : S \subseteq stale /\ Delete(S)
      BY <1>5, DeletesOld
    <2> QED BY <2>1, DeleteMoves DEF Lifecycle!Next
  <1>6. (\A w \in adrift : ~ LandAdrift(w)) /\ ~ PruneTable /\ ~ Restart
    BY DEF Serial, Calm, PruneTable, Restart
  <1>7. ASSUME NEW s \in Submissions, TaskStep(s) \/ Disconnect(s) \/ Deadline(s)
        PROVE  UNCHANGED rows \/ Store(s) \/ Persist(s)
    BY <1>7 DEF TaskStep, CacheExisting, Prepare, SubmitFails, SubmitAccepted, Acknowledge,
          AcknowledgeLost, Remember, PersistFails, Forget, CheckMarket, Disconnect, Deadline, storeVars
  <1>8. ASSUME NEW s \in Submissions, NEW r \in Requests, PostNew(s, r) \/ PostExisting(s, r)
        PROVE  UNCHANGED rows
    BY <1>8 DEF PostNew, PostExisting, storeVars
  <1>9. ASSUME \/ \E t \in ProofTypes : Upload(t)
               \/ \E r \in Requests : QueryRead(r) \/ Age(r)
               \/ QueryCache \/ PruneMap \/ CleanupForget \/ EndRefresh \/ MarketStep
        PROVE  UNCHANGED rows
    BY <1>9 DEF Upload, QueryRead, Age, QueryCache, PruneMap, CleanupForget, EndRefresh, MarketStep, storeVars
  <1>10. UNCHANGED vars => UNCHANGED rows
    BY DEF vars
  <1> QED BY <1>1, <1>2, <1>3, <1>4, <1>5, <1>6, <1>7, <1>8, <1>9, <1>10 DEF Next

\* The agent implements the life cycle of its API description, for every
\* number of requests and submissions.
THEOREM ImplementsLifecycle == Serial => (Spec => FollowsLifecycle)
  <1> SUFFICES ASSUME Serial PROVE Spec => FollowsLifecycle
    OBVIOUS
  <1>1. Init => Lifecycle!Init
    BY DEF Init, Lifecycle!Init, PhaseOf
  <1>2. SerialBase /\ FollowInv /\ [Next]_vars => [Lifecycle!Next]_PhaseNow
    BY StepMoves
  <1> QED BY <1>1, <1>2, SerialInvariant, PTL DEF Spec, FollowsLifecycle, Lifecycle!Spec, PhaseNow

=============================================================================
