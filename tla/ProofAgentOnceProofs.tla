------------------------ MODULE ProofAgentOnceProofs ------------------------
(***************************************************************************)
(* Proofs about ProofAgent when nothing blurs which submission works for a *)
(* request: POSTs are handled in turn, writes succeed, no poll is cut      *)
(* short while it records its result, nobody prunes, and tasks are quick.  *)
(* Clients may hang up, polls may reach their deadline, market calls may   *)
(* fail, proofs may not decode, and the process may restart, unless a      *)
(* theorem says otherwise.                                                 *)
(***************************************************************************)
EXTENDS ProofAgentTaskProofs

PostsInTurn == "overlap" \notin Disturbances
MarketAnswers == "rpc" \notin Disturbances
ProofsDecode == "decode" \notin Disturbances
HourSuffices == "lasting" \notin Disturbances
NoDeadline == "deadline" \notin Disturbances

\* A market request is settled within the hour, or its task outlives it.
NoneLeftBehind == HourSuffices \/ (NoDeadline /\ ProcessStays)

OneByOne == PostsInTurn /\ WritesSucceed /\ PollsComplete /\ NobodyPrunes /\ TasksAreQuick

-----------------------------------------------------------------------------
(* At most one submission works for a request.                             *)

\* A submission whose request has been stored.
PastStore(s) == Working(s) /\ pc[s] \notin {"prepare", "store"}

\* Its row is there, under way, not old, and names no other submission.
HasRow(s) ==
    /\ rows[req[s]] # Nothing /\ Active(rows[req[s]])
    /\ rows[req[s]].id \in {NoMarket, s}
    /\ req[s] \notin stale

WorkersHaveRows == \A s \in Submissions : PastStore(s) => HasRow(s)

\* The writes that have lost their caller are those of handlers.
OnlyInserts == \A w \in adrift : w.kind = "insert"

OnceInv ==
    /\ TypeOK /\ Stages
    /\ OneWorkingSubmission
    /\ WorkersHaveRows
    /\ OwnMarketId
    /\ OnlyInserts

\* A step after which no more submissions work, for no other requests, and
\* that leaves their rows alone.
LEMMA OnceElsewhere ==
    ASSUME OnceInv, TypeOK', Stages',
           \A s \in Submissions : Working(s)' => Working(s) /\ req'[s] = req[s],
           \A s \in Submissions : PastStore(s)' => PastStore(s),
           \A s \in Submissions : PastStore(s) =>
               rows'[req[s]] = rows[req[s]] /\ (req[s] \in stale' => req[s] \in stale),
           OwnMarketId', OnlyInserts'
    PROVE  OnceInv'
  BY DEF OnceInv, OneWorkingSubmission, WorkersHaveRows, HasRow, PastStore

\* No other task works for the request of a working task (batch_run,
\* aggregate).
LEMMA OnlyWorker ==
    ASSUME OnceInv, NEW s \in Submissions, Working(s), NEW t \in Submissions, t # s, Working(t)
    PROVE  req[t] # req[s]
  BY DEF OnceInv, OneWorkingSubmission

\* A POST that goes on to a new submission finds nobody working for its
\* request: the task of a stored one would have a row under way, and no other
\* handler is between its look-up and its insert (batch_run, aggregate).
LEMMA NobodyWorks ==
    ASSUME PostsInTurn, OnceInv, NEW s \in Submissions, NEW r \in Requests, PostNew(s, r),
           NEW t \in Submissions, Working(t)
    PROVE  req[t] # r
  <1>1. /\ pc[t] \notin {"prepare", "store"}
        /\ rows[r] # Nothing => rows[r].st = "failed"
    BY DEF PostNew, StartHandler, HandlerMayStart, HandlerPcs, PostsInTurn
  <1> QED BY <1>1 DEF OnceInv, WorkersHaveRows, HasRow, PastStore, Active, Terminal

\* Handlers come, go and are dropped (batch_run, aggregate,
\* prepare_async_request).
LEMMA HandlerOnce ==
    ASSUME PostsInTurn, WritesSucceed, OnceInv, TypeOK', Stages',
           NEW s \in Submissions, NEW r \in Requests,
           \/ PostNew(s, r) \/ PostExisting(s, r) \/ CacheExisting(s)
           \/ Prepare(s) \/ Store(s) \/ Disconnect(s)
    PROVE  OnceInv'
  <1> USE Types DEF OnceInv
  <1>1. CASE PostNew(s, r)
    <2>1. /\ pc[s] = "idle" /\ pc' = [pc EXCEPT ![s] = "prepare"] /\ req' = [req EXCEPT ![s] = r]
          /\ obs[s] = Preparing
          /\ UNCHANGED <<rows, stale, adrift, obs>>
      BY <1>1 DEF PostNew, StartHandler, Goto, storeVars, Stages
    <2>2. \A t \in Submissions : Working(t) => req[t] # r
      BY <1>1, NobodyWorks
    <2>3. OneWorkingSubmission'
      BY <2>1, <2>2 DEF OneWorkingSubmission, Working
    <2>4. WorkersHaveRows'
      BY <2>1 DEF WorkersHaveRows, HasRow, PastStore, Working
    <2>5. OwnMarketId' /\ OnlyInserts'
      BY <2>1, BlankEnds DEF OwnMarketId, OnlyInserts
    <2> QED BY <2>3, <2>4, <2>5
  <1>2. CASE PostExisting(s, r) \/ CacheExisting(s)
    <2>1. /\ pc[s] \in {"idle", "cache"} /\ pc'[s] \in {"idle", "cache"}
          /\ pc'[s] = "idle" => obs'[s] = Preparing
          /\ \A t \in Submissions \ {s} : pc'[t] = pc[t] /\ req'[t] = req[t] /\ obs'[t] = obs[t]
          /\ UNCHANGED <<rows, stale, adrift>>
      BY <1>2 DEF PostExisting, CacheExisting, StartHandler, Goto, storeVars
    <2>2. OwnMarketId' /\ OnlyInserts'
      BY <2>1, BlankEnds DEF OwnMarketId, OnlyInserts
    <2> QED BY <2>1, <2>2, OnceElsewhere DEF PastStore, Working
  <1>3. CASE Prepare(s)
    <2>1. /\ pc[s] = "prepare" /\ pc' = [pc EXCEPT ![s] = "store"]
          /\ UNCHANGED <<rows, stale, adrift, req, obs>>
      BY <1>3 DEF Prepare, Goto, storeVars
    <2>2. OwnMarketId' /\ OnlyInserts'
      BY <2>1 DEF OwnMarketId, OnlyInserts
    <2> QED BY <2>1, <2>2, OnceElsewhere DEF PastStore, Working
  <1>4. CASE Store(s)
    <2>1. /\ pc[s] = "store" /\ req[s] \in Requests /\ Insert(req[s])
          /\ pc' = [pc EXCEPT ![s] = "submit"] /\ UNCHANGED <<adrift, req, obs>>
      BY <1>4 DEF Store, Goto, WritesSucceed
    <2>2. /\ rows'[req[s]] # Nothing /\ Active(rows'[req[s]]) /\ rows'[req[s]].id = NoMarket
          /\ \A q \in Requests \ {req[s]} : rows'[q] = rows[q]
          /\ stale' = stale \ {req[s]}
      BY <2>1, InsertDoes
    <2>3. \A t \in Submissions : Working(t) /\ t # s => req[t] # req[s]
      <3>1. Working(s)
        BY <2>1 DEF Working
      <3> QED BY <3>1, OnlyWorker
    <2>4. OneWorkingSubmission' /\ OwnMarketId' /\ OnlyInserts'
      BY <2>1 DEF OneWorkingSubmission, Working, OwnMarketId, OnlyInserts
    <2>5. WorkersHaveRows'
      BY <2>1, <2>2, <2>3 DEF WorkersHaveRows, HasRow, PastStore, Working
    <2> QED BY <2>4, <2>5
  <1>5. CASE Disconnect(s)
    <2>1. /\ pc' = [pc EXCEPT ![s] = "done"] /\ UNCHANGED <<rows, stale, req>>
          /\ obs' = obs \/ obs' = [obs EXCEPT ![s] = Preparing]
          /\ pc[s] \in HandlerPcs
          /\ pc[s] = "cache" => obs' = [obs EXCEPT ![s] = Preparing]
          /\ \A w \in adrift' : w \in adrift \/ w.kind = "insert"
      BY <1>5 DEF Disconnect, Finish, Goto, HandlerPcs
    <2>2. OwnMarketId' /\ OnlyInserts'
      BY <2>1, BlankEnds DEF OwnMarketId, OnlyInserts
    <2> QED BY <2>1, <2>2, OnceElsewhere DEF PastStore, Working
  <1> QED BY <1>1, <1>2, <1>3, <1>4, <1>5

\* A task records its own market request (process_and_submit_request,
\* check_market_status).
LEMMA RecordsOwn ==
    ASSUME TypeOK, OwnMarketId, NEW s \in Submissions,
           \/ SubmitFails(s) \/ Acknowledge(s) \/ AcknowledgeLost(s)
           \/ CheckMarket(s) \/ Deadline(s)
    PROVE  OwnMarketId'
  <1> USE Types
  <1>1. Failed.id = NoMarket /\ Status("submitted", s).id = s /\ Status(market[s], s).id = s
    BY DEF Failed, Status
  <1>2. \A new \in Answers(s) : new.id \in {NoMarket, s}
    BY <1>1 DEF Answers
  <1>3. PICK new \in {Failed, Status("submitted", s)} \union Answers(s),
             purpose \in {"submit", "error", "poll", "deadline"} : Record(s, new, purpose)
    BY DEF SubmitFails, Acknowledge, AcknowledgeLost, CheckMarket, Deadline
  <1>4. obs' = [obs EXCEPT ![s] = new] /\ pc' = [pc EXCEPT ![s] = "remember"]
    BY <1>3 DEF Record, Goto
  <1> QED BY <1>1, <1>2, <1>4 DEF OwnMarketId

\* A task works on for its request until it has stored an ended status
\* (process_and_submit_request, start_status_polling, update_request_status).
LEMMA TaskOnce ==
    ASSUME PollsComplete, OnceInv, TypeOK', Stages', NEW s \in Submissions,
           \/ SubmitFails(s) \/ SubmitAccepted(s) \/ Acknowledge(s) \/ AcknowledgeLost(s)
           \/ CheckMarket(s) \/ Deadline(s) \/ Remember(s) \/ Forget(s)
    PROVE  OnceInv'
  <1> USE Types DEF OnceInv
  <1>1. /\ \/ pc[s] \in {"submit", "accepted", "poll", "remember"}
           \/ pc[s] = "forget" /\ pc'[s] = "done"
        /\ \A t \in Submissions \ {s} : pc'[t] = pc[t]
        /\ UNCHANGED <<rows, stale, adrift, req>>
    BY DEF SubmitFails, SubmitAccepted, Acknowledge, AcknowledgeLost, CheckMarket, Deadline,
           Remember, Forget, Finish, Record, Goto, storeVars, PollsComplete
  <1>2. OwnMarketId'
    <2>1. CASE SubmitAccepted(s) \/ Remember(s)
      BY <2>1 DEF SubmitAccepted, Remember, Goto, OwnMarketId
    <2>2. CASE Forget(s)
      BY <2>2, BlankEnds DEF Forget, Finish, Goto, OwnMarketId
    <2> QED BY <2>1, <2>2, RecordsOwn
  <1> QED BY <1>1, <1>2, OnceElsewhere DEF OnlyInserts, PastStore, Working

\* The row takes what its only task records (update_status).
LEMMA PersistOnce ==
    ASSUME OnceInv, TypeOK', Stages', NEW s \in Submissions, Persist(s)
    PROVE  OnceInv'
  <1> USE Types DEF OnceInv
  <1>1. /\ pc[s] = "persist" /\ req[s] \in Requests /\ Update(req[s], obs[s])
        /\ \/ Terminal(obs[s]) /\ pc' = [pc EXCEPT ![s] = "forget"] /\ obs' = obs
           \/ /\ Active(obs[s]) /\ pc' = [pc EXCEPT ![s] = "poll"]
              /\ obs' = [obs EXCEPT ![s] = Preparing]
        /\ UNCHANGED <<adrift, req>>
    BY DEF Persist, AfterRecording, StartForgetting, KeepPolling, Goto, Active
  <1>2. PastStore(s) /\ Working(s)
    BY <1>1 DEF PastStore, Working
  <1>3. /\ rows'[req[s]] # Nothing /\ rows'[req[s]].id = obs[s].id
        /\ Active(rows'[req[s]]) <=> Active(obs[s])
        /\ \A q \in Requests \ {req[s]} : rows'[q] = rows[q]
        /\ stale' = stale \ {req[s]}
    BY <1>1, <1>2, UpdateDoes DEF WorkersHaveRows, HasRow
  <1>4. \A t \in Submissions : Working(t) /\ t # s => req[t] # req[s]
    BY <1>2, OnlyWorker
  <1>5. OneWorkingSubmission'
    BY <1>1, <1>2 DEF OneWorkingSubmission, Working
  <1>6. OwnMarketId' /\ OnlyInserts'
    BY <1>1, BlankEnds DEF OwnMarketId, OnlyInserts
  <1>7. WorkersHaveRows'
    <2>1. ASSUME NEW t \in Submissions, t # s, PastStore(t)' PROVE HasRow(t)'
      BY <1>1, <1>3, <1>4, <2>1 DEF WorkersHaveRows, HasRow, PastStore, Working
    <2>2. ASSUME PastStore(s)' PROVE HasRow(s)'
      <3>1. pc'[s] = "poll" /\ Active(obs[s]) /\ obs[s].id \in {NoMarket, s}
        BY <1>1, <2>2 DEF PastStore, Working, OwnMarketId
      <3> QED BY <1>1, <1>3, <3>1 DEF HasRow
    <2> QED BY <2>1, <2>2 DEF WorkersHaveRows
  <1> QED BY <1>5, <1>6, <1>7

\* An insert without its caller leaves a row under way (store_request).
LEMMA LandOnce ==
    ASSUME OnceInv, TypeOK', Stages', NEW w \in adrift, LandAdrift(w)
    PROVE  OnceInv'
  <1> USE Types DEF OnceInv
  <1>1. /\ w.req \in Requests /\ Insert(w.req) /\ adrift' = adrift \ {w}
        /\ UNCHANGED <<pc, req, obs>>
    BY DEF LandAdrift, OnlyInserts, Writes
  <1>2. /\ rows'[w.req] # Nothing /\ Active(rows'[w.req]) /\ rows'[w.req].id = NoMarket
        /\ \A q \in Requests \ {w.req} : rows'[q] = rows[q]
        /\ stale' = stale \ {w.req}
    BY <1>1, InsertDoes
  <1>3. WorkersHaveRows'
    BY <1>1, <1>2 DEF WorkersHaveRows, HasRow, PastStore, Working
  <1> QED BY <1>1, <1>3 DEF OneWorkingSubmission, Working, OwnMarketId, OnlyInserts

\* Only old rows are deleted when nobody prunes (delete_expired_requests,
\* delete_expired_ttl_requests).
LEMMA DeletesOldRows ==
    ASSUME BeginRefresh \/ Restart \/ \E S \in SUBSET Requests : CleanupDelete(S)
    PROVE  /\ \A r \in Requests : r \notin stale => rows'[r] = rows[r]
           /\ stale' \subseteq stale
  BY DEF BeginRefresh, Restart, CleanupDelete, PurgeExpired, Delete, Expirable

\* Clean-up and refresh take no row that a task works for, and a restart
\* ends all tasks (start_ttl_cleanup_task, BoundlessProver::new).
LEMMA WorldOnce ==
    ASSUME TasksAreQuick, OnceInv, TypeOK', Stages',
           \/ \E r \in Requests : Age(r)
           \/ BeginRefresh \/ Restart
           \/ \E S \in SUBSET Requests : CleanupDelete(S)
    PROVE  OnceInv'
  <1> USE Types DEF OnceInv
  <1>1. ASSUME NEW r \in Requests, Age(r) PROVE OnceInv'
    <2>1. /\ stale' = stale \union {r}
          /\ \A s \in Submissions : pc[s] \notin {"idle", "done"} => req[s] # r
          /\ UNCHANGED <<rows, adrift, pc, req, obs>>
      BY <1>1 DEF Age, Quiet, TasksAreQuick, taskVars
    <2> QED BY <2>1, OnceElsewhere DEF PastStore, Working, OwnMarketId, OnlyInserts
  <1>2. CASE BeginRefresh \/ \E S \in SUBSET Requests : CleanupDelete(S)
    <2>1. UNCHANGED <<adrift, pc, req, obs>>
      BY <1>2 DEF BeginRefresh, CleanupDelete, taskVars
    <2>2. \A s \in Submissions : PastStore(s) => req[s] \in Requests /\ req[s] \notin stale
      BY DEF WorkersHaveRows, HasRow, PastStore, Working
    <2> QED BY <1>2, <2>1, <2>2, DeletesOldRows, OnceElsewhere
            DEF PastStore, Working, OwnMarketId, OnlyInserts
  <1>3. CASE Restart
    <2>1. /\ adrift' = {} /\ \A s \in Submissions : pc'[s] \in {"idle", "done"} /\ obs'[s] = Preparing
      BY <1>3 DEF Restart
    <2> QED BY <2>1, BlankEnds DEF OneWorkingSubmission, WorkersHaveRows, PastStore, Working,
            OwnMarketId, OnlyInserts
  <1> QED BY <1>1, <1>2, <1>3

\* Every step of the agent, of its clients and of the market keeps it to one
\* working submission for a request.
LEMMA NextOnce ==
    ASSUME OneByOne, OnceInv, TypeOK', Stages', [Next]_vars
    PROVE  OnceInv'
  <1> USE Types DEF OneByOne
  <1>1. ASSUME NEW s \in Submissions, TaskStep(s) \/ Disconnect(s) \/ Deadline(s) PROVE OnceInv'
    <2>1. ~ PersistFails(s)
      BY DEF PersistFails, WritesSucceed
    <2>2. CASE CacheExisting(s) \/ Prepare(s) \/ Store(s) \/ Disconnect(s)
      <3>1. req[s] \in Requests
        BY <2>2 DEF OnceInv, CacheExisting, Prepare, Store, Disconnect, HandlerPcs
      <3> QED BY <2>2, <3>1, HandlerOnce
    <2> QED BY <1>1, <2>1, <2>2, TaskOnce, PersistOnce DEF TaskStep
  <1>2. ASSUME NEW s \in Submissions, NEW r \in Requests, PostNew(s, r) \/ PostExisting(s, r)
        PROVE  OnceInv'
    BY <1>2, HandlerOnce
  <1>3. ASSUME NEW w \in adrift, LandAdrift(w) PROVE OnceInv'
    BY <1>3, LandOnce
  <1>4. ~ PruneTable
    BY DEF PruneTable, NobodyPrunes
  <1>5. CASE \/ \E r \in Requests : Age(r)
             \/ BeginRefresh \/ Restart
             \/ \E S \in SUBSET Requests : CleanupDelete(S)
    BY <1>5, WorldOnce
  <1>6. CASE \/ \E t \in ProofTypes : Upload(t)
             \/ \E r \in Requests : QueryRead(r)
             \/ QueryCache \/ PruneMap \/ CleanupForget \/ EndRefresh
             \/ MarketStep \/ UNCHANGED vars
    <2>1. UNCHANGED <<rows, stale, adrift, pc, req, obs>>
      BY <1>6 DEF Upload, QueryRead, QueryCache, PruneMap, CleanupForget, EndRefresh, MarketStep,
            vars, storeVars, taskVars
    <2>2. OwnMarketId' /\ OnlyInserts'
      BY <2>1 DEF OnceInv, OwnMarketId, OnlyInserts
    <2> QED BY <2>1, <2>2, OnceElsewhere DEF PastStore, Working
  <1> QED BY <1>1, <1>2, <1>3, <1>4, <1>5, <1>6 DEF Next

\* Nobody works at the start.
LEMMA InitOnce == Init => OnceInv
  <1> SUFFICES ASSUME Init PROVE OnceInv
    OBVIOUS
  <1>1. TypeOK /\ Stages
    BY InitIndInv DEF IndInv
  <1> QED BY <1>1, BlankEnds DEF Init, OnceInv, OneWorkingSubmission, WorkersHaveRows, OwnMarketId,
          OnlyInserts, PastStore, Working

\* The invariant holds at all times.
LEMMA OnceInvariant == OneByOne => (Spec => [](IndInv /\ OnceInv))
  <1> SUFFICES ASSUME OneByOne PROVE Spec => [](IndInv /\ OnceInv)
    OBVIOUS
  <1>1. Init => IndInv /\ OnceInv
    BY InitIndInv, InitOnce
  <1>2. IndInv /\ OnceInv /\ [Next]_vars => IndInv' /\ OnceInv'
    <2> SUFFICES ASSUME IndInv, OnceInv, [Next]_vars PROVE IndInv' /\ OnceInv'
      OBVIOUS
    <2>1. IndInv' /\ TypeOK' /\ Stages'
      BY NextIndInv DEF IndInv
    <2> QED BY <2>1, NextOnce
  <1> QED BY <1>1, <1>2, PTL DEF Spec

\* At most one submission works for a request at a time, also when clients
\* hang up, deadlines pass, market calls fail and the process restarts
\* (batch_run, aggregate).
THEOREM OneSubmissionWorks == OneByOne => (Spec => []OneWorkingSubmission)
  <1>1. OnceInv => OneWorkingSubmission
    BY DEF OnceInv
  <1> QED BY <1>1, OnceInvariant, PTL

\* In the same circumstances, every task that works has its row under way
\* (prepare_async_request inserts it before it spawns the task; a retry, a
\* refresh or a purge never takes it away).
THEOREM WorkersAreOnRecord == OneByOne => (Spec => []WorkIsOnRecord)
  <1>1. OnceInv => WorkIsOnRecord
    BY DEF OnceInv, WorkersHaveRows, HasRow, PastStore, WorkIsOnRecord
  <1> QED BY <1>1, OnceInvariant, PTL

-----------------------------------------------------------------------------
(* An input is paid for once, when market calls succeed and market         *)
(* requests are settled within the hour or polled for as long as they last. *)

\* What can be charged for s has a row under way that is not old, and the task
\* of s behind it, or, after a restart, nobody: then the row keeps others from
\* starting.
KeptOpen(s) ==
    /\ rows[req[s]] # Nothing /\ Active(rows[req[s]]) /\ req[s] \notin stale
    /\ \/ pc[s] \in {"accepted", "poll"}
       \/ pc[s] \in {"remember", "persist"} /\ Active(obs[s])
       \/ /\ pc[s] = "done" /\ ~ ProcessStays
          /\ \A t \in Submissions : Working(t) => req[t] # req[s]

UnsettledKeptOpen == \A s \in Submissions : Unsettled(s) => KeptOpen(s)

OneUnsettled ==
    \A s, t \in Submissions : Unsettled(s) /\ Unsettled(t) /\ req[s] = req[t] => s = t

PayInv == UnsettledKeptOpen /\ OneUnsettled

\* Before its submission a task has no market request, and its request is
\* known once it has one (process_and_submit_request).
LEMMA UnsettledTypes ==
    ASSUME OnceInv, NEW s \in Submissions, Unsettled(s)
    PROVE  /\ pc[s] \notin {"idle", "cache", "prepare", "store", "submit"}
           /\ req[s] \in Requests
  <1>1. market[s] # "absent"
    BY DEF Unsettled
  <1>2. pc[s] \notin {"idle", "cache", "prepare", "store", "submit"}
    BY <1>1 DEF OnceInv, Stages
  <1> QED BY <1>2, Types DEF OnceInv

\* A step of the market leaves no request chargeable that was not before
\* (check_market_status sees only that).
LEMMA MarketSettles ==
    ASSUME MarketType, MarketStep
    PROVE  \A s \in Submissions : Unsettled(s)' => Unsettled(s)
  BY DEF MarketType, MarketStep, MarketMoves, MarketLocks, MarketFulfills, MarketExpires,
         Becomes, Unsettled, MarketStates

\* While a task works for a request, no other submission has a market request
\* for it that can be charged (batch_run, aggregate).
LEMMA OnlyPayer ==
    ASSUME OnceInv, PayInv, NEW s \in Submissions, Working(s),
           NEW t \in Submissions, t # s, Unsettled(t)
    PROVE  req[t] # req[s]
  <1>1. KeptOpen(t)
    BY DEF PayInv, UnsettledKeptOpen
  <1>2. CASE Working(t)
    BY <1>2, OnlyWorker
  <1>3. CASE ~ Working(t)
    BY <1>1, <1>3 DEF KeptOpen, Working
  <1> QED BY <1>2, <1>3

\* A step after which no more can be charged, that leaves alone the rows and
\* tasks of what can, and starts no work for it.
LEMMA PayElsewhere ==
    ASSUME OnceInv, PayInv,
           \A s \in Submissions : Unsettled(s)' => Unsettled(s),
           \A s \in Submissions : Unsettled(s) =>
              /\ pc'[s] = pc[s] /\ obs'[s] = obs[s] /\ req'[s] = req[s]
              /\ rows'[req[s]] # Nothing /\ Active(rows'[req[s]]) /\ req[s] \notin stale'
              /\ \A t \in Submissions :
                    Working(t)' /\ req'[t] = req[s] => Working(t) /\ req[t] = req[s]
    PROVE  PayInv'
  <1>1. ASSUME NEW s \in Submissions, Unsettled(s)' PROVE KeptOpen(s)'
    <2>1. Unsettled(s) /\ KeptOpen(s)
      BY <1>1 DEF PayInv, UnsettledKeptOpen
    <2> QED BY <2>1 DEF KeptOpen
  <1>2. OneUnsettled'
    BY DEF PayInv, OneUnsettled
  <1> QED BY <1>1, <1>2 DEF PayInv, UnsettledKeptOpen

\* A handler goes on only where nothing can be charged (batch_run,
\* aggregate, prepare_async_request).
LEMMA HandlerPays ==
    ASSUME PostsInTurn, WritesSucceed, OnceInv, PayInv, NEW s \in Submissions, NEW r \in Requests,
           \/ PostNew(s, r) \/ PostExisting(s, r) \/ CacheExisting(s)
           \/ Prepare(s) \/ Store(s) \/ Disconnect(s)
    PROVE  PayInv'
  <1> USE Types DEF OnceInv
  <1>0. \A t \in Submissions : Unsettled(t) => KeptOpen(t)
    BY DEF PayInv, UnsettledKeptOpen
  <1>1. pc[s] \in {"idle", "cache", "prepare", "store"} /\ UNCHANGED market
    BY DEF PostNew, PostExisting, CacheExisting, Prepare, Store, Disconnect, StartHandler, HandlerPcs
  <1>2. ~ Unsettled(s) /\ \A t \in Submissions : Unsettled(t)' <=> Unsettled(t)
    BY <1>1, UnsettledTypes DEF Unsettled
  <1>3. CASE PostNew(s, r)
    <2>1. /\ pc' = [pc EXCEPT ![s] = "prepare"] /\ req' = [req EXCEPT ![s] = r]
          /\ rows[r] # Nothing => rows[r].st = "failed"
          /\ UNCHANGED <<rows, stale, obs>>
      BY <1>3 DEF PostNew, StartHandler, Goto, storeVars
    <2>2. \A t \in Submissions : Unsettled(t) => req[t] # r
      BY <1>0, <2>1 DEF KeptOpen, Active, Terminal
    <2> QED BY <1>0, <1>2, <2>1, <2>2, PayElsewhere DEF KeptOpen, Working
  <1>4. CASE PostExisting(s, r) \/ CacheExisting(s) \/ Prepare(s) \/ Disconnect(s)
    <2>1. /\ Working(s)' => Working(s) /\ req'[s] = req[s]
          /\ \A t \in Submissions \ {s} : pc'[t] = pc[t] /\ req'[t] = req[t] /\ obs'[t] = obs[t]
          /\ UNCHANGED <<rows, stale>>
      <3>1. CASE PostExisting(s, r) \/ CacheExisting(s)
        BY <3>1 DEF PostExisting, CacheExisting, StartHandler, Goto, storeVars, Working
      <3>2. CASE Prepare(s)
        BY <3>2 DEF Prepare, Goto, storeVars, Working
      <3>3. CASE Disconnect(s)
        BY <3>3 DEF Disconnect, Finish, Goto, Working
      <3> QED BY <1>4, <3>1, <3>2, <3>3
    <2>2. \A t \in Submissions \ {s} : Working(t)' => Working(t)
      BY <2>1 DEF Working
    <2> QED BY <1>0, <1>2, <2>1, <2>2, PayElsewhere DEF KeptOpen
  <1>5. CASE Store(s)
    <2>1. /\ pc[s] = "store" /\ req[s] \in Requests /\ Insert(req[s])
          /\ pc' = [pc EXCEPT ![s] = "submit"] /\ UNCHANGED <<req, obs>>
      BY <1>5 DEF Store, Goto, WritesSucceed
    <2>2. \A t \in Submissions : Unsettled(t) =>
             rows'[req[t]] # Nothing /\ Active(rows'[req[t]]) /\ req[t] \notin stale'
      BY <1>0, <2>1, InsertDoes, UnsettledTypes DEF KeptOpen
    <2>3. \A t \in Submissions : Working(t)' => Working(t)
      BY <2>1 DEF Working
    <2> QED BY <1>2, <2>1, <2>2, <2>3, PayElsewhere
  <1> QED BY <1>3, <1>4, <1>5

\* What the market accepts is the only request for its input that can be
\* charged (process_and_submit_request).
LEMMA SubmitPays ==
    ASSUME OnceInv, PayInv, NEW s \in Submissions, SubmitAccepted(s)
    PROVE  PayInv'
  <1> USE Types DEF OnceInv
  <1>1. /\ pc[s] = "submit" /\ pc' = [pc EXCEPT ![s] = "accepted"]
        /\ UNCHANGED <<rows, stale, req, obs>>
        /\ market' = [market EXCEPT ![s] = "open"]
    BY DEF SubmitAccepted, MarketAccepts, Becomes, Goto, storeVars
  <1>2. Working(s) /\ HasRow(s)
    BY <1>1 DEF Working, PastStore, WorkersHaveRows
  <1>3. ASSUME NEW t \in Submissions, t # s, Unsettled(t)'
        PROVE  Unsettled(t) /\ req[t] # req[s] /\ KeptOpen(t)'
    <2>1. Unsettled(t)
      BY <1>1, <1>3 DEF Unsettled, TypeOK, MarketType
    <2>2. req[t] # req[s] /\ KeptOpen(t)
      BY <1>2, <1>3, <2>1, OnlyPayer DEF PayInv, UnsettledKeptOpen
    <2> QED BY <1>1, <1>3, <2>1, <2>2 DEF KeptOpen, Working
  <1>4. KeptOpen(s)'
    BY <1>1, <1>2 DEF KeptOpen, HasRow
  <1>5. OneUnsettled'
    BY <1>1, <1>3 DEF PayInv, OneUnsettled
  <1> QED BY <1>3, <1>4, <1>5 DEF PayInv, UnsettledKeptOpen

\* A task whose market request can be charged has no ended status to record:
\* the market answers, and no deadline passes before the request is settled
\* (check_market_status, handle_polling_timeout).
LEMMA RecordPays ==
    ASSUME MarketAnswers, NoneLeftBehind, PollsComplete, OnceInv, PayInv, NEW s \in Submissions,
           \/ SubmitFails(s) \/ Acknowledge(s) \/ AcknowledgeLost(s)
           \/ CheckMarket(s) \/ Deadline(s)
    PROVE  PayInv'
  <1> USE Types DEF OnceInv
  <1>1. ~ AcknowledgeLost(s)
    BY DEF AcknowledgeLost, MarketAnswers
  <1>2. PICK new, purpose : Record(s, new, purpose) /\ (Unsettled(s) => Active(new))
    <2>1. CASE SubmitFails(s)
      <3>1. ~ Unsettled(s)
        BY <2>1, UnsettledTypes DEF SubmitFails
      <3> QED BY <2>1, <3>1 DEF SubmitFails
    <2>2. CASE Acknowledge(s)
      <3>1. Active(Status("submitted", s))
        BY DEF Status, Active, Terminal
      <3> QED BY <2>2, <3>1 DEF Acknowledge
    <2>3. CASE CheckMarket(s)
      <3>1. PICK new \in Answers(s) : Record(s, new, "poll")
        BY <2>3 DEF CheckMarket
      <3>2. Unsettled(s) => Active(new)
        BY DEF Answers, Unsettled, Active, Terminal, Status, MarketAnswers
      <3> QED BY <3>1, <3>2
    <2>4. CASE Deadline(s)
      BY <2>4 DEF Deadline, HourMayPass, NoneLeftBehind, HourSuffices, NoDeadline, PollsComplete
    <2> QED BY <1>1, <2>1, <2>2, <2>3, <2>4
  <1>3. /\ pc' = [pc EXCEPT ![s] = "remember"] /\ obs' = [obs EXCEPT ![s] = new]
        /\ UNCHANGED <<rows, stale, req, market>>
    BY <1>2 DEF Record, Goto, SubmitFails, Acknowledge, AcknowledgeLost, CheckMarket, Deadline, storeVars
  <1>4. Working(s)
    BY DEF SubmitFails, Acknowledge, AcknowledgeLost, CheckMarket, Deadline, PollsComplete, Working
  <1>5. ASSUME NEW t \in Submissions, Unsettled(t)' PROVE KeptOpen(t)'
    <2>1. Unsettled(t) /\ KeptOpen(t)
      BY <1>3, <1>5 DEF PayInv, UnsettledKeptOpen, Unsettled
    <2>2. t # s => req[t] # req[s]
      BY <1>4, <2>1, OnlyPayer
    <2> QED BY <1>2, <1>3, <2>1, <2>2 DEF KeptOpen, Working
  <1>6. OneUnsettled'
    BY <1>3 DEF PayInv, OneUnsettled, Unsettled
  <1> QED BY <1>5, <1>6 DEF PayInv, UnsettledKeptOpen

\* Its row stays under way while the task stores what it has heard
\* (update_request_status).
LEMMA StorePays ==
    ASSUME OnceInv, PayInv, NEW s \in Submissions, Remember(s) \/ Persist(s) \/ Forget(s)
    PROVE  PayInv'
  <1> USE Types DEF OnceInv
  <1>1. CASE Remember(s)
    <2>1. /\ pc[s] = "remember" /\ pc' = [pc EXCEPT ![s] = "persist"]
          /\ UNCHANGED <<rows, stale, req, obs, market>>
      BY <1>1 DEF Remember, Goto, storeVars
    <2>2. \A t \in Submissions : Unsettled(t) => KeptOpen(t)'
      BY <2>1 DEF PayInv, UnsettledKeptOpen, KeptOpen, Working
    <2> QED BY <2>1, <2>2 DEF PayInv, UnsettledKeptOpen, OneUnsettled, Unsettled
  <1>2. CASE Persist(s)
    <2>1. /\ pc[s] = "persist" /\ req[s] \in Requests /\ Update(req[s], obs[s])
          /\ \/ Terminal(obs[s]) /\ pc' = [pc EXCEPT ![s] = "forget"] /\ obs' = obs
             \/ /\ Active(obs[s]) /\ pc' = [pc EXCEPT ![s] = "poll"]
                /\ obs' = [obs EXCEPT ![s] = Preparing]
          /\ UNCHANGED <<req, market>>
      BY <1>2 DEF Persist, AfterRecording, StartForgetting, KeepPolling, Goto, Active
    <2>2. PastStore(s) /\ Working(s)
      BY <2>1 DEF PastStore, Working
    <2>3. /\ rows'[req[s]] # Nothing
          /\ Active(rows'[req[s]]) <=> Active(obs[s])
          /\ \A q \in Requests \ {req[s]} : rows'[q] = rows[q]
          /\ stale' = stale \ {req[s]}
      BY <2>1, <2>2, UpdateDoes DEF WorkersHaveRows, HasRow
    <2>4. ASSUME NEW t \in Submissions, Unsettled(t) PROVE KeptOpen(t)'
      <3>1. KeptOpen(t) /\ req[t] \in Requests
        BY <2>4, UnsettledTypes DEF PayInv, UnsettledKeptOpen
      <3>2. CASE t = s
        <4>1. Active(obs[s])
          BY <2>1, <3>1, <3>2 DEF KeptOpen
        <4> QED BY <2>1, <2>3, <3>2, <4>1 DEF KeptOpen, Active
      <3>3. CASE t # s
        <4>1. req[t] # req[s]
          BY <2>2, <2>4, <3>3, OnlyPayer
        <4> QED BY <2>1, <2>3, <3>1, <3>3, <4>1 DEF KeptOpen, Working
      <3> QED BY <3>2, <3>3
    <2> QED BY <2>1, <2>4 DEF PayInv, UnsettledKeptOpen, OneUnsettled, Unsettled
  <1>3. CASE Forget(s)
    <2>1. /\ pc[s] = "forget" /\ pc' = [pc EXCEPT ![s] = "done"]
          /\ \A t \in Submissions \ {s} : obs'[t] = obs[t]
          /\ UNCHANGED <<rows, stale, req, market>>
      BY <1>3 DEF Forget, Finish, Goto, storeVars
    <2>2. \A t \in Submissions : Unsettled(t) => KeptOpen(t) /\ t # s
      BY <2>1 DEF PayInv, UnsettledKeptOpen, KeptOpen
    <2> QED BY <2>1, <2>2, PayElsewhere DEF KeptOpen, Working, Unsettled
  <1> QED BY <1>1, <1>2, <1>3

\* Time, clean-up and refresh leave the row of what can be charged alone, and
\* so does a restart, after which nobody works for it (start_ttl_cleanup_task,
\* BoundlessProver::new).
LEMMA WorldPays ==
    ASSUME TasksAreQuick, NoneLeftBehind, OnceInv, PayInv,
           \/ \E r \in Requests : Age(r)
           \/ BeginRefresh \/ Restart
           \/ \E S \in SUBSET Requests : CleanupDelete(S)
           \/ \E w \in adrift : LandAdrift(w)
    PROVE  PayInv'
  <1> USE Types DEF OnceInv
  <1>0. \A t \in Submissions : Unsettled(t) => KeptOpen(t) /\ req[t] \in Requests
    BY UnsettledTypes DEF PayInv, UnsettledKeptOpen
  <1>1. ASSUME NEW r \in Requests, Age(r) PROVE PayInv'
    <2>1. /\ stale' = stale \union {r}
          /\ HourSuffices => \A s \in Submissions : req[s] = r => ~ Unsettled(s)
          /\ \A s \in Submissions : pc[s] \notin {"idle", "done"} => req[s] # r
          /\ UNCHANGED <<rows, pc, req, obs, market>>
      BY <1>1 DEF Age, Quiet, TasksAreQuick, HourMayPass, HourSuffices, taskVars
    <2>2. \A s \in Submissions : Unsettled(s) => req[s] # r
      BY <1>0, <2>1 DEF NoneLeftBehind, KeptOpen
    <2> QED BY <1>0, <2>1, <2>2, PayElsewhere DEF KeptOpen, Working, Unsettled
  <1>2. CASE BeginRefresh \/ \E S \in SUBSET Requests : CleanupDelete(S)
    <2>1. UNCHANGED <<pc, req, obs, market>>
      BY <1>2 DEF BeginRefresh, CleanupDelete, taskVars
    <2>2. \A t \in Submissions : Unsettled(t) => rows'[req[t]] = rows[req[t]] /\ req[t] \notin stale'
      BY <1>0, <1>2, DeletesOldRows DEF KeptOpen
    <2> QED BY <1>0, <2>1, <2>2, PayElsewhere DEF KeptOpen, Working, Unsettled
  <1>3. CASE Restart
    <2>1. /\ \A s \in Submissions : pc'[s] = IF pc[s] = "idle" THEN "idle" ELSE "done"
          /\ ~ ProcessStays /\ UNCHANGED <<req, market>>
      BY <1>3 DEF Restart, ProcessStays
    <2>2. \A t \in Submissions : Unsettled(t) => rows'[req[t]] = rows[req[t]] /\ req[t] \notin stale'
      BY <1>0, <1>3, DeletesOldRows DEF KeptOpen
    <2>3. \A t \in Submissions : Unsettled(t) => KeptOpen(t)'
      BY <1>0, <2>1, <2>2 DEF KeptOpen, Working
    <2> QED BY <2>1, <2>3 DEF PayInv, UnsettledKeptOpen, OneUnsettled, Unsettled
  <1>4. ASSUME NEW w \in adrift, LandAdrift(w) PROVE PayInv'
    <2>1. /\ w.req \in Requests /\ Insert(w.req)
          /\ UNCHANGED <<pc, req, obs, market>>
      BY <1>4 DEF LandAdrift, OnlyInserts, Writes
    <2>2. \A t \in Submissions : Unsettled(t) =>
             rows'[req[t]] # Nothing /\ Active(rows'[req[t]]) /\ req[t] \notin stale'
      BY <1>0, <2>1, InsertDoes DEF KeptOpen
    <2> QED BY <2>1, <2>2, PayElsewhere DEF Working, Unsettled
  <1> QED BY <1>1, <1>2, <1>3, <1>4

\* Every step keeps what can be charged under its task or its row.
LEMMA NextPays ==
    ASSUME OneByOne, MarketAnswers, NoneLeftBehind, OnceInv, PayInv, [Next]_vars
    PROVE  PayInv'
  <1> USE Types DEF OnceInv, OneByOne
  <1>1. ASSUME NEW s \in Submissions, TaskStep(s) \/ Disconnect(s) \/ Deadline(s) PROVE PayInv'
    <2>1. ~ PersistFails(s)
      BY DEF PersistFails, WritesSucceed
    <2>2. CASE CacheExisting(s) \/ Prepare(s) \/ Store(s) \/ Disconnect(s)
      <3>1. req[s] \in Requests
        BY <2>2 DEF CacheExisting, Prepare, Store, Disconnect, HandlerPcs
      <3> QED BY <2>2, <3>1, HandlerPays
    <2> QED BY <1>1, <2>1, <2>2, SubmitPays, RecordPays, StorePays DEF TaskStep
  <1>2. ASSUME NEW s \in Submissions, NEW r \in Requests, PostNew(s, r) \/ PostExisting(s, r)
        PROVE  PayInv'
    BY <1>2, HandlerPays
  <1>3. ~ PruneTable
    BY DEF PruneTable, NobodyPrunes
  <1>4. CASE \/ \E r \in Requests : Age(r)
             \/ BeginRefresh \/ Restart
             \/ \E S \in SUBSET Requests : CleanupDelete(S)
             \/ \E w \in adrift : LandAdrift(w)
    BY <1>4, WorldPays
  <1>5. CASE \/ \E t \in ProofTypes : Upload(t)
             \/ \E r \in Requests : QueryRead(r)
             \/ QueryCache \/ PruneMap \/ CleanupForget \/ EndRefresh
             \/ MarketStep \/ UNCHANGED vars
    <2>1. UNCHANGED <<rows, stale, pc, req, obs>>
      BY <1>5 DEF Upload, QueryRead, QueryCache, PruneMap, CleanupForget, EndRefresh, MarketStep,
            vars, storeVars, taskVars
    <2>2. UNCHANGED market \/ MarketStep
      BY <1>5 DEF Upload, QueryRead, QueryCache, PruneMap, CleanupForget, EndRefresh, vars
    <2>3. \A s \in Submissions : Unsettled(s)' => Unsettled(s)
      BY <2>2, MarketSettles DEF Unsettled, TypeOK
    <2>4. \A s \in Submissions : Unsettled(s) => KeptOpen(s)
      BY DEF PayInv, UnsettledKeptOpen
    <2> QED BY <2>1, <2>3, <2>4, PayElsewhere DEF KeptOpen, Working
  <1> QED BY <1>1, <1>2, <1>3, <1>4, <1>5 DEF Next

\* Initially there is nothing to be charged, and every step keeps what can be
\* (batch_run, aggregate, start_status_polling).
LEMMA PayInvariant ==
    ASSUME OneByOne, MarketAnswers, NoneLeftBehind
    PROVE  Spec => []PayInv
  <1>1. Init => PayInv
    BY DEF Init, MarketInit, PayInv, UnsettledKeptOpen, OneUnsettled, Unsettled
  <1>2. OnceInv /\ PayInv /\ [Next]_vars => PayInv'
    BY NextPays
  <1>3. Spec => [](IndInv /\ OnceInv)
    BY OnceInvariant
  <1> QED BY <1>1, <1>2, <1>3, PTL DEF Spec

\* When besides market calls succeed, and market requests are settled within
\* the hour or neither deadline nor restart ends their tasks, the agent pays
\* at most once for an input at a time, and nothing more once it holds the
\* proof, also when clients hang up (batch_run, aggregate,
\* start_status_polling).
THEOREM NeverPaysTwice ==
    OneByOne /\ MarketAnswers /\ NoneLeftBehind => (Spec => []PaysOnce)
  <1> SUFFICES ASSUME OneByOne, MarketAnswers, NoneLeftBehind PROVE Spec => []PaysOnce
    OBVIOUS
  <1>1. PayInv => PaysOnce
    BY DEF PayInv, UnsettledKeptOpen, KeptOpen, OneUnsettled, PaysOnce, Active, Terminal
  <1> QED BY <1>1, PayInvariant, PTL

\* In the same circumstances, the row of a market request that can still be
\* charged says that it is under way: a poll, a deadline or a purge never gives
\* it up (poll_market_status, handle_polling_timeout,
\* delete_expired_requests).
THEOREM ChargeableStaysUnderWay ==
    OneByOne /\ MarketAnswers /\ NoneLeftBehind => (Spec => []ChargeableIsUnderWay)
  <1> SUFFICES ASSUME OneByOne, MarketAnswers, NoneLeftBehind PROVE Spec => []ChargeableIsUnderWay
    OBVIOUS
  <1>1. PayInv => ChargeableIsUnderWay
    BY DEF PayInv, UnsettledKeptOpen, KeptOpen, ChargeableIsUnderWay
  <1> QED BY <1>1, PayInvariant, PTL

-----------------------------------------------------------------------------
(* A delivered proof is not given up, when no deadline passes and market   *)
(* calls succeed.                                                          *)

\* What a task is about to record as failed has not been delivered.
FailedUndelivered ==
    \A s \in Submissions :
        pc[s] \in {"remember", "persist"} /\ obs[s].st = "failed" =>
            market[s] \in {"absent", "expired"}

\* The market takes no request of a task that has passed its submission, and
\* an expired one stays expired (start_status_polling).
LEMMA UndeliveredStays ==
    ASSUME MarketType, NEW s \in Submissions, market[s] \in {"absent", "expired"}, MarketStep
    PROVE  market'[s] = market[s]
  BY DEF MarketType, MarketStep, MarketMoves, MarketLocks, MarketFulfills, MarketExpires,
         Becomes, Unsettled, MarketStates

\* A task comes to record a failure only of a request that the market never
\* had or that has expired (process_and_submit_request, check_market_status).
LEMMA NextUndelivered ==
    ASSUME MarketAnswers, ProofsDecode, NoDeadline, PollsComplete, IndInv, FailedUndelivered,
           [Next]_vars
    PROVE  FailedUndelivered'
  <1> USE Types
  <1>0. TypeOK /\ Stages /\ MarketType
    BY DEF IndInv, TypeOK
  <1>1. ASSUME NEW s \in Submissions, NEW new, NEW purpose, Record(s, new, purpose), UNCHANGED market,
               new.st = "failed" => market[s] \in {"absent", "expired"}
        PROVE  FailedUndelivered'
    BY <1>0, <1>1 DEF Record, Goto, FailedUndelivered
  <1>2. ASSUME NEW s \in Submissions, TaskStep(s) \/ Disconnect(s) \/ Deadline(s)
        PROVE  FailedUndelivered'
    <2>1. ~ AcknowledgeLost(s) /\ ~ Deadline(s)
      BY DEF AcknowledgeLost, Deadline, MarketAnswers, NoDeadline, PollsComplete
    <2>2. CASE SubmitFails(s)
      <3>1. market[s] = "absent"
        BY <1>0, <2>2 DEF SubmitFails, Stages
      <3> QED BY <1>1, <2>2, <3>1 DEF SubmitFails
    <2>3. CASE Acknowledge(s)
      <3>1. Status("submitted", s).st # "failed"
        BY DEF Status
      <3> QED BY <1>1, <2>3, <3>1 DEF Acknowledge
    <2>4. CASE CheckMarket(s)
      <3>1. PICK new \in Answers(s) : Record(s, new, "poll")
        BY <2>4 DEF CheckMarket
      <3>2. new.st = "failed" => market[s] \in {"absent", "expired"}
        BY DEF Answers, Status, MarketAnswers, ProofsDecode
      <3> QED BY <1>1, <2>4, <3>1, <3>2 DEF CheckMarket
    <2>5. CASE SubmitAccepted(s)
      BY <1>0, <2>5 DEF SubmitAccepted, MarketAccepts, Becomes, Goto, FailedUndelivered, MarketType
    <2>6. CASE Remember(s)
      BY <1>0, <2>6 DEF Remember, Goto, FailedUndelivered
    <2>7. CASE \/ CacheExisting(s) \/ Prepare(s) \/ Store(s) \/ Disconnect(s)
               \/ Persist(s) \/ PersistFails(s) \/ Forget(s)
      <3>1. /\ pc'[s] \notin {"remember", "persist"}
            /\ \A t \in Submissions \ {s} : pc'[t] = pc[t] /\ obs'[t] = obs[t]
            /\ UNCHANGED market
        BY <1>0, <2>7 DEF CacheExisting, Prepare, Store, Disconnect, Persist, PersistFails, Forget,
             AfterRecording, StartForgetting, KeepPolling, Finish, Goto
      <3> QED BY <3>1 DEF FailedUndelivered
    <2> QED BY <1>2, <2>1, <2>2, <2>3, <2>4, <2>5, <2>6, <2>7 DEF TaskStep
  <1>3. ASSUME NEW s \in Submissions, NEW r \in Requests, PostNew(s, r) \/ PostExisting(s, r)
        PROVE  FailedUndelivered'
    <2>1. /\ pc'[s] \notin {"remember", "persist"}
          /\ \A t \in Submissions \ {s} : pc'[t] = pc[t] /\ obs'[t] = obs[t]
          /\ UNCHANGED market
      BY <1>0, <1>3 DEF PostNew, PostExisting, StartHandler, Goto
    <2> QED BY <2>1 DEF FailedUndelivered
  <1>4. CASE Restart
    BY <1>4 DEF Restart, FailedUndelivered
  <1>5. CASE \/ \E w \in adrift : LandAdrift(w)
             \/ \E t \in ProofTypes : Upload(t)
             \/ \E r \in Requests : QueryRead(r) \/ Age(r)
             \/ QueryCache \/ PruneTable \/ PruneMap
             \/ \E S \in SUBSET Requests : CleanupDelete(S)
             \/ CleanupForget \/ BeginRefresh \/ EndRefresh \/ UNCHANGED vars
    <2>1. UNCHANGED <<pc, obs, market>>
      BY <1>5 DEF LandAdrift, Upload, QueryRead, Age, QueryCache, PruneTable, PruneMap, CleanupDelete,
            CleanupForget, BeginRefresh, EndRefresh, vars, taskVars
    <2> QED BY <2>1 DEF FailedUndelivered
  <1>6. CASE MarketStep
    <2>1. UNCHANGED <<pc, obs>>
      BY <1>6 DEF MarketStep, taskVars
    <2> QED BY <1>0, <1>6, <2>1, UndeliveredStays DEF FailedUndelivered
  <1> QED BY <1>2, <1>3, <1>4, <1>5, <1>6 DEF Next

\* Rows are written by handlers, tasks and writes without a caller; every other
\* step takes some away or leaves them alone (store_request, update_status).
LEMMA WhoWrites ==
    ASSUME [Next]_vars
    PROVE  \/ OnlyDeletes
           \/ \E s \in Submissions : Store(s) \/ Persist(s)
           \/ \E w \in adrift : LandAdrift(w)
  <1>1. CASE BeginRefresh \/ Restart \/ PruneTable \/ \E S \in SUBSET Requests : CleanupDelete(S)
    BY <1>1, DeletesOnly DEF BeginRefresh, Restart, PruneTable, CleanupDelete
  <1>2. ASSUME \/ \E s \in Submissions : \/ CacheExisting(s) \/ Prepare(s) \/ SubmitFails(s)
                                         \/ SubmitAccepted(s) \/ Acknowledge(s) \/ AcknowledgeLost(s)
                                         \/ Remember(s) \/ PersistFails(s) \/ Forget(s)
                                         \/ CheckMarket(s) \/ Disconnect(s) \/ Deadline(s)
               \/ \E s \in Submissions, q \in Requests : PostNew(s, q) \/ PostExisting(s, q)
               \/ \E t \in ProofTypes : Upload(t)
               \/ \E q \in Requests : QueryRead(q) \/ Age(q)
               \/ QueryCache \/ PruneMap \/ CleanupForget \/ EndRefresh \/ MarketStep
               \/ UNCHANGED vars
        PROVE  UNCHANGED rows
    BY <1>2 DEF CacheExisting, Prepare, SubmitFails, SubmitAccepted, Acknowledge, AcknowledgeLost,
          Remember, PersistFails, Forget, CheckMarket, Disconnect, Deadline, PostNew, PostExisting,
          Upload, QueryRead, Age, QueryCache, PruneMap, CleanupForget, EndRefresh, MarketStep,
          vars, storeVars
  <1> QED BY <1>1, <1>2 DEF Next, TaskStep, OnlyDeletes

\* A row becomes failed only by its own task (update_status).
LEMMA FailsByItsTask ==
    ASSUME OneByOne, OnceInv, [Next]_vars, NEW r \in Requests, RecordedFailed(r)
    PROVE  \E s \in Submissions : /\ pc[s] = "persist" /\ obs[s].st = "failed"
                                  /\ rows[r].id \in {NoMarket, s}
  <1> USE Types DEF OnceInv
  <1>1. rows'[r] # rows[r] /\ rows'[r] # Nothing /\ ~ Active(rows'[r])
    BY DEF RecordedFailed, Active, Terminal
  <1>2. ASSUME NEW s \in Submissions, Persist(s)
        PROVE  pc[s] = "persist" /\ obs[s].st = "failed" /\ rows[r].id \in {NoMarket, s}
    <2>1. pc[s] = "persist" /\ req[s] \in Requests /\ Update(req[s], obs[s])
      BY <1>2 DEF Persist
    <2>2. req[s] = r
      BY <1>1, <2>1, UpdateDoes
    <2>3. PastStore(s)
      BY <2>1 DEF PastStore, Working
    <2> QED BY <2>1, <2>2, <2>3, UpdateDoes DEF RecordedFailed, WorkersHaveRows, HasRow
  <1>3. ASSUME NEW s \in Submissions PROVE ~ Store(s)
    <2> SUFFICES ASSUME Store(s) PROVE FALSE
      OBVIOUS
    <2>1. req[s] \in Requests /\ Insert(req[s])
      BY DEF Store, OneByOne, WritesSucceed
    <2> QED BY <1>1, <2>1, InsertDoes
  <1>4. ASSUME NEW w \in adrift PROVE ~ LandAdrift(w)
    <2> SUFFICES ASSUME LandAdrift(w) PROVE FALSE
      OBVIOUS
    <2>1. w.req \in Requests /\ Insert(w.req)
      BY DEF LandAdrift, OnlyInserts, Writes
    <2> QED BY <1>1, <2>1, InsertDoes
  <1>5. ~ OnlyDeletes
    BY <1>1 DEF OnlyDeletes
  <1> QED BY <1>2, <1>3, <1>4, <1>5, WhoWrites

\* When no deadline passes and market calls succeed, no request whose proof
\* the market has delivered is recorded as failed, also when clients hang up,
\* market requests last for long and the process restarts
\* (check_market_status, poll_market_status).
THEOREM DeliveredIsNotFailed ==
    OneByOne /\ MarketAnswers /\ ProofsDecode /\ NoDeadline => (Spec => DeliveredNeverFails)
  <1> SUFFICES ASSUME OneByOne, MarketAnswers, ProofsDecode, NoDeadline PROVE Spec => DeliveredNeverFails
    OBVIOUS
  <1> DEFINE Kept == \A r \in Requests :
                        RecordedFailed(r) /\ rows[r].id # NoMarket => market[rows[r].id] # "fulfilled"
  <1>1. Init => FailedUndelivered
    BY DEF Init, FailedUndelivered
  <1>2. IndInv /\ FailedUndelivered /\ [Next]_vars => FailedUndelivered'
    BY NextUndelivered DEF OneByOne
  <1>3. OnceInv /\ FailedUndelivered /\ [Next]_vars => Kept
    <2> SUFFICES ASSUME OnceInv, FailedUndelivered, [Next]_vars, NEW r \in Requests,
                        RecordedFailed(r), rows[r].id # NoMarket
                 PROVE  market[rows[r].id] # "fulfilled"
      OBVIOUS
    <2> QED BY FailsByItsTask DEF FailedUndelivered
  <1>4. Spec => [](IndInv /\ OnceInv)
    BY OnceInvariant
  <1> QED BY <1>1, <1>2, <1>3, <1>4, PTL DEF Spec, DeliveredNeverFails

-----------------------------------------------------------------------------
(* A stored proof stays, when besides clients do not hang up.              *)

\* The table holds the proof of r.
Stored(r) == rows[r] # Nothing /\ rows[r].st = "fulfilled"

\* A step does not touch a row that holds a proof, except to delete it: GET
\* /status goes on answering with the proof until clean-up takes the row
\* (update_status, store_request, delete_expired_ttl_requests).
ProofStays == [][\A r \in Requests : Stored(r) => rows'[r] \in {rows[r], Nothing}]_vars

\* No write has lost its caller, and no handler is about to insert over a
\* proof.
StayInv ==
    /\ adrift = {}
    /\ \A s \in Submissions : pc[s] \in {"prepare", "store"} => ~ Stored(req[s])

\* What a step writes is not the row of a proof, and no row that a handler is
\* about to replace comes to hold one, as no task works for it
\* (batch_run, aggregate, update_status).
LEMMA StoredStay ==
    ASSUME OneByOne, OnceInv, StayInv, [Next]_vars, NEW r \in Requests
    PROVE  /\ Stored(r) => rows'[r] \in {rows[r], Nothing}
           /\ (\E s \in Submissions : pc[s] \in {"prepare", "store"} /\ req[s] = r) => ~ Stored(r)'
  <1> USE Types DEF OnceInv
  <1>1. CASE OnlyDeletes
    BY <1>1 DEF OnlyDeletes, Stored, StayInv
  <1>2. ASSUME NEW s \in Submissions, Store(s)
        PROVE  /\ UNCHANGED req
               /\ ~ Stored(req[s]) /\ ~ Stored(req[s])'
    <2>1. pc[s] = "store" /\ req[s] \in Requests /\ Insert(req[s])
      BY <1>2 DEF Store, OneByOne, WritesSucceed
    <2>2. Active(rows'[req[s]]) /\ UNCHANGED req
      BY <1>2, <2>1, InsertDoes DEF Store
    <2> QED BY <2>1, <2>2 DEF StayInv, Stored, Active, Terminal
  <1>3. ASSUME NEW s \in Submissions, Store(s), r # req[s] PROVE rows'[r] = rows[r]
    BY <1>3, InsertDoes DEF Store, OneByOne, WritesSucceed
  <1>4. ASSUME NEW s \in Submissions, Persist(s)
        PROVE  /\ ~ Stored(req[s])
               /\ r # req[s] => rows'[r] = rows[r]
               /\ \A t \in Submissions : pc[t] \in {"prepare", "store"} => req[t] # req[s]
    <2>1. pc[s] = "persist" /\ req[s] \in Requests /\ Update(req[s], obs[s])
      BY <1>4 DEF Persist
    <2>2. PastStore(s) /\ Working(s)
      BY <2>1 DEF PastStore, Working
    <2>3. ~ Stored(req[s])
      BY <2>2 DEF WorkersHaveRows, HasRow, Stored, Active, Terminal
    <2>4. \A t \in Submissions : pc[t] \in {"prepare", "store"} => req[t] # req[s]
      BY <2>1, <2>2, OnlyWorker DEF Working
    <2> QED BY <2>1, <2>3, <2>4, UpdateDoes
  <1>5. CASE \E s \in Submissions : Store(s)
    <2>1. PICK s \in Submissions : Store(s)
      BY <1>5
    <2>2. CASE r = req[s]
      <3>1. ~ Stored(r) /\ ~ Stored(r)'
        BY <1>2, <2>1, <2>2 DEF Stored
      <3> QED BY <3>1
    <2>3. CASE r # req[s]
      <3>1. rows'[r] = rows[r]
        BY <1>3, <2>1, <2>3
      <3>2. Stored(r)' <=> Stored(r)
        BY <3>1 DEF Stored
      <3> QED BY <3>1, <3>2 DEF StayInv
    <2> QED BY <2>2, <2>3
  <1>6. CASE \E s \in Submissions : Persist(s)
    BY <1>4, <1>6 DEF StayInv, Stored
  <1> QED BY <1>1, <1>5, <1>6, WhoWrites DEF StayInv

\* A handler goes on to insert only where no proof is stored (batch_run,
\* aggregate).
LEMMA NextStays ==
    ASSUME OneByOne, ClientsStay, OnceInv, StayInv, [Next]_vars
    PROVE  StayInv'
  <1> USE Types DEF OnceInv
  <1>1. adrift' = {}
    BY DEF Next, TaskStep, StayInv, OneByOne, PollsComplete, ClientsStay, CacheExisting, Prepare, Store,
      SubmitFails, SubmitAccepted, Acknowledge, AcknowledgeLost, Remember, Persist, PersistFails, Forget,
      CheckMarket, Disconnect, Deadline, LandAdrift, PostNew, PostExisting, Upload, QueryRead, Age,
      QueryCache, PruneTable, PruneMap, CleanupDelete, CleanupForget, BeginRefresh, EndRefresh, Restart,
      MarketStep, vars, storeVars
  <1>2. ASSUME NEW s \in Submissions, pc'[s] \in {"prepare", "store"}
        PROVE  \/ pc[s] \in {"prepare", "store"} /\ req'[s] = req[s]
               \/ \E r \in Requests : PostNew(s, r) /\ req'[s] = r
    <2>1. CASE pc'[s] = pc[s] /\ req'[s] = req[s]
      BY <1>2, <2>1
    <2>2. ASSUME NEW t \in Submissions, TaskStep(t) \/ Disconnect(t) \/ Deadline(t)
          PROVE  req'[s] = req[s] /\ (pc'[s] = pc[s] \/ pc[s] = "prepare")
      BY <1>2, <2>2 DEF TaskStep, CacheExisting, Prepare, Store, SubmitFails, SubmitAccepted, Acknowledge,
        AcknowledgeLost, Remember, Persist, PersistFails, Forget, CheckMarket, Disconnect, Deadline,
        AfterRecording, StartForgetting, KeepPolling, Finish, Record, Goto
    <2>3. ASSUME NEW t \in Submissions, NEW r \in Requests, PostNew(t, r) \/ PostExisting(t, r)
          PROVE  \/ pc'[s] = pc[s] /\ req'[s] = req[s]
                 \/ PostNew(s, r) /\ req'[s] = r
      BY <1>2, <2>3 DEF PostNew, PostExisting, StartHandler, Goto
    <2>4. CASE Restart
      BY <1>2, <2>4 DEF Restart
    <2>5. CASE \/ \E w \in adrift : LandAdrift(w)
               \/ \E t \in ProofTypes : Upload(t)
               \/ \E r \in Requests : QueryRead(r) \/ Age(r)
               \/ QueryCache \/ PruneTable \/ PruneMap
               \/ \E S \in SUBSET Requests : CleanupDelete(S)
               \/ CleanupForget \/ BeginRefresh \/ EndRefresh \/ MarketStep \/ UNCHANGED vars
      <3>1. UNCHANGED <<pc, req>>
        BY <2>5 DEF LandAdrift, Upload, QueryRead, Age, QueryCache, PruneTable, PruneMap, CleanupDelete,
             CleanupForget, BeginRefresh, EndRefresh, MarketStep, vars, taskVars
      <3> QED BY <2>1, <3>1
    <2> QED BY <1>2, <2>1, <2>2, <2>3, <2>4, <2>5 DEF Next
  <1>3. ASSUME NEW s \in Submissions, pc[s] \in {"prepare", "store"}, req'[s] = req[s]
        PROVE  ~ Stored(req[s])'
    <2>1. PICK r \in Requests : r = req[s]
      BY <1>3
    <2>2. ~ Stored(r)'
      BY <1>3, <2>1, StoredStay
    <2> QED BY <1>3, <2>1, <2>2 DEF Stored
  <1>4. ASSUME NEW s \in Submissions, NEW r \in Requests, PostNew(s, r), req'[s] = r
        PROVE  ~ Stored(req[s])'
    BY <1>4 DEF PostNew, storeVars, Stored
  <1> QED BY <1>1, <1>2, <1>3, <1>4 DEF StayInv

\* A stored proof stays until it is cleaned up, whatever polls, deadlines,
\* failing market calls and restarts do (update_status, store_request).
THEOREM StoredProofStays == OneByOne /\ ClientsStay => (Spec => ProofStays)
  <1> SUFFICES ASSUME OneByOne, ClientsStay PROVE Spec => ProofStays
    OBVIOUS
  <1> DEFINE Kept == \A r \in Requests : Stored(r) => rows'[r] \in {rows[r], Nothing}
  <1>1. Init => StayInv
    BY DEF Init, StayInv
  <1>2. OnceInv /\ StayInv /\ [Next]_vars => StayInv'
    BY NextStays
  <1>3. OnceInv /\ StayInv /\ [Next]_vars => Kept
    BY StoredStay
  <1>4. Spec => [](IndInv /\ OnceInv)
    BY OnceInvariant
  <1> QED BY <1>1, <1>2, <1>3, <1>4, PTL DEF Spec, ProofStays
=============================================================================
