------------------------ MODULE ProofAgentTaskProofs ------------------------
(***************************************************************************)
(* Proofs about ProofAgent under the weakest assumptions that each of      *)
(* three properties needs: Tended, TerminalLeavesMap and NoGhosts.  POSTs  *)
(* may overlap in all of them.                                             *)
(***************************************************************************)
EXTENDS ProofAgentProofs

\* The types that the proofs below need.
LEMMA Types ==
    ASSUME TypeOK
    PROVE  /\ rows \in [Requests -> Tracked \union {Nothing}]
           /\ memory \in [Requests -> Tracked \union {Nothing}]
           /\ stale \subseteq Requests /\ adrift \subseteq Writes
           /\ pc \in [Submissions -> Pcs] /\ req \in [Submissions -> Requests \union {Nothing}]
           /\ obs \in [Submissions -> Tracked]
           /\ attached \subseteq Submissions
           /\ query \in Queries \union {Nothing}
           /\ \A s \in Submissions : pc[s] # "idle" => req[s] \in Requests
  BY DEF TypeOK

\* What a theorem may assume of the circumstances.
WritesSucceed == "storage" \notin Disturbances
ClientsStay == "disconnect" \notin Disturbances
ProcessStays == "crash" \notin Disturbances
PollsComplete == "cut" \notin Disturbances
NobodyPrunes == "prune" \notin Disturbances
TasksAreQuick == "slow" \notin Disturbances

-----------------------------------------------------------------------------
(* What the steps do to the table.                                         *)

\* Recording a status in the map leaves an entry of that status
\* (update_request_status).
LEMMA RecordInMapEnds ==
    ASSUME NEW entry \in Tracked, NEW new \in Tracked
    PROVE  /\ RecordInMap(entry, new) # Nothing
           /\ Terminal(RecordInMap(entry, new)) <=> Terminal(new)
  BY RecordTyped, NothingApart DEF RecordInMap, Terminal, Tracked

\* ... and so in the table (BoundlessStorage::update_status).
LEMMA RecordInRowEnds ==
    ASSUME NEW row \in Tracked, NEW new \in Tracked
    PROVE  /\ RecordInRow(row, new) # Nothing
           /\ RecordInRow(row, new).st = new.st /\ RecordInRow(row, new).id = new.id
  BY RecordTyped, NothingApart DEF RecordInRow, Tracked

\* Preparing is under way, Failed has ended, and neither has a market id.
LEMMA BlankEnds ==
    /\ Active(Preparing) /\ Preparing.st = "preparing" /\ Preparing.id = NoMarket
    /\ Terminal(Failed) /\ Failed.st = "failed" /\ Failed.id = NoMarket
    /\ Preparing # Nothing
  BY BlankTyped, NothingApart DEF Active, Terminal, Preparing, Failed, Status

\* The step only takes rows away.
OnlyDeletes == \A r \in Requests : rows'[r] \in {rows[r], Nothing}

\* Prune, clean-up and purge take rows away and leave the others as they are
\* (delete_all_requests, delete_expired_requests, delete_expired_ttl_requests).
LEMMA DeletesOnly ==
    ASSUME NEW S, Delete(S) \/ PurgeExpired
    PROVE  OnlyDeletes
  BY DEF PurgeExpired, Delete, OnlyDeletes

\* An INSERT leaves a row in preparation (store_request).
LEMMA InsertDoes ==
    ASSUME TypeOK, NEW r \in Requests, Insert(r)
    PROVE  /\ rows' = [rows EXCEPT ![r] = Preparing]
           /\ rows'[r] # Nothing /\ Active(rows'[r]) /\ rows'[r].id = NoMarket
           /\ \A q \in Requests \ {r} : rows'[q] = rows[q]
           /\ stale' = stale \ {r}
  BY BlankEnds DEF Insert, TypeOK

\* An UPDATE leaves the status it is given if there was a row (update_status).
LEMMA UpdateDoes ==
    ASSUME TypeOK, NEW r \in Requests, NEW new \in Tracked, Update(r, new)
    PROVE  /\ rows'[r] # Nothing <=> rows[r] # Nothing
           /\ rows[r] # Nothing => /\ rows'[r].st = new.st /\ rows'[r].id = new.id
                                   /\ Active(rows'[r]) <=> Active(new)
           /\ \A q \in Requests \ {r} : rows'[q] = rows[q]
           /\ stale' = stale \ {r}
  <1>1. rows \in [Requests -> Tracked \union {Nothing}]
    BY DEF TypeOK
  <1>2. rows[r] # Nothing => /\ RecordInRow(rows[r], new) # Nothing
                             /\ RecordInRow(rows[r], new).st = new.st
                             /\ RecordInRow(rows[r], new).id = new.id
    BY <1>1, RecordInRowEnds
  <1>3. /\ rows'[r] = IF rows[r] = Nothing THEN Nothing ELSE RecordInRow(rows[r], new)
        /\ \A q \in Requests \ {r} : rows'[q] = rows[q]
        /\ stale' = stale \ {r}
    BY <1>1 DEF Update
  <1>4. rows[r] # Nothing => (Active(rows'[r]) <=> Active(new))
    BY <1>2, <1>3 DEF Active, Terminal
  <1> QED BY <1>2, <1>3, <1>4

-----------------------------------------------------------------------------
(* Every row under way has its task: with any overlap of POSTs, polls cut  *)
(* short, prunes and slow tasks.                                           *)

\* A task records its own market request or none, and so does a write that
\* its timeout has dropped, while the task records the timeout.
OwnMarketId == \A s \in Submissions : pc[s] # "cache" => obs[s].id \in {NoMarket, s}

OwnWrites ==
    \A w \in adrift :
        /\ w.kind = "update" /\ w.entry.id \in {NoMarket, w.by}
        /\ pc[w.by] \in {"remember", "persist"} /\ req[w.by] = w.req

TendInv == TypeOK /\ Stages /\ Tended /\ OwnMarketId /\ OwnWrites

\* A step that takes no row's task away and writes none keeps rows tended.
LEMMA TendedElsewhere ==
    ASSUME Tended, OnlyDeletes,
           \A s \in Submissions : Working(s) => Working(s)' /\ req'[s] = req[s]
    PROVE  Tended'
  BY DEF Tended, OnlyDeletes

\* Recording own ids goes on through a step of s that gives it its own.
LEMMA OwnElsewhere ==
    ASSUME TypeOK, OwnMarketId, OwnWrites, NEW s \in Submissions,
           \A t \in Submissions \ {s} : pc'[t] = pc[t] /\ obs'[t] = obs[t] /\ req'[t] = req[t],
           pc'[s] # "cache" => obs'[s].id \in {NoMarket, s},
           \A w \in adrift : w.by = s => pc'[s] \in {"remember", "persist"} /\ req'[s] = req[s],
           adrift' = adrift
    PROVE  OwnMarketId' /\ OwnWrites'
  <1>1. \A w \in adrift : w.by \in Submissions
    BY Types DEF Writes
  <1> QED BY <1>1 DEF OwnMarketId, OwnWrites

\* A handler comes and goes without touching the table (batch_run, aggregate).
LEMMA HandlerTends ==
    ASSUME TendInv, TypeOK', Stages', NEW s \in Submissions, NEW r \in Requests,
           PostNew(s, r) \/ PostExisting(s, r) \/ CacheExisting(s) \/ Prepare(s)
    PROVE  TendInv'
  <1> USE Types DEF TendInv
  <1>1. /\ pc[s] \in {"idle", "cache", "prepare"} /\ pc'[s] \in {"prepare", "cache", "idle", "store"}
        /\ pc[s] = "prepare" => pc'[s] = "store" /\ UNCHANGED req
        /\ pc'[s] # "cache" => obs'[s].id \in {NoMarket, s}
        /\ \A t \in Submissions \ {s} : pc'[t] = pc[t] /\ obs'[t] = obs[t] /\ req'[t] = req[t]
        /\ UNCHANGED <<rows, adrift>>
    BY BlankEnds DEF PostNew, PostExisting, CacheExisting, Prepare, StartHandler, Goto, storeVars,
                     Stages, OwnMarketId
  <1>2. Tended'
    BY <1>1, TendedElsewhere DEF OnlyDeletes, Working
  <1>3. \A w \in adrift : w.by # s
    BY <1>1 DEF OwnWrites
  <1> QED BY <1>1, <1>2, <1>3, OwnElsewhere

\* An inserted row has the task of its handler (prepare_async_request).
LEMMA StoreTends ==
    ASSUME WritesSucceed, TendInv, TypeOK', Stages', NEW s \in Submissions, Store(s)
    PROVE  TendInv'
  <1> USE Types DEF TendInv
  <1>1. /\ pc[s] = "store" /\ req[s] \in Requests /\ Insert(req[s])
        /\ pc' = [pc EXCEPT ![s] = "submit"]
        /\ UNCHANGED <<adrift, req, obs>>
    BY DEF Store, Goto, WritesSucceed
  <1>2. /\ Active(rows'[req[s]]) /\ rows'[req[s]].id = NoMarket
        /\ \A q \in Requests \ {req[s]} : rows'[q] = rows[q]
    BY <1>1, InsertDoes
  <1>3. \A t \in Submissions : Working(t) => Working(t)'
    BY <1>1 DEF Working
  <1>4. Working(s)'
    BY <1>1 DEF Working
  <1>5. Tended'
    BY <1>1, <1>2, <1>3, <1>4 DEF Tended
  <1>6. OwnMarketId' /\ OwnWrites'
    BY <1>1, OwnElsewhere DEF OwnMarketId, OwnWrites
  <1> QED BY <1>5, <1>6

\* A task that turns to recording a status goes on working, also one whose
\* poll is cut short (process_and_submit_request, handle_polling_timeout).
LEMMA RecordTends ==
    ASSUME TendInv, TypeOK', Stages', NEW s \in Submissions, NEW new, NEW purpose,
           Record(s, new, purpose), new.id \in {NoMarket, s},
           pc[s] \notin {"idle", "cache", "prepare", "store", "done"},
           adrift' \subseteq adrift \union
               {[kind |-> "update", by |-> s, req |-> req[s], entry |-> obs[s]]},
           UNCHANGED rows
    PROVE  TendInv'
  <1> USE Types DEF TendInv
  <1>1. /\ pc' = [pc EXCEPT ![s] = "remember"] /\ obs' = [obs EXCEPT ![s] = new]
        /\ UNCHANGED req
    BY DEF Record, Goto
  <1>2. Tended'
    BY <1>1, TendedElsewhere DEF OnlyDeletes, Working
  <1>3. OwnMarketId'
    BY <1>1 DEF OwnMarketId
  <1>4. obs[s].id \in {NoMarket, s}
    BY DEF OwnMarketId
  <1>5. \A w \in adrift : w.by \in Submissions
    BY DEF Writes
  <1>6. OwnWrites'
    BY <1>1, <1>4, <1>5 DEF OwnWrites
  <1> QED BY <1>2, <1>3, <1>6

\* What a task comes to record names its own market request or none
\* (process_and_submit_request, check_market_status).
LEMMA RecordsTend ==
    ASSUME TendInv, TypeOK', Stages', NEW s \in Submissions,
           \/ SubmitFails(s) \/ Acknowledge(s) \/ AcknowledgeLost(s)
           \/ CheckMarket(s) \/ Deadline(s)
    PROVE  TendInv'
  <1>1. Failed.id = NoMarket /\ Status("submitted", s).id = s /\ Status(market[s], s).id = s
    BY DEF Failed, Status
  <1>2. \A new \in Answers(s) : new.id \in {NoMarket, s}
    BY <1>1 DEF Answers
  <1>3. PICK new \in {Failed, Status("submitted", s)} \union Answers(s),
             purpose \in {"submit", "error", "poll", "deadline"} : Record(s, new, purpose)
    BY DEF SubmitFails, Acknowledge, AcknowledgeLost, CheckMarket, Deadline
  <1>4. pc[s] \notin {"idle", "cache", "prepare", "store", "done"} /\ UNCHANGED rows
    BY DEF SubmitFails, Acknowledge, AcknowledgeLost, CheckMarket, Deadline, RecordingPcs, storeVars
  <1>5. adrift' \subseteq adrift \union
            {[kind |-> "update", by |-> s, req |-> req[s], entry |-> obs[s]]}
    BY DEF SubmitFails, Acknowledge, AcknowledgeLost, CheckMarket, Deadline, storeVars
  <1> QED BY <1>1, <1>2, <1>3, <1>4, <1>5, RecordTends

\* A task works on through its submission and its write to the map, and has
\* stopped before it leaves the map (process_and_submit_request,
\* update_request_status).
LEMMA MapTends ==
    ASSUME TendInv, TypeOK', Stages', NEW s \in Submissions,
           SubmitAccepted(s) \/ Remember(s) \/ Forget(s)
    PROVE  TendInv'
  <1> USE Types DEF TendInv
  <1>1. /\ \/ pc[s] = "submit" /\ pc'[s] = "accepted" /\ UNCHANGED obs
           \/ pc[s] = "remember" /\ pc'[s] = "persist" /\ UNCHANGED obs
           \/ pc[s] = "forget" /\ obs'[s].id = NoMarket
        /\ \A t \in Submissions \ {s} : pc'[t] = pc[t] /\ obs'[t] = obs[t]
        /\ UNCHANGED <<rows, adrift, req>>
    BY BlankEnds DEF SubmitAccepted, Remember, Forget, Finish, Goto, storeVars
  <1>2. Tended'
    BY <1>1, TendedElsewhere DEF OnlyDeletes, Working
  <1> QED BY <1>1, <1>2, OwnElsewhere DEF OwnMarketId, OwnWrites

\* The task that leaves a row under way goes on polling, and it comes after
\* every write of its own (update_status).
LEMMA PersistTends ==
    ASSUME TendInv, TypeOK', Stages', NEW s \in Submissions, Persist(s)
    PROVE  TendInv'
  <1> USE Types DEF TendInv
  <1>1. /\ pc[s] = "persist" /\ req[s] \in Requests /\ Update(req[s], obs[s])
        /\ \A w \in adrift : w.by # s
        /\ obs[s].id \in {NoMarket, s}
    BY DEF Persist, ConnectionFree, OwnMarketId
  <1>2. /\ \/ Terminal(obs[s]) /\ pc' = [pc EXCEPT ![s] = "forget"] /\ obs' = obs
           \/ /\ Active(obs[s]) /\ pc' = [pc EXCEPT ![s] = "poll"]
              /\ obs' = [obs EXCEPT ![s] = Preparing]
        /\ UNCHANGED <<adrift, req>>
    BY DEF Persist, AfterRecording, StartForgetting, KeepPolling, Goto, Active
  <1>3. ASSUME NEW t \in Submissions, Working(t), t # s PROVE Working(t)'
    BY <1>2, <1>3 DEF Working
  <1>4. Active(obs[s]) => Working(s)'
    BY <1>2 DEF Working, Active
  <1>5. ASSUME NEW r \in Requests, rows'[r] # Nothing, Active(rows'[r])
        PROVE  \E t \in Submissions : Working(t)' /\ req'[t] = r /\ rows'[r].id \in {NoMarket, t}
    <2>1. CASE r = req[s]
      <3>1. Active(obs[s]) /\ rows'[r].id = obs[s].id
        BY <1>1, <1>5, <2>1, UpdateDoes
      <3> QED BY <1>1, <1>2, <1>4, <2>1, <3>1
    <2>2. CASE r # req[s]
      <3>1. rows'[r] = rows[r]
        BY <1>1, <2>2, UpdateDoes
      <3>2. PICK t \in Submissions : Working(t) /\ req[t] = r /\ rows[r].id \in {NoMarket, t}
        BY <1>5, <3>1 DEF Tended
      <3> QED BY <1>2, <1>3, <2>2, <3>1, <3>2
    <2> QED BY <2>1, <2>2
  <1>6. Tended'
    BY <1>5 DEF Tended
  <1>7. OwnMarketId' /\ OwnWrites'
    BY <1>1, <1>2, BlankEnds, OwnElsewhere DEF OwnMarketId
  <1> QED BY <1>6, <1>7

\* A write that its timeout has dropped finds its task still recording
\* (handle_polling_timeout).
LEMMA LandTends ==
    ASSUME TendInv, TypeOK', Stages', NEW w \in adrift, LandAdrift(w)
    PROVE  TendInv'
  <1> USE Types DEF TendInv
  <1>1. /\ Update(w.req, w.entry) /\ w.req \in Requests /\ w.entry \in Tracked
        /\ w.entry.id \in {NoMarket, w.by} /\ w.by \in Submissions
        /\ Working(w.by) /\ req[w.by] = w.req
        /\ adrift' = adrift \ {w} /\ UNCHANGED <<pc, req, obs>>
    BY DEF LandAdrift, OwnWrites, Writes, Working
  <1>2. ASSUME NEW r \in Requests, rows'[r] # Nothing, Active(rows'[r])
        PROVE  \E t \in Submissions : Working(t) /\ req[t] = r /\ rows'[r].id \in {NoMarket, t}
    <2>1. CASE r = w.req
      BY <1>1, <1>2, <2>1, UpdateDoes
    <2>2. CASE r # w.req
      BY <1>1, <1>2, <2>2, UpdateDoes DEF Tended
    <2> QED BY <2>1, <2>2
  <1>3. Tended' /\ OwnMarketId' /\ OwnWrites'
    BY <1>1, <1>2 DEF Tended, Working, OwnMarketId, OwnWrites
  <1> QED BY <1>3

\* Every step of the agent, of its clients and of the market keeps every row
\* under way tended.
LEMMA NextTends ==
    ASSUME WritesSucceed, ClientsStay, ProcessStays, TendInv, TypeOK', Stages', [Next]_vars
    PROVE  TendInv'
  <1> USE Types DEF TendInv
  <1>1. ASSUME OnlyDeletes, UNCHANGED <<pc, req, obs, adrift>> PROVE TendInv'
    BY <1>1, TendedElsewhere DEF Working, OwnMarketId, OwnWrites
  <1>2. ASSUME NEW s \in Submissions, TaskStep(s) \/ Disconnect(s) \/ Deadline(s) PROVE TendInv'
    <2>1. ~ Disconnect(s) /\ ~ PersistFails(s)
      BY DEF Disconnect, PersistFails, ClientsStay, WritesSucceed
    <2>2. req[s] \in Requests \/ ~ (CacheExisting(s) \/ Prepare(s))
      BY DEF CacheExisting, Prepare
    <2> QED BY <1>2, <2>1, <2>2, HandlerTends, StoreTends, RecordsTend, MapTends, PersistTends
            DEF TaskStep
  <1>3. ASSUME NEW s \in Submissions, NEW r \in Requests, PostNew(s, r) \/ PostExisting(s, r)
        PROVE  TendInv'
    BY <1>3, HandlerTends
  <1>4. ASSUME NEW w \in adrift, LandAdrift(w) PROVE TendInv'
    BY <1>4, LandTends
  <1>5. ~ Restart
    BY DEF Restart, ProcessStays
  <1>6. CASE PruneTable \/ BeginRefresh \/ \E S \in SUBSET Requests : CleanupDelete(S)
    <2>1. UNCHANGED <<pc, req, obs, adrift>>
      BY <1>6 DEF PruneTable, BeginRefresh, CleanupDelete, taskVars
    <2>2. OnlyDeletes
      BY <1>6, DeletesOnly DEF PruneTable, BeginRefresh, CleanupDelete
    <2> QED BY <1>1, <2>1, <2>2
  <1>7. CASE \/ \E t \in ProofTypes : Upload(t)
             \/ \E r \in Requests : QueryRead(r) \/ Age(r)
             \/ QueryCache \/ PruneMap \/ CleanupForget \/ EndRefresh
             \/ MarketStep \/ UNCHANGED vars
    <2>1. UNCHANGED <<rows, pc, req, obs, adrift>>
      BY <1>7 DEF Upload, QueryRead, Age, QueryCache, PruneMap, CleanupForget, EndRefresh, MarketStep,
            vars, storeVars, taskVars
    <2> QED BY <1>1, <2>1 DEF OnlyDeletes
  <1> QED BY <1>2, <1>3, <1>4, <1>5, <1>6, <1>7 DEF Next

\* When writes succeed, clients stay and the process does too, a row under
\* way always has the task behind it that polls its market request, however
\* POSTs overlap, polls are cut short and rows are pruned
\* (start_status_polling, update_request_status).
THEOREM RowsAreTended ==
    WritesSucceed /\ ClientsStay /\ ProcessStays => (Spec => []Tended)
  <1> SUFFICES ASSUME WritesSucceed, ClientsStay, ProcessStays PROVE Spec => []Tended
    OBVIOUS
  <1>1. Init => IndInv /\ TendInv
    <2> SUFFICES ASSUME Init PROVE IndInv /\ TendInv
      OBVIOUS
    <2>1. IndInv
      BY InitIndInv
    <2> QED BY <2>1, BlankEnds DEF Init, IndInv, TendInv, Tended, OwnMarketId, OwnWrites
  <1>2. IndInv /\ TendInv /\ [Next]_vars => IndInv' /\ TendInv'
    <2> SUFFICES ASSUME IndInv, TendInv, [Next]_vars PROVE IndInv' /\ TendInv'
      OBVIOUS
    <2>1. IndInv' /\ TypeOK' /\ Stages'
      BY NextIndInv DEF IndInv
    <2> QED BY <2>1, NextTends
  <1>3. TendInv => Tended
    BY DEF TendInv
  <1> QED BY <1>1, <1>2, <1>3, PTL DEF Spec

-----------------------------------------------------------------------------
(* Ended entries leave the map: with any overlap of POSTs, clients that    *)
(* hang up, prunes, slow tasks, restarts.                                  *)

\* TerminalLeavesMap, with what the task in question is about to record.
TerminalEntries ==
    \A r \in Requests :
        memory[r] # Nothing /\ Terminal(memory[r]) =>
            \E s \in attached :
                req[s] = r /\ (pc[s] = "forget" \/ (pc[s] = "persist" /\ Terminal(obs[s])))

\* What a handler is about to put into the map is under way.
CachedUnderWay == \A s \in Submissions : pc[s] = "cache" => Active(obs[s])

LeaveInv == TypeOK /\ TerminalEntries /\ CachedUnderWay

\* The step puts no ended entry into the map.
NoneEndedAdded ==
    \A r \in Requests : memory'[r] \in {memory[r], Nothing} \/ Active(memory'[r])

\* A step that puts no ended entry into the map and leaves the tasks that
\* take one out alone.
LEMMA EntriesElsewhere ==
    ASSUME TerminalEntries, NoneEndedAdded,
           \A s \in attached : pc[s] \in {"persist", "forget"} =>
               pc'[s] = pc[s] /\ obs'[s] = obs[s] /\ req'[s] = req[s] /\ s \in attached'
    PROVE  TerminalEntries'
  BY DEF TerminalEntries, NoneEndedAdded, Active

\* What handlers put into the map is under way (batch_run, aggregate,
\* prepare_async_request).
LEMMA HandlerLeaves ==
    ASSUME LeaveInv, TypeOK', NEW s \in Submissions, NEW r \in Requests,
           \/ PostNew(s, r) \/ PostExisting(s, r) \/ CacheExisting(s)
           \/ Prepare(s) \/ Store(s) \/ Disconnect(s)
    PROVE  LeaveInv'
  <1> USE Types DEF LeaveInv
  <1>1. /\ pc[s] \in {"idle"} \union HandlerPcs
        /\ \A t \in Submissions \ {s} :
              /\ pc'[t] = pc[t] /\ obs'[t] = obs[t] /\ req'[t] = req[t]
              /\ t \in attached => t \in attached'
        /\ pc'[s] = "cache" => Active(obs'[s])
    <2>1. CASE PostNew(s, r) \/ PostExisting(s, r)
      BY <2>1 DEF PostNew, PostExisting, StartHandler, Goto
    <2>2. CASE CacheExisting(s) \/ Prepare(s) \/ Store(s)
      BY <2>2 DEF CacheExisting, Prepare, Store, Goto, HandlerPcs
    <2>3. CASE Disconnect(s)
      BY <2>3 DEF Disconnect, Finish, Goto, HandlerPcs
    <2> QED BY <2>1, <2>2, <2>3
  <1>2. NoneEndedAdded
    BY BlankEnds DEF PostNew, PostExisting, CacheExisting, Prepare, Store, Disconnect,
                     CachedUnderWay, NoneEndedAdded
  <1>3. TerminalEntries'
    BY <1>1, <1>2, EntriesElsewhere DEF HandlerPcs
  <1>4. CachedUnderWay'
    BY <1>1 DEF CachedUnderWay
  <1> QED BY <1>3, <1>4

\* A task touches no entry until it has a status to record
\* (process_and_submit_request, check_market_status).
LEMMA WorkLeaves ==
    ASSUME PollsComplete, LeaveInv, TypeOK', NEW s \in Submissions,
           \/ SubmitFails(s) \/ SubmitAccepted(s) \/ Acknowledge(s) \/ AcknowledgeLost(s)
           \/ CheckMarket(s) \/ Deadline(s)
    PROVE  LeaveInv'
  <1> USE Types DEF LeaveInv
  <1>1. /\ pc[s] \in {"submit", "accepted", "poll"} /\ pc'[s] \in {"accepted", "remember"}
        /\ \A t \in Submissions \ {s} : pc'[t] = pc[t] /\ obs'[t] = obs[t]
        /\ UNCHANGED <<memory, req, attached>>
    BY DEF SubmitFails, SubmitAccepted, Acknowledge, AcknowledgeLost, CheckMarket, Deadline,
           PollsComplete, Record, Goto
  <1>2. TerminalEntries'
    BY <1>1, EntriesElsewhere DEF NoneEndedAdded
  <1> QED BY <1>1, <1>2 DEF CachedUnderWay

\* The task that records an ended status stores it, and then takes the entry
\* out (update_request_status).
LEMMA RecordingLeaves ==
    ASSUME LeaveInv, TypeOK', NEW s \in Submissions, Remember(s) \/ Persist(s) \/ Forget(s)
    PROVE  LeaveInv'
  <1> USE Types DEF LeaveInv
  <1>1. CASE Remember(s)
    <2>1. /\ pc[s] = "remember" /\ req[s] \in Requests /\ obs[s] \in Tracked
          /\ pc' = [pc EXCEPT ![s] = "persist"] /\ UNCHANGED <<req, obs, attached>>
      BY <1>1 DEF Remember, Goto
    <2>2. \A r \in Requests :
             \/ memory'[r] = memory[r]
             \/ /\ r = req[s] /\ s \in attached
                /\ memory'[r] # Nothing /\ (Terminal(memory'[r]) => Terminal(obs[s]))
      BY <1>1, <2>1, RecordInMapEnds DEF Remember
    <2>3. TerminalEntries'
      BY <2>1, <2>2 DEF TerminalEntries
    <2> QED BY <2>1, <2>3 DEF CachedUnderWay
  <1>2. CASE Persist(s)
    <2>1. /\ pc[s] = "persist"
          /\ \/ Terminal(obs[s]) /\ pc' = [pc EXCEPT ![s] = "forget"] /\ obs' = obs
             \/ /\ ~ Terminal(obs[s]) /\ pc' = [pc EXCEPT ![s] = "poll"]
                /\ obs' = [obs EXCEPT ![s] = Preparing]
          /\ UNCHANGED <<memory, req, attached>>
      BY <1>2 DEF Persist, AfterRecording, StartForgetting, KeepPolling, Goto
    <2>2. TerminalEntries'
      BY <2>1 DEF TerminalEntries
    <2> QED BY <2>1, <2>2 DEF CachedUnderWay
  <1>3. CASE Forget(s)
    <2>1. /\ pc[s] = "forget" /\ req[s] \in Requests
          /\ pc' = [pc EXCEPT ![s] = "done"] /\ obs' = [obs EXCEPT ![s] = Preparing]
          /\ attached' = attached \ {s} /\ UNCHANGED req
      BY <1>3 DEF Forget, Finish, Goto
    <2>2. /\ \A r \in Requests : memory'[r] \in {memory[r], Nothing}
          /\ s \in attached => memory'[req[s]] = Nothing
      BY <1>3, <2>1 DEF Forget
    <2>3. TerminalEntries'
      BY <2>1, <2>2 DEF TerminalEntries
    <2> QED BY <2>1, <2>3 DEF CachedUnderWay
  <1> QED BY <1>1, <1>2, <1>3

\* Every step of the agent, of its clients and of the market leaves an ended
\* entry to its task.
LEMMA NextLeaves ==
    ASSUME WritesSucceed, PollsComplete, LeaveInv, TypeOK', [Next]_vars
    PROVE  LeaveInv'
  <1> USE Types DEF LeaveInv
  <1>1. ASSUME NoneEndedAdded, UNCHANGED <<pc, req, obs, attached>> PROVE LeaveInv'
    BY <1>1, EntriesElsewhere DEF CachedUnderWay
  <1>2. ASSUME NEW s \in Submissions, TaskStep(s) \/ Disconnect(s) \/ Deadline(s) PROVE LeaveInv'
    <2>1. ~ PersistFails(s)
      BY DEF PersistFails, WritesSucceed
    <2>2. CASE CacheExisting(s) \/ Prepare(s) \/ Store(s) \/ Disconnect(s)
      <3>1. req[s] \in Requests
        BY <2>2 DEF CacheExisting, Prepare, Store, Disconnect, HandlerPcs
      <3> QED BY <2>2, <3>1, HandlerLeaves
    <2> QED BY <1>2, <2>1, <2>2, WorkLeaves, RecordingLeaves DEF TaskStep
  <1>3. ASSUME NEW s \in Submissions, NEW r \in Requests, PostNew(s, r) \/ PostExisting(s, r)
        PROVE  LeaveInv'
    BY <1>3, HandlerLeaves
  <1>4. ASSUME NEW w \in adrift, LandAdrift(w) PROVE LeaveInv'
    <2>1. \A s \in attached : pc[s] \in {"persist", "forget"} => s \in attached'
      BY <1>4 DEF LandAdrift
    <2>2. UNCHANGED <<memory, pc, req, obs>>
      BY <1>4 DEF LandAdrift
    <2> QED BY <2>1, <2>2, EntriesElsewhere DEF NoneEndedAdded, CachedUnderWay
  <1>5. CASE QueryCache
    <2>1. query.seen \in Tracked /\ UNCHANGED <<pc, req, obs, attached>>
      BY <1>5 DEF QueryCache, Queries, taskVars
    <2> QED BY <1>1, <1>5, <2>1 DEF QueryCache, NoneEndedAdded, Active
  <1>6. CASE EndRefresh \/ Restart
    <2>1. \A r \in Requests : memory'[r] = Nothing
      BY <1>6 DEF EndRefresh, Restart, EmptyMap
    <2>2. \A s \in Submissions : pc'[s] = "cache" => pc[s] = "cache" /\ obs'[s] = obs[s]
      BY <1>6 DEF EndRefresh, Restart
    <2> QED BY <2>1, <2>2 DEF TerminalEntries, CachedUnderWay
  <1>7. CASE PruneMap \/ CleanupForget
    BY <1>1, <1>7 DEF PruneMap, CleanupForget, NoneEndedAdded, taskVars
  <1>8. CASE \/ \E t \in ProofTypes : Upload(t)
             \/ \E r \in Requests : QueryRead(r) \/ Age(r)
             \/ PruneTable \/ BeginRefresh \/ MarketStep \/ UNCHANGED vars
             \/ \E S \in SUBSET Requests : CleanupDelete(S)
    <2>1. UNCHANGED <<memory, pc, req, obs, attached>>
      BY <1>8 DEF Upload, QueryRead, Age, PruneTable, BeginRefresh, MarketStep, CleanupDelete, vars, taskVars
    <2> QED BY <1>1, <2>1 DEF NoneEndedAdded
  <1> QED BY <1>2, <1>3, <1>4, <1>5, <1>6, <1>7, <1>8 DEF Next

\* When writes succeed and no poll is cut short while it records its result,
\* an ended entry is in the map only while its task is about to remove it,
\* whatever clients, queries, prunes and restarts do
\* (update_request_status).
THEOREM EndedEntriesLeave == WritesSucceed /\ PollsComplete => (Spec => []TerminalLeavesMap)
  <1> SUFFICES ASSUME WritesSucceed, PollsComplete PROVE Spec => []TerminalLeavesMap
    OBVIOUS
  <1>1. Init => LeaveInv
    BY InitTyped DEF Init, LeaveInv, TerminalEntries, CachedUnderWay
  <1>2. LeaveInv /\ [Next]_vars => LeaveInv'
    BY NextTyped, NextLeaves DEF LeaveInv
  <1>3. LeaveInv => TerminalLeavesMap
    BY DEF LeaveInv, TerminalEntries, TerminalLeavesMap
  <1> QED BY <1>1, <1>2, <1>3, PTL DEF Spec

-----------------------------------------------------------------------------
(* No ghosts in the map: with any overlap of POSTs, polls cut short and    *)
(* restarts.                                                               *)

\* The rows that the clean-up leaves alone: under way or not old.
Standing == {r \in Requests : rows[r] # Nothing /\ (Active(rows[r]) \/ r \notin stale)}

\* What a handler or query has read as under way stands until it is in the
\* map, unless the map is about to be replaced.
ReadRowsStand ==
    /\ \A s \in attached : pc[s] = "cache" => refreshing \/ req[s] \in Standing
    /\ query # Nothing /\ Active(query.seen) => refreshing \/ query.req \in Standing

GhostInv == TypeOK /\ NoGhosts /\ ReadRowsStand

\* The step takes no row away.
RowsStay == \A r \in Requests : rows'[r] = Nothing => rows[r] = Nothing

\* A step that adds no entry and takes no row away.
LEMMA GhostsElsewhere ==
    ASSUME NoGhosts, \A r \in Requests : memory'[r] # Nothing => memory[r] # Nothing,
           RowsStay, UNCHANGED <<refreshing, pruning, swept>>,
           \A s \in attached : pc[s] = "store" =>
               pc'[s] = "store" /\ req'[s] = req[s] /\ s \in attached'
    PROVE  NoGhosts'
  BY DEF NoGhosts, RowsStay

\* A step of submission s that leaves the readers' rows alone.
LEMMA ReadersElsewhere ==
    ASSUME TypeOK, ReadRowsStand, Standing \subseteq Standing',
           UNCHANGED <<refreshing, query>>, NEW s \in Submissions,
           \A t \in Submissions \ {s} : pc'[t] = pc[t] /\ req'[t] = req[t],
           attached' \subseteq attached \union {s},
           pc'[s] # "cache"
    PROVE  ReadRowsStand'
  BY Types DEF ReadRowsStand

\* An INSERT and an UPDATE take no row away and make none old
\* (store_request, update_status).
LEMMA WritesStay ==
    ASSUME TypeOK, NEW r \in Requests, NEW new \in Tracked, Insert(r) \/ Update(r, new)
    PROVE  RowsStay /\ Standing \subseteq Standing'
  <1>1. CASE Insert(r)
    BY <1>1, InsertDoes DEF RowsStay, Standing
  <1>2. CASE Update(r, new)
    BY <1>2, UpdateDoes DEF RowsStay, Standing
  <1> QED BY <1>1, <1>2

\* A handler's entry has its row already, or gets it in the next step
\* (batch_run, aggregate, prepare_async_request).
LEMMA HandlerGhosts ==
    ASSUME WritesSucceed, GhostInv, TypeOK', NEW s \in Submissions, NEW r \in Requests,
           PostNew(s, r) \/ PostExisting(s, r) \/ CacheExisting(s) \/ Prepare(s) \/ Store(s)
    PROVE  GhostInv'
  <1> USE Types DEF GhostInv
  <1>1. CASE PostNew(s, r)
    <2>1. /\ pc[s] = "idle" /\ pc' = [pc EXCEPT ![s] = "prepare"] /\ req' = [req EXCEPT ![s] = r]
          /\ attached' = attached \union {s}
          /\ UNCHANGED <<rows, stale, memory, refreshing, query, pruning, swept>>
      BY <1>1 DEF PostNew, StartHandler, Goto, storeVars, readerVars
    <2>2. NoGhosts'
      BY <2>1, GhostsElsewhere DEF RowsStay
    <2> QED BY <2>1, <2>2, ReadersElsewhere DEF Standing
  <1>2. CASE PostExisting(s, r)
    <2>1. /\ pc[s] = "idle" /\ pc' = [pc EXCEPT ![s] = "cache"] /\ req' = [req EXCEPT ![s] = r]
          /\ attached' = attached \union {s} /\ r \in Standing
          /\ UNCHANGED <<rows, stale, memory, refreshing, query, pruning, swept>>
      BY <1>2 DEF PostExisting, StartHandler, Goto, storeVars, readerVars, Standing
    <2>2. NoGhosts'
      BY <2>1, GhostsElsewhere DEF RowsStay
    <2>3. Standing' = Standing
      BY <2>1 DEF Standing
    <2>4. ReadRowsStand'
      BY <2>1, <2>3 DEF ReadRowsStand
    <2> QED BY <2>2, <2>4
  <1>3. CASE CacheExisting(s)
    <2>1. /\ pc[s] = "cache" /\ pc' = [pc EXCEPT ![s] = "idle"] /\ req' = [req EXCEPT ![s] = Nothing]
          /\ attached' = attached \ {s}
          /\ UNCHANGED <<rows, stale, refreshing, query, pruning, swept>>
      BY <1>3 DEF CacheExisting, Goto, storeVars, readerVars
    <2>2. \A q \in Requests : memory'[q] # memory[q] => q = req[s] /\ s \in attached
      BY <1>3 DEF CacheExisting
    <2>3. s \in attached => refreshing \/ rows[req[s]] # Nothing
      BY <2>1 DEF ReadRowsStand, Standing
    <2>4. NoGhosts'
      BY <2>1, <2>2, <2>3 DEF NoGhosts
    <2> QED BY <2>1, <2>4, ReadersElsewhere DEF Standing
  <1>4. CASE Prepare(s)
    <2>1. /\ pc[s] = "prepare" /\ pc' = [pc EXCEPT ![s] = "store"]
          /\ UNCHANGED <<rows, stale, req, attached, refreshing, query, pruning, swept>>
      BY <1>4 DEF Prepare, Goto, storeVars, readerVars
    <2>2. \A q \in Requests : memory'[q] # memory[q] => q = req[s] /\ s \in attached
      BY <1>4 DEF Prepare
    <2>3. NoGhosts'
      BY <2>1, <2>2 DEF NoGhosts
    <2> QED BY <2>1, <2>3, ReadersElsewhere DEF Standing
  <1>5. CASE Store(s)
    <2>1. /\ pc[s] = "store" /\ req[s] \in Requests /\ Insert(req[s])
          /\ pc' = [pc EXCEPT ![s] = "submit"]
          /\ UNCHANGED <<memory, req, attached, refreshing, query, pruning, swept>>
      BY <1>5 DEF Store, Goto, WritesSucceed, readerVars
    <2>2. RowsStay /\ Standing \subseteq Standing' /\ rows'[req[s]] # Nothing
      BY <2>1, InsertDoes, WritesStay, BlankTyped
    <2>3. NoGhosts'
      BY <2>1, <2>2 DEF NoGhosts, RowsStay
    <2> QED BY <2>1, <2>2, <2>3, ReadersElsewhere
  <1> QED BY <1>1, <1>2, <1>3, <1>4, <1>5

\* A task adds no entry and takes no row away (process_and_submit_request,
\* check_market_status, update_request_status).
LEMMA TaskGhosts ==
    ASSUME GhostInv, TypeOK', NEW s \in Submissions,
           \/ SubmitFails(s) \/ SubmitAccepted(s) \/ Acknowledge(s) \/ AcknowledgeLost(s)
           \/ CheckMarket(s) \/ Deadline(s) \/ Remember(s) \/ Persist(s) \/ Forget(s)
    PROVE  GhostInv'
  <1> USE Types DEF GhostInv
  <1>1. /\ pc[s] \notin {"idle", "cache", "prepare", "store"}
        /\ pc'[s] \notin {"cache", "store"}
        /\ \A t \in Submissions \ {s} : pc'[t] = pc[t]
        /\ attached \ {s} \subseteq attached' /\ attached' \subseteq attached
        /\ UNCHANGED <<req, refreshing, query, pruning, swept>>
    BY DEF SubmitFails, SubmitAccepted, Acknowledge, AcknowledgeLost, CheckMarket, Deadline,
           Remember, Persist, Forget, AfterRecording, StartForgetting, KeepPolling, Finish, Record, Goto,
           RecordingPcs, readerVars
  <1>2. RowsStay /\ Standing \subseteq Standing'
    <2>1. CASE Persist(s)
      <3>1. req[s] \in Requests /\ obs[s] \in Tracked /\ Update(req[s], obs[s])
        BY <2>1 DEF Persist
      <3> QED BY <3>1, WritesStay
    <2>2. CASE UNCHANGED <<rows, stale>>
      BY <2>2 DEF RowsStay, Standing
    <2> QED BY <2>1, <2>2 DEF SubmitFails, SubmitAccepted, Acknowledge, AcknowledgeLost, CheckMarket,
               Deadline, Remember, Forget, storeVars
  <1>3. \A r \in Requests : memory'[r] # Nothing => memory[r] # Nothing
    BY DEF SubmitFails, SubmitAccepted, Acknowledge, AcknowledgeLost, CheckMarket,
           Deadline, Remember, Persist, Forget
  <1>4. NoGhosts'
    BY <1>1, <1>2, <1>3, GhostsElsewhere
  <1> QED BY <1>1, <1>2, <1>4, ReadersElsewhere

\* What a query puts into the map is still in the table (get_request_status).
LEMMA QueryGhosts ==
    ASSUME GhostInv, TypeOK', (\E r \in Requests : QueryRead(r)) \/ QueryCache
    PROVE  GhostInv'
  <1> USE Types DEF GhostInv
  <1>1. CASE \E r \in Requests : QueryRead(r)
    <2>1. PICK r \in Requests : QueryRead(r)
      BY <1>1
    <2>2. /\ rows[r] # Nothing /\ query' = [req |-> r, seen |-> rows[r]]
          /\ UNCHANGED <<rows, stale, memory, pc, req, attached, refreshing, pruning, swept>>
      BY <2>1 DEF QueryRead, storeVars, taskVars
    <2>3. NoGhosts' /\ ReadRowsStand'
      BY <2>2 DEF NoGhosts, ReadRowsStand, Standing
    <2> QED BY <2>3
  <1>2. CASE QueryCache
    <2>1. /\ query # Nothing /\ query.req \in Requests /\ query' = Nothing
          /\ UNCHANGED <<rows, stale, pc, req, attached, refreshing, pruning, swept>>
      BY <1>2 DEF QueryCache, Queries, storeVars, taskVars
    <2>2. \A r \in Requests : \/ memory'[r] \in {memory[r], Nothing}
                              \/ r = query.req /\ Active(query.seen)
      BY <1>2, <2>1 DEF QueryCache, Active
    <2>3. NoGhosts'
      BY <2>1, <2>2 DEF NoGhosts, ReadRowsStand, Standing
    <2>4. ReadRowsStand'
      BY <2>1 DEF ReadRowsStand, Standing
    <2> QED BY <2>3, <2>4
  <1> QED BY <1>1, <1>2

\* A row grows old only when no reader has read it, and the clean-up takes
\* none that a reader counts on (start_ttl_cleanup_task).
LEMMA CleanupGhosts ==
    ASSUME TasksAreQuick, GhostInv, TypeOK',
           \/ \E r \in Requests : Age(r)
           \/ \E S \in SUBSET Requests : CleanupDelete(S)
           \/ CleanupForget
    PROVE  GhostInv'
  <1> USE Types DEF GhostInv
  <1>1. ASSUME NEW r \in Requests, Age(r) PROVE GhostInv'
    <2>1. /\ stale' = stale \union {r}
          /\ \A s \in Submissions : pc[s] \notin {"idle", "done"} => req[s] # r
          /\ query # Nothing => query.req # r
          /\ UNCHANGED <<rows, memory, pc, req, attached, refreshing, query, pruning, swept>>
      BY <1>1 DEF Age, Quiet, TasksAreQuick, taskVars, readerVars
    <2>2. NoGhosts' /\ ReadRowsStand'
      BY <2>1 DEF NoGhosts, ReadRowsStand, Standing
    <2> QED BY <2>2
  <1>2. ASSUME NEW S \in SUBSET Requests, CleanupDelete(S) PROVE GhostInv'
    <2>1. /\ \A r \in S : r \in stale /\ Terminal(rows[r])
          /\ swept' = S /\ swept = {}
          /\ rows' = [r \in Requests |-> IF r \in S THEN Nothing ELSE rows[r]] /\ stale' = stale \ S
          /\ UNCHANGED <<memory, pc, req, attached, refreshing, query, pruning>>
      BY <1>2 DEF CleanupDelete, Delete, taskVars
    <2>2. \A r \in Standing : r \notin S /\ r \in Standing'
      BY <2>1 DEF Standing, Active
    <2>3. NoGhosts' /\ ReadRowsStand'
      BY <2>1, <2>2 DEF NoGhosts, ReadRowsStand
    <2> QED BY <2>3
  <1>3. CASE CleanupForget
    <2>1. /\ \A r \in Requests : memory'[r] = IF r \in swept THEN Nothing ELSE memory[r]
          /\ swept' = {}
          /\ UNCHANGED <<rows, stale, pc, req, attached, refreshing, query, pruning>>
      BY <1>3 DEF CleanupForget, storeVars, taskVars
    <2>2. NoGhosts' /\ ReadRowsStand'
      BY <2>1 DEF NoGhosts, ReadRowsStand, Standing
    <2> QED BY <2>2
  <1> QED BY <1>1, <1>2, <1>3

\* A refresh and a restart empty the map, and leave nothing read to be put
\* into it (get_or_refresh_prover, BoundlessProver::new).
LEMMA RefreshGhosts ==
    ASSUME GhostInv, TypeOK', BeginRefresh \/ EndRefresh \/ Restart
    PROVE  GhostInv'
  <1> USE Types DEF GhostInv
  <1>1. CASE BeginRefresh
    <2>1. refreshing' = TRUE
      BY <1>1 DEF BeginRefresh
    <2> QED BY <2>1 DEF NoGhosts, ReadRowsStand
  <1>2. CASE EndRefresh \/ Restart
    <2>1. (\A r \in Requests : memory'[r] = Nothing) /\ query' = Nothing /\ attached' = {}
      BY <1>2 DEF EndRefresh, Restart, EmptyMap
    <2> QED BY <2>1 DEF NoGhosts, ReadRowsStand
  <1> QED BY <1>1, <1>2

\* Every step of the agent, of its clients and of the market keeps ghosts out
\* of the map.
LEMMA NextGhosts ==
    ASSUME WritesSucceed, ClientsStay, NobodyPrunes, TasksAreQuick, GhostInv, TypeOK', [Next]_vars
    PROVE  GhostInv'
  <1> USE Types DEF GhostInv
  <1>1. ASSUME NEW s \in Submissions, TaskStep(s) \/ Disconnect(s) \/ Deadline(s) PROVE GhostInv'
    <2>1. ~ PersistFails(s) /\ ~ Disconnect(s)
      BY DEF PersistFails, Disconnect, WritesSucceed, ClientsStay
    <2>2. CASE CacheExisting(s) \/ Prepare(s) \/ Store(s)
      <3>1. req[s] \in Requests
        BY <2>2 DEF CacheExisting, Prepare, Store
      <3> QED BY <2>2, <3>1, HandlerGhosts
    <2> QED BY <1>1, <2>1, <2>2, TaskGhosts DEF TaskStep
  <1>2. ASSUME NEW s \in Submissions, NEW r \in Requests, PostNew(s, r) \/ PostExisting(s, r)
        PROVE  GhostInv'
    BY <1>2, HandlerGhosts
  <1>3. ASSUME NEW w \in adrift, LandAdrift(w) PROVE GhostInv'
    <2>1. /\ UNCHANGED <<memory, pc, req, refreshing, query, pruning, swept>>
          /\ attached' \subseteq attached
          /\ \A s \in attached : pc[s] = "store" => s \in attached'
          /\ w.req \in Requests /\ w.entry \in Tracked
          /\ Insert(w.req) \/ Update(w.req, w.entry)
      BY <1>3 DEF LandAdrift, Writes, readerVars
    <2>2. RowsStay /\ Standing \subseteq Standing'
      BY <2>1, WritesStay
    <2>3. NoGhosts' /\ ReadRowsStand'
      BY <2>1, <2>2, GhostsElsewhere DEF ReadRowsStand
    <2> QED BY <2>3
  <1>4. ~ PruneTable
    BY DEF PruneTable, NobodyPrunes
  <1>5. CASE PruneMap
    <2>1. /\ \A r \in Requests : memory'[r] = Nothing
          /\ UNCHANGED <<rows, stale, pc, req, attached, refreshing, query>>
      BY <1>5 DEF PruneMap, storeVars, taskVars
    <2> QED BY <2>1 DEF NoGhosts, ReadRowsStand, Standing
  <1>6. CASE (\E t \in ProofTypes : Upload(t)) \/ MarketStep \/ UNCHANGED vars
    <2>1. UNCHANGED <<rows, stale, memory, pc, req, attached, refreshing, query, pruning, swept>>
      BY <1>6 DEF Upload, MarketStep, vars, storeVars, taskVars, readerVars
    <2> QED BY <2>1 DEF NoGhosts, ReadRowsStand, Standing
  <1> QED BY <1>1, <1>2, <1>3, <1>4, <1>5, <1>6, QueryGhosts, CleanupGhosts, RefreshGhosts DEF Next

\* When writes succeed, clients stay, nobody prunes and tasks are quick, the
\* map holds no entry of a request that the table has lost, or never had, but
\* for the steps that end with one or the other, also when POSTs overlap,
\* polls are cut short and the process restarts (prepare_async_request,
\* start_ttl_cleanup_task).
THEOREM MapHasNoGhosts ==
    WritesSucceed /\ ClientsStay /\ NobodyPrunes /\ TasksAreQuick => (Spec => []NoGhosts)
  <1> SUFFICES ASSUME WritesSucceed, ClientsStay, NobodyPrunes, TasksAreQuick
               PROVE  Spec => []NoGhosts
    OBVIOUS
  <1>1. Init => GhostInv
    BY InitTyped DEF Init, GhostInv, NoGhosts, ReadRowsStand
  <1>2. GhostInv /\ [Next]_vars => GhostInv'
    BY NextTyped, NextGhosts DEF GhostInv
  <1>3. GhostInv => NoGhosts
    BY DEF GhostInv
  <1> QED BY <1>1, <1>2, <1>3, PTL DEF Spec
=============================================================================
