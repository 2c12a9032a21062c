# Verification of the Boundless agent

TLA+ models, TLC runs and TLAPS proofs about the agent in `src/`: a web service
that takes proof requests, submits each to the Boundless Market, polls the
market and keeps the result for the client.

## 1. The system

| part | state | operations |
|---|---|---|
| request tracker, `BoundlessProver` (`src/boundless.rs`) | `active_requests` (a map behind an async `RwLock`) | `batch_run`, `aggregate`, the task they spawn (`process_and_submit_request`), its poller (`start_status_polling`, `poll_market_status`, `handle_polling_timeout`), `get_request_status`, `list_active_requests`, `delete_all_requests`, `start_ttl_cleanup_task` |
| request store, `BoundlessStorage` (`src/storage.rs`) | one SQLite table, `boundless_requests` | insert-or-replace, update of a status, look-up by id and by input hash, lists and statistics, delete by age, delete by TTL, delete all; a prover and its clones share one connection, whose thread takes the calls in turn |
| image manager (`src/image_manager.rs`) | two slots, batch and aggregation: image id, ELF, market URL, time to refresh | `store_and_upload_image`, getters |
| application state (`src/main.rs`) | the current prover and when it was made, the rate limiter, the image manager | `get_or_refresh_prover` replaces the prover, and its map, every `url_ttl` |
| rate limiter (`src/rate_limit.rs`) | per IP, a count and the start of a window | `check`, `cleanup` |
| HTTP handlers (`src/api/`) | none | POST /proof, GET /status, GET /requests, DELETE /prune, GET /stats, POST /upload-image, GET /images |
| configuration and offers (`src/boundless.rs`, `src/main.rs`) | the merged configuration | `BoundlessConfig::merge` and its getters, deployments, `build_boundless_request` |
| Boundless Market | external | a request is open, locked, fulfilled or expired |

How they interact. A handler takes the current prover from the application
state, which may replace it first. A POST looks for a row with the same input
and type; a row under way or fulfilled answers the client, otherwise the
request goes into the map, then into the table, and a task is spawned. The task
needs an image and its URL, uploads the input, submits to the market, records
`Submitted` in map and table, and spawns the poller. The poller asks the market
every ten seconds, records what it hears in map and table, and stops at a
terminal status or after an hour. GET /status reads the table first, corrects
the map by what it read, and falls back to the map. A prune empties the table
and then the map. An hourly task deletes terminal rows older than twelve hours
from the table and then the map. A new prover deletes rows older than an hour
that are not fulfilled, uploads the images again when their URLs are due, and
starts with an empty map and a new clean-up task; tasks of the old one go on
with the old map and the shared table.

What is hard. Everything above awaits between its reads and its writes, and no
lock spans the table and the map, or the reading and the writing of an image
slot. Handlers are dropped when clients hang up, polls are dropped by their
deadline, and a dropped storage call may still be carried out by the thread of
its connection. The market may have accepted what the agent believes failed.
Writes fail, the process restarts, and only the table survives. Several clocks
run against each other: the URL's expiry, the age of the prover, the clean-up
timer, the age of rows, the windows of the limiter. `PROJECT.json` lists these
hazards at their lines.

What makes each part correct:

* tracker: a record never claims more than the market did, nor another
  request's market id; one submission at a time per input; every row under way
  has its task, and every task its row; what can be charged is not given up; a
  request follows the published life cycle and ends; a
  delivered proof is stored; an input is paid for once; the map leaks nothing.
* store: lists and counts tell what GET /status tells; a row goes only when it
  is overdue; a purge reports only what is gone.
* images and refresh: the URL given to the market is valid; a refresh never
  undoes an upload, nor starves the clean-up.
* rate limiter: bounded bursts, no refusal without cause, no entry for ever.
* settings: each kind is offered on its own terms, the node, the deployment
  type and the order stream are those the file states, and the times of an
  offer stay in order.

## 2. Modules

| module | what it is |
|---|---|
| `BoundlessMarket` | the market, external; a market request is named by the submission that created it, because retries resend the same `ProofRequest` |
| `ProofAgent` | the tracker over the table and the map, with its properties |
| `ProofLifecycle` | abstract specification: what a client is promised about one request; `ProofAgent` implements it |
| `ImageManager` | the image slots and the steps of an upload |
| `ProverRefresh` | `ImageManager` composed with the refresh of the prover, uploads, submissions and the clean-up timer, in time |
| `RateLimiter` | the limiter and its clean-up task, in time |
| `RequestTable` | abstract specification of the store: which rows may go when |
| `RequestStore` | the SQL of the store over rows that tell their status twice; it implements `RequestTable` |
| `Settings` | configuration file, merge, deployment, offers in u32 arithmetic |
| `MC...` | instances for TLC |
| `ProofAgentProofs`, `ProofAgentTaskProofs`, `ProofAgentOnceProofs`, `ProofAgentSerialProofs`, `ProverRefreshProofs`, `RateLimiterProofs`, `RequestStoreProofs`, `SettingsProofs` | theorems |

Operators named `Faulty...` are not part of a model: each is a plausible error
in the definition below it, used to see that the properties notice it.

### ProofAgent

State. `rows` is the table, `stale` the rows whose `updated_at` is over an hour
old, `adrift` the writes whose caller was dropped; `memory` is the map of the
current prover and `attached` the submissions that share it (the others hold
the map of a replaced prover); `pc`, `req`, `obs`, `why` are the handlers and
tasks: where each is, for which request, and what it has read or is about to
record; `query`, `pruning`, `swept` hold the half-done GET /status, DELETE
/prune and TTL clean-up; `images` and `refreshing` are what matters of the
image manager and of `get_or_refresh_prover` to the tracker. An entry holds the
market id twice, as `AsyncProofRequest` does: in the status (`id`) and in the
field `market_request_id` (`column`).

Steps. One action is the code between two awaits that touch shared state; one
storage call is one atomic statement (its three attempts at a locked database
included); retries of market calls are folded into their outcome.

| code | actions |
|---|---|
| `batch_run`, `aggregate`: look-up | `PostNew`, `PostExisting`, then `CacheExisting` |
| `prepare_async_request` | `Prepare` (map), `Store` (table) |
| handler dropped, write carried out without its caller | `Disconnect`, `LandAdrift` |
| `process_and_submit_request` | `SubmitFails`, `SubmitAccepted`, `Acknowledge`, `AcknowledgeLost` |
| `update_request_status` | `Remember` (map), `Persist` or `PersistFails` (table), `Forget` (map) |
| `check_market_status`, `poll_market_status` | `CheckMarket` with `Answers` |
| `timeout`, `handle_polling_timeout` | `Deadline` |
| `store_and_upload_image` | `Upload` |
| `get_request_status` | `QueryRead`, `QueryCache` |
| `delete_all_requests` | `PruneTable`, `PruneMap` |
| `start_ttl_cleanup_task` | `CleanupDelete`, `CleanupForget` |
| `get_or_refresh_prover`, `BoundlessProver::new` | `BeginRefresh`, `EndRefresh` |
| process stop and start | `Restart` |
| passing of time, the market | `Age`, `MarketStep` |

What does not change state is not an action: a fulfilled row answers a POST, a
look-up that fails ends it, a poll whose client cannot be built is repeated,
lists and statistics only read.

Connections. A prover and its clones send their storage calls to one thread,
which takes them in turn. A caller that is dropped while it waits leaves its
write behind: `adrift` holds it, `LandAdrift` carries it out. No later call on
that connection overtakes it (`ConnectionFree`, `CurrentFree`), so such a write
matters between the timeout that cut a poll and the `Failed` the timeout then
records, between an old prover and its successor, and at a crash. Tasks of
provers replaced earlier are kept apart from each other, which allows a little
more reordering than there is.

The constant `Disturbances` says which of the harmful circumstances an
instance allows: `overlap`, `disconnect`, `deadline`, `cut`, `lasting`, `rpc`,
`decode`, `storage`, `prune`, `slow`, `crash`. `TypeCorrect` and `NeverAhead` hold for
every choice. A run or theorem that excludes one states an assumption under
which its properties hold; the table of section 5 says which property needs
which.

`rpc` and `decode` are the two ways in which `check_market_status` comes to call
a request failed that has not expired: a market call that still fails after its
retries, at any state of the request, and a delivered proof that does not
decode or lacks its journal.

`deadline` and `lasting` belong together. A poll ends after an hour, and a row
is old after an hour; the market request behind it may still be open then, as
its own timeout is set by the offer (64800 s for a batch by default, see
Settings). With `lasting` it may; without it, an hour passes for a submission
only once its market request is settled (`HourMayPass`).

Abstractions. Input, output, proof and error texts are left out; the input
hash and the request id are both functions of input and type, so a row is found
by its request. Taking the prover and looking up the row is one step. Time is
`Age`: unless `slow` is on, a row grows old only while nobody is between two
steps on its request (a poller renews its row every ten seconds). That a
dropped call which has been handed to its connection's thread is carried out,
and that a client that hangs up drops its handler, is how the SQLite wrapper
and the HTTP server in use work, which are outside the repository.

### ImageManager and ProverRefresh

State: `now`; `slots` by type, each with its image, the time its URL was made
and the time it is due for renewal; `calls`, the uploads under way by caller;
`born`, the age of the prover counted from (`prover_init_time`); `refresh`, the
refresh under way with its stage and the ELF it has taken from the slot;
`ready`, `posts`, `acked`, the clients; `cleanAt`, `cleaned`, the clean-up timer.

| code | actions |
|---|---|
| `store_and_upload_image` | `Reusable`, `StartUpload`, `Mint`, `Keep`, `GiveUp` |
| `upload_image_handler` | `GetProver`, `UploadReuses`, `UploadStarts`, `UploadKeeps`, `UploadFails`, `UrlIsMade` |
| `get_or_refresh_prover` | `BeginRefresh`, `EndRefresh`, `RefreshFails` |
| `BoundlessProver::new`, images | `RefreshReads`, `RefreshReuses`, `RefreshUploads`, `RefreshKeeps` |
| POST /proof to its submission | `Post`, `TakeUrl`, `PostEnds` |
| `start_ttl_cleanup_task` | `CleanUp`, and its restart in `EndRefresh` |

One clock stands for `SystemTime` and `Instant`. `Slack` (from getting the
prover to submitting; a refresh) and `Lag` (from the making of a URL to its
storing) are assumptions about durations the code does not limit. A handler
dropped in the middle of a refresh is a `RefreshFails`, as is an upload that
fails; the old prover stays and the next handler tries again, so that until a
refresh succeeds every handler answers 500. `Overlap` says whether a refresh
may begin while an upload is under way. Table and map are the matter of
`ProofAgent`, whose `BeginRefresh` and `EndRefresh` are the same two steps seen
from there.

### RateLimiter

`state` is the count and window of each address, `cleanAt` the timer of the
task in `main`; `log` and `refused` are history variables. `Admit` and `Refuse`
are `check` answering true or false, `Cleanup` is `cleanup`; each holds the
lock throughout and is one step. `check` starts a new window when the age is
above 60 s, `cleanup` removes an entry of 60 s: at exactly 60 s they differ, so
an interval of exactly that length, closed on both sides, can see more than
twice the limit; `BurstBounded` speaks of less than a window's length.

### RequestTable and RequestStore

A row tells its status as JSON, in which the statements look for status names
(`LIKE`), and as `status_code`, which is NULL in rows from before that column.
The JSON of a failure holds an error text, which may name another status
(`words`). Each `WHERE` of `storage.rs` is an operator (`ListedActive`,
`ListedPending`, `CountedAs`, `HourSelects`, `HourDeletes`, `TtlSelects`,
`TtlDeletes`); `StoreRequest`, `UpdateStatus`, `DeleteAll` write; a purge is
`Select` and `Delete`, two statements with no transaction, between which the
clock moves and another connection may write. `get_stats`, four queries that
only read, is checked statement by statement: rows may change between them.

What the code does that one might not expect, and the properties respect: the
DELETE of `delete_expired_requests` removes failed rows that its SELECT leaves
out, and keeps failed rows whose text holds the word Fulfilled
(`storage.rs:567-599`); rows without a time to live are never removed once
fulfilled. `RequestTable` says what may go, not that it goes.

### Settings

`Load` is `main` merging the file into the defaults, `NewProver` takes the
effective deployment, `BuildRequest` is the offer of `build_boundless_request`:
`Seconds` is the u32 product by 6000 Mcycles and the division by 1000, `OfferOf`
caps the ramp-up by the lock. Prices and collateral are parsed to 256 bits and
passed on, and left out (`min_price` is not used). A prover's deployment is the
type and, by key, what replaces the type's own address: `Applies` is the one
look-up of `get_effective_deployment`. With large settings the
products panic in a debug build and wrap in a release build; the model wraps,
and `OffersInOrder` is about products that fit. The default RPC URL is that of
Base while the default deployment is Sepolia (`main.rs:118`,
`boundless.rs:251`): `NodeAndStreamAsStated` only speaks of what a file states.

The files of the model are those that parse. Parsing ignores keys it does not
know, and every key of `BoundlessConfig` is optional, so the example in
`src/README.md:64-82`, whose keys are `boundless` and `prover`, is a file that
states nothing, and the agent starts with the defaults. The parameters of an
offer are not optional: `src/config/config.example.json` names the times and the
collateral differently (`lock_timeout_sec`, `timeout_sec`,
`lock_collateral_per_mcycle`), so `main` refuses it and does not start.
`DEPLOYMENT_CONFIG_EXAMPLES.md`, to which `src/README.md:93` refers, is not in
the repository.

## 3. Runs that pass

| run | instance | shows |
|---|---|---|
| `storm` | two submissions, one request; overlap, disconnect, deadline, cut, lasting, storage, prune, crash together | `TypeOK`, `NeverAheadOfMarket` |
| `serial` | two submissions, one request; deadline, lasting, rpc, decode; fairness | `OneWorkingSubmission`, `Tended`, `WorkIsOnRecord`, `TerminalLeavesMap`, `NoGhosts`, the refinement `FollowsLifecycle`, and `EveryRequestEnds` |
| `delivery` | two submissions, one request; disconnect, lasting; fairness | `PaysOnce`, `ChargeableIsUnderWay`, `DeliveredNeverFails`, `ProofIsStored` |
| `refresh` | two images, one uploader, one submitter; instants 1 to 10, expiry 7, buffer 4, `url_ttl` 2, period 1, slack 1, lag 1; no refresh during an upload | `TypeOK`, `UrlStillValid`, `UploadStands`, `CleanupNotStarved` |
| `limiter` | two addresses, limit 2, window 2, period 3, instants 1 to 7 | `TypeOK`, `BurstBounded`, `EntriesExpire`, `RefusedWithCause` |
| `store` | two rows, two connections, an hour of 1 and a life of 2, instants 1 to 4; error texts that name "fulfilled" or "locked"; rows of older versions | `TypeOK`, `ListsTruthful`, `ReportedAreGone`, the refinement `ImplementsTable` |
| `settings` | every file that states some of deployment, overrides and URL, or some of the offers, with three values of each time | `OffersAsStated`, `NodeAndStreamAsStated`, `OffersInOrder` |

`serial` assumes that POST handlers do not overlap, that clients stay, that
storage works, that nobody prunes and the process does not stop; `delivery`
lets clients hang up, and assumes besides that no poll reaches the hour, that
market calls succeed and that proofs decode. In all three tracker runs submissions fail, market requests expire, rows age, and
refreshes, purges, clean-ups, uploads and status queries happen at any time.

Bounds.

* Tracker. The number of submissions is the only bound; a handler that reuses a
  row gives its name back, so reuse is unbounded, and so are refreshes,
  queries, prunes, restarts and clean-ups. Two submissions are enough for every
  race the code has between two parties on one request, and for a request that
  fails and is retried; the third party, a query, prune, refresh or clean-up,
  is a process of its own. `storm` leaves out `rpc`, `decode` and `slow` for size. The
  theorems cover them, and more requests and submissions, for every safety
  property of these runs.
* Refresh. Ten instants are enough for a URL to be made, kept at one refresh,
  renewed at the next, and for several rounds of the clean-up. The durations meet
  the assumptions of the theorems, which hold for all durations.
* Limiter. Seven instants hold three windows and three rounds of the clean-up,
  which is out of step with the windows.
* Store. In four instants a row passes its hour, its life, and both again after
  a change; two connections interleave two purges with a write between their
  statements. Requests and connections are interchangeable, and no liveness is
  checked, so the symmetry is sound.
* Settings. The wrap is at 10^8, because 2^32 is out of TLC's range; the
  defaults fit below it and one of the values checked does not.

`limiter` and `store` switch the deadlock check off because their clocks stop
at the last instant; everywhere else it is on. Symmetry of submissions is used
in `storm` only, as it is not sound for liveness.

Fairness (`FairSpec` of `ProofAgent`). tokio runs every ready task, the thread
of a connection carries out what it was handed, and each call and retry loop
returns: weak fairness of each submission's task and of the writes adrift. The
polling deadline, once elapsed, is noticed at the next await of a poller that
does not finish, and `pc = "poll"` comes back at every poll, so it is strongly
fair. No fairness is assumed of clients, of the market, of refreshes or of
clean-up.

## 4. Runs that show a disagreement

| run | code | what is said |
|---|---|---|
| `overlapping_posts` | two overlapping POSTs of one input both submit it | deduplication, `boundless.rs:1122` |
| `deadline_cuts_poll` | the timeout cuts a poll whose write has been or is being carried out: a fulfilled row turns failed | life cycle, `boundless_agent_api.rs:32` |
| `restart_orphans` | a request recorded as submitted is not polled after a restart | "need status polling", `storage.rs:403` |
| `stale_url` | with the default `url_ttl` of 1800 s and an expiry of an hour, a refresh keeps a URL that expires before the next refresh | "ensures fresh presigned URLs", `boundless.rs:732` |
| `refresh_undoes_upload` | a refresh that read the old ELF of a slot writes it back over a newer upload | "only new URLs are generated", `boundless.rs:733` |

The first three allow exactly one disturbance of `ProofAgent`; the last two are
instances of `ProverRefresh` with the defaults in minutes (`Overlap` on). Each
checks one property. Four of them hold in a run of section 3; the fifth,
`PendingIsPolled`, says of submitted and locked rows what `Tended` says of every
row under way, so that TLC's trace must take a request to the market before it
stops the process.

More that the models show or that was seen while writing them, and that no run
of its own repeats:

* a handler dropped during its insert leaves a row in preparation that no task
  works for and that answers later POSTs (`boundless.rs:824`);
* a failed write of a terminal status ends the task, and leaves the terminal
  entry in the map and the row under way (`boundless.rs:882`);
* a handler or query that read its row before a prune puts it back into the map
  after it (`boundless.rs:1406`, `:1458`);
* a status query that keeps failing becomes `Ok(Failed)` and ends the polling
  of an open market request (`boundless.rs:682`); once retried, the input can
  be paid for twice. So can one whose market timeout, 64800 s by default for a
  batch, is longer than the hour of polling. A proof that the market has
  delivered can be given up by the same line, by the deadline, and when it does
  not decode (`boundless.rs:589`, `:600`): `DeliveredNeverFails` with `rpc`,
  `deadline` or `decode`;
* the column `market_request_id` keeps the zero it was inserted with
  (`storage.rs:267`; `boundless.rs:1097` says otherwise). `RecordInRow` says so;
* no `url_ttl` meets both assumptions of section 5: at most about 120 s for the
  URLs and at least 3600 s for the clean-up. With the default, steady traffic
  keeps the hourly clean-up from ever running;
* of the overrides in a configuration file only `order_stream_url` has an effect
  (`boundless.rs:332-341`), where the comments speak of "merging with base
  deployment" and "Apply deployment overrides if provided" (`boundless.rs:323`,
  `:331`): an agent given another market address goes on talking to the market
  of its deployment type, without a word. `NodeAndStreamAsStated` says so;
* the upload handler answers "already_exists" whenever both slots are filled,
  also when it has just replaced an image (`handlers.rs:612`).

## 5. Theorems

All from the named assumptions of the modules only: the marks of absence differ
from everything else, durations and limits are natural numbers.

`ProofAgentProofs`, for all sets of submissions and requests and all choices of
`Disturbances`:

* `TypeCorrect`: `Spec => []TypeOK`.
* `NeverAhead`: `Spec => []NeverAheadOfMarket`. A row, a map entry, a status
  about to be recorded, a dropped write and a half-done query may each be
  arbitrarily out of date, but never claims what the market has not done nor
  names a market request of another request.

The argument for `NeverAhead`. By itself the property is not inductive: a
submission takes on a request when a handler starts, and gives it back when it
reuses a row, and nothing in the property says that no record names it then.
`IndInv` adds `Stages`: before it submits, a submission has no market request;
once accepted, it has one; an idle one is about to record nothing. Then each step
only moves market requests forward and keeps their owner
(`StepAdvances`), so whatever was confirmed stays confirmed (`ConfirmedLater`,
`OldConfirmed`); and each new record is an old one moved, a blank one, a merge
of two confirmed ones (`RecordConfirmed`) or an answer of the market
(`AnswersConfirmed`). `StepRows`, `StepMap`, `StepPending`, `StepAdrift` and
`StepQuery` go through the actions for one kind of record each.

The other theorems about `ProofAgent` are for all sets of submissions and
requests too, and each assumes away only what its property cannot bear. They
name their assumptions: `WritesSucceed` (no `storage`), `ClientsStay` (no
`disconnect`), `ProcessStays` (no `crash`), `PollsComplete` (no `cut`),
`NobodyPrunes` (no `prune`), `TasksAreQuick` (no `slow`), `PostsInTurn` (no
`overlap`), `MarketAnswers` (no `rpc`), `ProofsDecode` (no `decode`),
`HourSuffices` (no `lasting`),
`NoDeadline` (no `deadline`). `OneByOne` stands for `PostsInTurn`,
`WritesSucceed`, `PollsComplete`, `NobodyPrunes` and `TasksAreQuick`;
`NoneLeftBehind` for `HourSuffices`, or `NoDeadline` and `ProcessStays`.

| theorem | module | property | holds with | broken by |
|---|---|---|---|---|
| `RowsAreTended` | `ProofAgentTaskProofs` | `Tended` | overlap, deadline, cut, lasting, rpc, decode, prune, slow | disconnect, storage, crash |
| `EndedEntriesLeave` | `ProofAgentTaskProofs` | `TerminalLeavesMap` | all but two | cut, storage |
| `MapHasNoGhosts` | `ProofAgentTaskProofs` | `NoGhosts` | overlap, deadline, cut, lasting, rpc, decode, crash | disconnect, storage, prune, slow |
| `OneSubmissionWorks` | `ProofAgentOnceProofs` | `OneWorkingSubmission` | disconnect, deadline, lasting, rpc, decode, crash | overlap, cut, storage, prune, slow |
| `WorkersAreOnRecord` | `ProofAgentOnceProofs` | `WorkIsOnRecord` | disconnect, deadline, lasting, rpc, decode, crash | overlap, cut, storage, prune, slow |
| `NeverPaysTwice` | `ProofAgentOnceProofs` | `PaysOnce` | disconnect, decode, and deadline and crash or else lasting | overlap, cut, rpc, storage, prune, slow; lasting with deadline or crash |
| `ChargeableStaysUnderWay` | `ProofAgentOnceProofs` | `ChargeableIsUnderWay` | disconnect, decode, and deadline and crash or else lasting | overlap, cut, rpc, storage, prune, slow; lasting with deadline or crash |
| `DeliveredIsNotFailed` | `ProofAgentOnceProofs` | `DeliveredNeverFails` | disconnect, lasting, crash | overlap, deadline, cut, rpc, decode, storage, prune, slow |
| `StoredProofStays` | `ProofAgentOnceProofs` | `ProofStays`, stated there | deadline, lasting, rpc, decode, crash | overlap, disconnect, cut, storage, prune, slow |
| `ImplementsLifecycle` | `ProofAgentSerialProofs` | `FollowsLifecycle` | deadline, lasting, rpc, decode | overlap, disconnect, cut, storage, prune, slow, crash |

The last column was found with TLC: in a copy of `serial.cfg` or `delivery.cfg`
that checks the property with one of these disturbances and no other, two
submissions for one request violate it (`PaysOnce` with `cut` needs a third). So
no theorem assumes away more than its property needs.

The arguments. No property is inductive by itself.

* `RowsAreTended`. `TendInv` adds that a task records its own market request or
  none (`OwnMarketId`), and that a write whose caller was cut off belongs to a
  task that is recording its timeout (`OwnWrites`). The order of calls on a
  connection keeps `Persist` behind such a write, so a row that the write leaves
  under way still has its task (`LandTends`, `PersistTends`).
* `EndedEntriesLeave`. `LeaveInv` says what the task in question holds, not only
  where it is: it is about to remove the entry, or to store an ended status
  (`TerminalEntries`); and a row read for the map was under way when it was read
  (`CachedUnderWay`).
* `MapHasNoGhosts`. `GhostInv` adds that a row read as under way is still there
  when it is put into the map (`ReadRowsStand`): it stays `Standing`, not old
  when it has ended, since nobody is between two steps on a request for an hour.
* `OneSubmissionWorks`, `WorkersAreOnRecord`. `OnceInv` adds that a submission past its insert has its
  row, under way, not old, and naming nobody else (`WorkersHaveRows`). Hence a
  POST that finds no row or a failed one finds nobody working (`NobodyWorks`):
  a stored submission would have a row under way, and an unstored one is a
  handler that has not finished. Only inserts are ever without a caller, and
  they leave a row under way (`LandOnce`). `WorkersAreOnRecord` is the other half
  of the same invariant: what a retry removes from the map of the submission
  that follows it is still in the table.
* `NeverPaysTwice`, `ChargeableStaysUnderWay`. `PayInv`: a market request that can be charged has its row
  under way and not old, and either its task on the way to the next poll with
  no ended status in hand, or, after a restart, nobody at all (`KeptOpen`),
  and then the row keeps every later POST from starting; and there is one such
  market request for an input (`OneUnsettled`). `ChargeableStaysUnderWay` is
  the first half of it. `NoneLeftBehind` is used where
  the deadline passes (`RecordPays`) and where rows grow old (`WorldPays`).
* `DeliveredIsNotFailed`. What a task is about to record as failed has no proof
  (`FailedUndelivered`): the market never had it, or it has expired, and
  both last. A row becomes failed only by the task it names (`FailsByItsTask`,
  from `OnceInv`).
* `StoredProofStays`. A task that has a status to write has its row under way
  (`WorkersHaveRows`), so it never writes over a proof; what is left is a handler
  about to insert, which chose to when there was no proof, and nobody has worked
  for its request since (`StayInv`, `StoredStay`).
* `ImplementsLifecycle`. On top of `OnceInv` and `Tended`, `FollowInv`: the row
  fits what its task does next (`InStep`), because nobody else works for it; only
  ended rows grow old (`OldRowsEnded`), because a row under way has a task,
  which is between two steps. `AnswersFollow`: the market never answers
  "submitted" for a locked row, by `OnceInv` and `NeverAhead` together. Then
  `Store`, `Persist` and the deletes are steps of `ProofLifecycle`, and every
  other step leaves the phases alone (`StepMoves`).

`ProverRefreshProofs`, for any clients, images and durations:

* `RefreshTypeCorrect`.
* `UrlsStayValid`, under `BufferSuffices`: `Ttl + Slack + Lag` is at most the
  buffer and less than the expiry. `UrlInv` says that every slot's URL outlives
  the current prover's life and a submission (`SlotInv`), slot by slot also for
  the prover that a refresh is making; that a submission is within its slack
  (`PostInv`) and an upload within its lag (`CallInv`).
* `CleanupRuns`, when `Ttl >= Period + Slack`: a timer that has been restarted
  runs out before it can be restarted again (`CleanInv`).
* `UploadsStand`, when no refresh begins during an upload: what a refresh has
  read is still what the slot holds (`UploadInv`).

`RateLimiterProofs`: `LimiterTypeCorrect`, `BurstsAreBounded`,
`EntriesDoExpire`, `RefusalsHaveCause`, for every limit, window, period and
number of addresses. The log of an address ends with as many admissions as its
window counts, all within it (`Fits`), and admissions more than a window's count
apart lie in different windows (`Orderly`); the timer bounds the age of entries
(`Swept`).

`RequestStoreProofs`: `StoreTypeCorrect`, `ListsAreTruthful`,
`StoreImplementsTable`, `ReportedIsGone`, for all rows, error texts and
durations. A row names its own status, and others only when it has failed; its
`status_code`, if any, is its status (`Consistent`). For `ReportedIsGone`: each
id that a purge under way has selected has no row, or one written since, or one
that its DELETE removes (`ReportInv`), for what is overdue stays so.

`SettingsProofs`: `SettingsTypeCorrect`, `OffersAreAsStated`,
`NodeAndStreamAreAsStated`, `OffersAreInOrder`, for every file and every modulus
above the defaults, 2^32 among them.

Only model-checked: the liveness properties `EveryRequestEnds` and
`ProofIsStored`, as the prover handles neither fairness nor ENABLED. Every other
property of the passing runs is proved. `PendingIsPolled`, checked by
`restart_orphans` only, is not: where nothing is broken it follows from
`RowsAreTended` and from a submitted row naming its market request.

## 6. Not modelled, and why

* HTTP validation, response wording, OpenAPI schemas, command line, router: no
  state of their own, or only formatting.
* `update` (`todo!()`), `store_elf_url` and its readers (stubs), `evaluate_cost`
  (unused): no behaviour.
* The attempts and delays of `retry_with_backoff`: its outcome is modelled
  wherever it is used, and nothing else depends on it.
* Prices and collateral, cryptography, seal decoding, the guest program: outside
  the agent's control logic.
* When provers of the market fetch the program by its URL: not in the code.
* Python clients and tests.

## 7. What could follow

1. `ProofAgent` and `ProverRefresh` share the refresh as two views; one
   composition, with the tracker's refresh guarded by `url_ttl`, would tie the
   `stale` of the one to the clock of the other.
2. The table of section 5 names what the code would have to change for a
   property to bear one disturbance more: a poll that resumes after a restart
   (`Tended` with `crash`), an insert and a spawn that cannot be parted
   (`disconnect`), a reader that re-checks its row (`NoGhosts` with `prune`), a
   deadline as long as the market's (`PaysOnce` with `lasting`).
3. Which image a seal is decoded with: the slot's at that moment, while the
   request was submitted with an earlier one (`boundless.rs:618`).
