---------------------------- MODULE ProverRefresh ----------------------------
(***************************************************************************)
(* AppState and the refresh of the prover (src/main.rs,                    *)
(* BoundlessProver::new), in time: when the prover is replaced, what that  *)
(* does to the images, to the URLs that submissions hand to the market,    *)
(* and to the hourly clean-up task.                                        *)
(*                                                                         *)
(* Every handler first gets the prover.  When it is older than url_ttl the *)
(* handler makes a new one while it holds the lock, and the others wait.   *)
(* The table and the map are the matter of ProofAgent.                     *)
(***************************************************************************)
EXTENDS ImageManager

CONSTANTS
    Submitters,   \* POST /proof handlers, each with the task it spawns
    Ttl,          \* url_ttl
    Period,       \* 3600 s: the interval of the clean-up task
    Slack,        \* longest time from getting the prover to submitting; and of a refresh
    Lag,          \* longest time from the making of a URL to its storing
    Instants,     \* the times the clock may show after the start
    Overlap       \* whether a refresh may begin while an image is uploaded

ASSUME TimesAssumption ==
    /\ Ttl \in Nat /\ Period \in Nat /\ Slack \in Nat /\ Lag \in Nat
    /\ Instants \subseteq Nat
    /\ Overlap \in BOOLEAN
ASSUME ClientsAssumption == None \notin Submitters \union Uploaders /\ Refresher \notin Uploaders

VARIABLES
    born,         \* prover_init_time
    refresh,      \* the refresh under way
    ready,        \* uploaders that have got the prover
    posts,        \* what each submitter has: when it got the prover, then its URL
    acked,        \* the image of the last upload that was answered, by type
    cleanAt,      \* when the clean-up task runs next
    cleaned       \* when it ran last, or the agent started

vars == <<now, slots, calls, born, refresh, ready, posts, acked, cleanAt, cleaned>>
clientVars == <<ready, posts, acked>>
cleanupVars == <<cleanAt, cleaned>>

Stages == Types \union {"finish"}
Refreshes == [by : Submitters \union Uploaders \union {None}, began : Nat,
              stage : Stages, elf : Images \union {None}]
Posts == [since : Nat, minted : Nat \union {None}]

ASSUME NoneApartAssumption == None \notin Refreshes \union Posts

TypeOK ==
    /\ ImageType
    /\ born \in Nat
    /\ refresh \in Refreshes \union {None}
    /\ ready \subseteq Uploaders
    /\ posts \in [Submitters -> Posts \union {None}]
    /\ acked \in [Types -> Images \union {None}]
    /\ cleanAt \in Nat
    /\ cleaned \in Nat

Init ==
    /\ ImageInit
    /\ born = 0
    /\ refresh = None
    /\ ready = {}
    /\ posts = [p \in Submitters |-> None]
    /\ acked = [t \in Types |-> None]
    /\ cleanAt = Period
    /\ cleaned = 0

-----------------------------------------------------------------------------
(* get_or_refresh_prover, BoundlessProver::new.                            *)

\* Fault: a prover as old as url_ttl is already replaced.
FaultyTooOld == now - born >= Ttl

TooOld == now - born > Ttl

\* The client has no request under way.
Free(x) == (x \in Submitters => posts[x] = None) /\ (x \in Uploaders => x \notin ready /\ calls[x] = None)

\* A handler that waits for no refresh and need not make one.
HandedOut == refresh = None /\ ~ TooOld

\* Images are refreshed only when there is one at this point.  (by = None: a
\* request that is neither a POST /proof nor an upload.)
BeginRefresh(x) ==
    /\ refresh = None /\ TooOld
    /\ Free(x)
    /\ Overlap \/ (ready = {} /\ \A u \in Uploaders : calls[u] = None)
    /\ refresh' = [by |-> x, began |-> now, elf |-> None,
                   stage |-> IF \A t \in Types : slots[t] = None THEN "finish" ELSE "batch"]
    /\ UNCHANGED <<now, imageVars, born, clientVars, cleanupVars>>

NextStage == IF refresh.stage = "batch" THEN "aggregation" ELSE "finish"

GoOn == refresh' = [refresh EXCEPT !.stage = NextStage, !.elf = None]

Refreshing(t) == refresh # None /\ refresh.stage = t /\ calls[Refresher] = None

\* Fault: the batch ELF is uploaded again as the aggregation image.
FaultyRefreshReads(t) ==
    /\ Refreshing(t) /\ refresh.elf = None
    /\ IF slots[t] = None THEN GoOn
       ELSE refresh' = [refresh EXCEPT
                          !.elf = IF slots["batch"] = None THEN slots[t].image
                                  ELSE slots["batch"].image]
    /\ UNCHANGED <<now, imageVars, born, clientVars, cleanupVars>>

\* The refresh takes the ELF of the slot ...
RefreshReads(t) ==
    /\ Refreshing(t) /\ refresh.elf = None
    /\ IF slots[t] = None THEN GoOn
       ELSE refresh' = [refresh EXCEPT !.elf = slots[t].image]
    /\ UNCHANGED <<now, imageVars, born, clientVars, cleanupVars>>

\* ... and stores it again, which may find its URL good enough.
RefreshReuses(t) ==
    /\ Refreshing(t) /\ refresh.elf # None
    /\ Reusable(t, refresh.elf)
    /\ GoOn
    /\ UNCHANGED <<now, imageVars, born, clientVars, cleanupVars>>

RefreshUploads(t) ==
    /\ Refreshing(t) /\ refresh.elf # None
    /\ StartUpload(Refresher, t, refresh.elf)
    /\ UNCHANGED <<now, born, refresh, clientVars, cleanupVars>>

RefreshKeeps ==
    /\ refresh # None
    /\ Keep(Refresher)
    /\ GoOn
    /\ UNCHANGED <<now, born, clientVars, cleanupVars>>

\* No client, no upload, or the handler that refreshes is dropped: the old
\* prover stays, and the next handler tries again.
RefreshFails ==
    /\ refresh # None
    /\ refresh' = None
    /\ GiveUp(Refresher)
    /\ UNCHANGED <<now, born, clientVars, cleanupVars>>

\* The old clean-up task is aborted and a new one started, whose first run is
\* one period away.  The handler goes on with the new prover, whose age is
\* counted from before the refresh.
EndRefresh ==
    /\ refresh # None /\ refresh.stage = "finish"
    /\ refresh' = None
    /\ born' = refresh.began
    /\ cleanAt' = now + Period
    /\ posts' = [p \in Submitters |->
          IF p = refresh.by THEN [since |-> refresh.began, minted |-> None] ELSE posts[p]]
    /\ ready' = ready \union ({refresh.by} \intersect Uploaders)
    /\ UNCHANGED <<now, imageVars, acked, cleaned>>

-----------------------------------------------------------------------------
(* POST /upload-image.                                                     *)

GetProver(u) ==
    /\ HandedOut /\ u \notin ready /\ calls[u] = None
    /\ ready' = ready \union {u}
    /\ UNCHANGED <<now, imageVars, born, refresh, posts, acked, cleanupVars>>

Answer(t, i) == acked' = [acked EXCEPT ![t] = i]

UploadReuses(u, t, i) ==
    /\ u \in ready
    /\ Reusable(t, i)
    /\ ready' = ready \ {u}
    /\ Answer(t, i)
    /\ UNCHANGED <<now, imageVars, born, refresh, posts, cleanupVars>>

UploadStarts(u, t, i) ==
    /\ u \in ready
    /\ StartUpload(u, t, i)
    /\ ready' = ready \ {u}
    /\ UNCHANGED <<now, born, refresh, posts, acked, cleanupVars>>

UploadKeeps(u) ==
    /\ Keep(u)
    /\ Answer(calls[u].type, calls[u].image)
    /\ UNCHANGED <<now, born, refresh, ready, posts, cleanupVars>>

UploadFails(u) ==
    /\ u \in ready \/ calls[u] # None
    /\ ready' = ready \ {u}
    /\ GiveUp(u)
    /\ UNCHANGED <<now, born, refresh, posts, acked, cleanupVars>>

UrlIsMade(c) ==
    /\ Mint(c)
    /\ UNCHANGED <<now, born, refresh, clientVars, cleanupVars>>

-----------------------------------------------------------------------------
(* POST /proof, as far as it touches the prover and the images.            *)

Post(p) ==
    /\ HandedOut /\ posts[p] = None
    /\ posts' = [posts EXCEPT ![p] = [since |-> now, minted |-> None]]
    /\ UNCHANGED <<now, imageVars, born, refresh, ready, acked, cleanupVars>>

\* The spawned task reads the slot: get_batch_image, get_aggregation_image.
TakeUrl(p, t) ==
    /\ posts[p] # None /\ posts[p].minted = None
    /\ slots[t] # None
    /\ posts' = [posts EXCEPT ![p].minted = slots[t].minted]
    /\ UNCHANGED <<now, imageVars, born, refresh, ready, acked, cleanupVars>>

\* The request goes to the market with the URL; or there is no image, an
\* existing request is answered, or the submission fails.
PostEnds(p) ==
    /\ posts[p] # None
    /\ posts' = [posts EXCEPT ![p] = None]
    /\ UNCHANGED <<now, imageVars, born, refresh, ready, acked, cleanupVars>>

-----------------------------------------------------------------------------
\* The timer of the clean-up task.
CleanUp ==
    /\ now = cleanAt
    /\ cleaned' = now
    /\ cleanAt' = now + Period
    /\ UNCHANGED <<now, imageVars, born, refresh, clientVars>>

\* Time passes, but no longer than the bounds allow and not past a timer.
Tick(later) ==
    /\ now < later /\ later <= cleanAt
    /\ \A c \in Callers : calls[c] # None /\ calls[c].minted # None => later <= calls[c].minted + Lag
    /\ \A p \in Submitters : posts[p] # None => later <= posts[p].since + Slack
    /\ refresh # None => later <= refresh.began + Slack
    /\ now' = later
    /\ UNCHANGED <<imageVars, born, refresh, clientVars, cleanupVars>>

Next ==
    \/ \E x \in Submitters \union Uploaders \union {None} : BeginRefresh(x)
    \/ \E t \in Types : RefreshReads(t) \/ RefreshReuses(t) \/ RefreshUploads(t)
    \/ RefreshKeeps \/ RefreshFails \/ EndRefresh
    \/ \E u \in Uploaders : GetProver(u) \/ UploadKeeps(u) \/ UploadFails(u)
    \/ \E u \in Uploaders, t \in Types, i \in Images : UploadReuses(u, t, i) \/ UploadStarts(u, t, i)
    \/ \E c \in Callers : UrlIsMade(c)
    \/ \E p \in Submitters : Post(p) \/ PostEnds(p) \/ \E t \in Types : TakeUrl(p, t)
    \/ CleanUp
    \/ \E later \in Instants : Tick(later)

Spec == Init /\ [][Next]_vars

-----------------------------------------------------------------------------
(***************************************************************************)
(* The URL that goes to the market with a request has not expired          *)
(* (BoundlessProver::new, "This ensures fresh presigned URLs after prover  *)
(* refresh/TTL expiration").                                               *)
(***************************************************************************)
UrlStillValid ==
    \A p \in Submitters :
        posts[p] # None /\ posts[p].minted # None => now < posts[p].minted + Expiry

(***************************************************************************)
(* What the last answered upload of a kind stored is what the slot holds:  *)
(* a refresh makes a new URL and nothing else.                             *)
(***************************************************************************)
UploadStands ==
    \A t \in Types : acked[t] # None => slots[t] # None /\ slots[t].image = acked[t]

(***************************************************************************)
(* Refreshes do not starve the clean-up task (start_ttl_cleanup_task,      *)
(* "Run hourly"): it has run within the last two periods, one of them for  *)
(* a restart of its timer.                                                 *)
(***************************************************************************)
CleanupNotStarved == now <= cleaned + 2 * Period
=============================================================================
