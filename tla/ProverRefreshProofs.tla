------------------------ MODULE ProverRefreshProofs ------------------------
(***************************************************************************)
(* Proofs about ProverRefresh, for every set of images and clients, every  *)
(* clock and every choice of the durations.                                *)
(***************************************************************************)
EXTENDS ProverRefresh, TLAPS

-----------------------------------------------------------------------------
(* Type correctness.                                                       *)

\* Making and storing a URL, and giving up, keep the images well formed
\* (store_and_upload_image).
LEMMA ImageTyped ==
    ASSUME ImageType, UNCHANGED now, NEW c \in Callers, NEW t \in Types, NEW i \in Images,
           StartUpload(c, t, i) \/ Mint(c) \/ Keep(c) \/ GiveUp(c)
    PROVE  ImageType'
  <1> USE NoneAssumption, DurationsAssumption DEF ImageType
  <1>1. CASE StartUpload(c, t, i)
    <2>1. [type |-> t, image |-> i, minted |-> None] \in Calls
      BY DEF Calls
    <2> QED BY <1>1, <2>1 DEF StartUpload
  <1>2. CASE Mint(c)
    <2>1. [calls[c] EXCEPT !.minted = now] \in Calls
      BY <1>2 DEF Mint, Calls
    <2> QED BY <1>2, <2>1 DEF Mint
  <1>3. CASE Keep(c)
    <2>1. calls[c] \in Calls /\ calls[c].minted \in Nat
      BY <1>3 DEF Keep, Calls
    <2>2. ValidFor \in Nat
      BY DEF ValidFor
    <2>3. [image |-> calls[c].image, minted |-> calls[c].minted, refreshAt |-> now + ValidFor] \in Infos
      BY <2>1, <2>2 DEF Calls, Infos
    <2> QED BY <1>3, <2>1, <2>3 DEF Keep, Calls
  <1>4. CASE GiveUp(c)
    BY <1>4 DEF GiveUp
  <1> QED BY <1>1, <1>2, <1>3, <1>4

\* A new agent is well formed (AppState::new, ImageManager::new).
LEMMA InitTyped == Init => TypeOK
  BY TimesAssumption DEF Init, ImageInit, TypeOK, ImageType

\* What a refresh does to its own state and the images stays well formed
\* (get_or_refresh_prover, BoundlessProver::new).
LEMMA RefreshTyped ==
    ASSUME TypeOK,
           \/ \E x \in Submitters \union Uploaders \union {None} : BeginRefresh(x)
           \/ \E t \in Types : RefreshReads(t) \/ RefreshReuses(t) \/ RefreshUploads(t)
           \/ RefreshKeeps \/ RefreshFails \/ EndRefresh
    PROVE  TypeOK'
  <1> USE DEF TypeOK, clientVars, cleanupVars, imageVars
  <1>0. Refresher \in Callers /\ None \notin Refreshes
    BY NoneApartAssumption DEF Callers
  <1>1. ASSUME refresh \in Refreshes, GoOn PROVE refresh' \in Refreshes
    BY <1>1 DEF GoOn, Refreshes, NextStage, Stages, Types
  <1>2. ASSUME NEW x \in Submitters \union Uploaders \union {None}, BeginRefresh(x) PROVE TypeOK'
    <2>1. refresh' \in Refreshes
      BY <1>2 DEF BeginRefresh, Refreshes, Stages, Types, ImageType
    <2> QED BY <1>2, <2>1 DEF BeginRefresh, ImageType
  <1>3. ASSUME NEW t \in Types, RefreshReads(t) PROVE TypeOK'
    <2>1. slots[t] # None => slots[t].image \in Images
      BY DEF ImageType, Infos
    <2>2. refresh' \in Refreshes
      BY <1>1, <1>3, <2>1 DEF RefreshReads, Refreshing, Refreshes
    <2> QED BY <1>3, <2>2 DEF RefreshReads, ImageType
  <1>4. ASSUME NEW t \in Types, RefreshReuses(t) PROVE TypeOK'
    <2>1. refresh' \in Refreshes
      BY <1>1, <1>4 DEF RefreshReuses, Refreshing
    <2> QED BY <1>4, <2>1 DEF RefreshReuses, ImageType
  <1>5. ASSUME NEW t \in Types, RefreshUploads(t) PROVE TypeOK'
    <2>1. refresh.elf \in Images
      BY <1>5 DEF RefreshUploads, Refreshing, Refreshes
    <2>2. ImageType'
      BY <1>0, <1>5, <2>1, ImageTyped DEF RefreshUploads
    <2> QED BY <1>5, <2>2 DEF RefreshUploads
  <1>6. CASE RefreshKeeps
    <2>1. \E t \in Types, i \in Images : TRUE
      BY <1>0, <1>6 DEF RefreshKeeps, Keep, ImageType, Calls
    <2>2. ImageType'
      BY <1>0, <1>6, <2>1, ImageTyped DEF RefreshKeeps
    <2>3. refresh' \in Refreshes
      BY <1>1, <1>6 DEF RefreshKeeps
    <2> QED BY <1>6, <2>2, <2>3 DEF RefreshKeeps
  <1>7. CASE RefreshFails
    BY <1>0, <1>7 DEF RefreshFails, GiveUp, ImageType
  <1>8. CASE EndRefresh
    <2>1. refresh \in Refreshes /\ refresh.began \in Nat
      BY <1>8 DEF EndRefresh, Refreshes
    <2>2. [since |-> refresh.began, minted |-> None] \in Posts
      BY <2>1 DEF Posts
    <2>3. now + Period \in Nat
      BY TimesAssumption DEF ImageType
    <2> QED BY <1>8, <2>1, <2>2, <2>3 DEF EndRefresh, ImageType
  <1> QED BY <1>2, <1>3, <1>4, <1>5, <1>6, <1>7, <1>8

\* So does what the clients, the clean-up task and the clock do
\* (upload_image_handler, batch_run, start_ttl_cleanup_task).
LEMMA ClientsTyped ==
    ASSUME TypeOK,
           \/ \E u \in Uploaders : GetProver(u) \/ UploadKeeps(u) \/ UploadFails(u)
           \/ \E u \in Uploaders, t \in Types, i \in Images :
                 UploadReuses(u, t, i) \/ UploadStarts(u, t, i)
           \/ \E c \in Callers : UrlIsMade(c)
           \/ \E p \in Submitters : Post(p) \/ PostEnds(p) \/ \E t \in Types : TakeUrl(p, t)
           \/ CleanUp
           \/ \E later \in Instants : Tick(later)
    PROVE  TypeOK'
  <1> USE DEF TypeOK, clientVars, cleanupVars, imageVars
  <1>0. Uploaders \subseteq Callers
    BY DEF Callers
  <1>1. ASSUME NEW u \in Uploaders, GetProver(u) PROVE TypeOK'
    BY <1>1 DEF GetProver, ImageType
  <1>2. ASSUME NEW u \in Uploaders, UploadKeeps(u) PROVE TypeOK'
    <2>1. calls[u] \in Calls
      BY <1>0, <1>2 DEF UploadKeeps, Keep, ImageType
    <2>2. ImageType' /\ acked' \in [Types -> Images \union {None}]
      BY <1>0, <1>2, <2>1, ImageTyped DEF UploadKeeps, Answer, Calls
    <2> QED BY <1>2, <2>2 DEF UploadKeeps
  <1>3. ASSUME NEW u \in Uploaders, UploadFails(u) PROVE TypeOK'
    BY <1>0, <1>3 DEF UploadFails, GiveUp, ImageType
  <1>4. ASSUME NEW u \in Uploaders, NEW t \in Types, NEW i \in Images, UploadReuses(u, t, i)
        PROVE  TypeOK'
    BY <1>4 DEF UploadReuses, Answer, ImageType
  <1>5. ASSUME NEW u \in Uploaders, NEW t \in Types, NEW i \in Images, UploadStarts(u, t, i)
        PROVE  TypeOK'
    <2>1. ImageType'
      BY <1>0, <1>5, ImageTyped DEF UploadStarts
    <2> QED BY <1>5, <2>1 DEF UploadStarts
  <1>6. ASSUME NEW c \in Callers, UrlIsMade(c) PROVE TypeOK'
    <2>1. [calls[c] EXCEPT !.minted = now] \in Calls
      BY <1>6 DEF UrlIsMade, Mint, Calls, ImageType
    <2> QED BY <1>6, <2>1 DEF UrlIsMade, Mint, ImageType
  <1>7. ASSUME NEW p \in Submitters, Post(p) PROVE TypeOK'
    <2>1. [since |-> now, minted |-> None] \in Posts
      BY DEF Posts, ImageType
    <2> QED BY <1>7, <2>1 DEF Post, ImageType
  <1>8. ASSUME NEW p \in Submitters, PostEnds(p) PROVE TypeOK'
    BY <1>8 DEF PostEnds, ImageType
  <1>9. ASSUME NEW p \in Submitters, NEW t \in Types, TakeUrl(p, t) PROVE TypeOK'
    <2>1. [posts[p] EXCEPT !.minted = slots[t].minted] \in Posts
      BY <1>9 DEF TakeUrl, Posts, ImageType, Infos
    <2> QED BY <1>9, <2>1 DEF TakeUrl, ImageType
  <1>10. CASE CleanUp
    BY <1>10, TimesAssumption DEF CleanUp, ImageType
  <1>11. ASSUME NEW later \in Instants, Tick(later) PROVE TypeOK'
    BY <1>11, TimesAssumption DEF Tick, ImageType
  <1> QED BY <1>1, <1>2, <1>3, <1>4, <1>5, <1>6, <1>7, <1>8, <1>9, <1>10, <1>11

\* Every step keeps the types.
LEMMA NextTyped == TypeOK /\ [Next]_vars => TypeOK'
  <1>1. UNCHANGED vars /\ TypeOK => TypeOK'
    BY DEF vars, TypeOK, ImageType
  <1> QED BY <1>1, RefreshTyped, ClientsTyped DEF Next

\* The clock, the slots, the uploads, the refresh and the clients keep their
\* types in every behaviour.
THEOREM RefreshTypeCorrect == Spec => []TypeOK
  BY InitTyped, NextTyped, PTL DEF Spec

-----------------------------------------------------------------------------
(* URLs are valid when they are used.  A prover is at most url_ttl old     *)
(* when it is handed out, so every slot must hold a URL that outlives the  *)
(* prover's beginning by url_ttl and the time of a submission (Outlives).  *)
(* A refresh re-establishes that for its own beginning slot by slot: a URL *)
(* it reuses is not due for renewal, so it is good for the buffer at least *)
(* but for the time its making took to be noted; one it makes is new.      *)

Outlives(info, start) == info.minted + Expiry > start + Ttl + Slack

\* The slots a refresh has gone through at a stage.
Passed(stage) == {t \in Types : stage = "finish" \/ (stage = "aggregation" /\ t = "batch")}

ClockInv ==
    /\ born <= now
    /\ refresh # None => born + Ttl < refresh.began /\ refresh.began <= now
    /\ refresh # None => now <= refresh.began + Slack

SlotInv ==
    \A t \in Types : slots[t] # None =>
        /\ Outlives(slots[t], born)
        /\ refresh # None /\ t \in Passed(refresh.stage) => Outlives(slots[t], refresh.began)
        /\ slots[t].refreshAt <= slots[t].minted + Lag + ValidFor
        /\ slots[t].refreshAt <= now + ValidFor

CallInv ==
    \A c \in Callers : calls[c] # None /\ calls[c].minted # None =>
        calls[c].minted <= now /\ now <= calls[c].minted + Lag

PostInv ==
    \A p \in Submitters : posts[p] # None =>
        /\ now <= posts[p].since + Slack
        /\ posts[p].minted = None => posts[p].since <= born + Ttl
        /\ posts[p].minted # None => posts[p].minted + Expiry > posts[p].since + Slack

\* An upload of the refresh is that of the ELF it took from the slot.
RefresherInv ==
    calls[Refresher] # None =>
        /\ refresh # None /\ refresh.stage \in Types /\ refresh.elf # None
        /\ calls[Refresher].type = refresh.stage
        /\ calls[Refresher].image = refresh.elf

UrlInv == TypeOK /\ ClockInv /\ SlotInv /\ CallInv /\ PostInv /\ RefresherInv

\* The whole chain fits into the buffer, and a new URL outlasts it.
BufferSuffices == Ttl + Slack + Lag <= Buffer /\ Ttl + Slack + Lag < Expiry

\* The durations, and the parts of the state, are numbers.
LEMMA Numbers ==
    ASSUME TypeOK
    PROVE  /\ {Ttl, Period, Slack, Lag, Expiry, Buffer, ValidFor, now, born} \subseteq Nat
           /\ refresh # None => refresh \in Refreshes /\ refresh.began \in Nat
           /\ \A t \in Types : slots[t] # None =>
                 slots[t].minted \in Nat /\ slots[t].refreshAt \in Nat
           /\ \A c \in Callers : calls[c] # None /\ calls[c].minted # None => calls[c].minted \in Nat
           /\ \A p \in Submitters : posts[p] # None =>
                 posts[p].since \in Nat /\ (posts[p].minted # None => posts[p].minted \in Nat)
  BY TimesAssumption, DurationsAssumption
     DEF TypeOK, ImageType, Infos, Calls, Posts, Refreshes, ValidFor

\* At the start nothing has a URL that could expire.
LEMMA InitUrl == Init /\ BufferSuffices => UrlInv
  BY InitTyped DEF Init, ImageInit, UrlInv, ClockInv, SlotInv, CallInv, PostInv,
                         RefresherInv, Callers

\* A URL just made outlives any prover made until now
\* (upload_with_refresh_meta).
LEMMA NewUrlOutlives ==
    ASSUME UrlInv, BufferSuffices, NEW c \in Callers, Keep(c), UNCHANGED <<now, born>>
    PROVE  \A t \in Types : t = calls[c].type \/ slots'[t] # slots[t] =>
              /\ slots'[t].minted \in Nat /\ slots'[t].refreshAt \in Nat
              /\ Outlives(slots'[t], now)
              /\ slots'[t].refreshAt <= slots'[t].minted + Lag + ValidFor
              /\ slots'[t].refreshAt <= now + ValidFor
  <1> DEFINE new == [image |-> calls[c].image, minted |-> calls[c].minted, refreshAt |-> now + ValidFor]
  <1>1. /\ calls[c].minted \in Nat /\ calls[c].minted <= now /\ now <= calls[c].minted + Lag
        /\ {Ttl, Slack, Lag, Expiry, ValidFor, now} \subseteq Nat
    BY Numbers DEF UrlInv, CallInv, Keep
  <1>2. \A t \in Types : t = calls[c].type \/ slots'[t] # slots[t] => slots'[t] = new
    BY DEF Keep, UrlInv, TypeOK, ImageType
  <1>3. Outlives(new, now) /\ new.refreshAt <= new.minted + Lag + ValidFor
    BY <1>1 DEF Outlives, BufferSuffices
  <1> QED BY <1>1, <1>2, <1>3

\* A URL that is not due is good for a whole url_ttl from now on.
LEMMA ReusedUrlOutlives ==
    ASSUME UrlInv, BufferSuffices, NEW t \in Types, NEW i, Reusable(t, i)
    PROVE  Outlives(slots[t], now)
  <1>1. /\ {Ttl, Slack, Lag, Expiry, Buffer, ValidFor, now} \subseteq Nat
        /\ slots[t].minted \in Nat /\ slots[t].refreshAt \in Nat
    BY Numbers DEF UrlInv, Reusable
  <1>2. now < slots[t].minted + Lag + ValidFor /\ ValidFor # 0
    BY <1>1 DEF UrlInv, SlotInv, Reusable
  <1>3. ValidFor + Buffer = Expiry
    BY <1>1, <1>2 DEF ValidFor
  <1> QED BY <1>1, <1>2, <1>3 DEF Outlives, BufferSuffices

\* The clock only moves forward, and nothing else moves with it.
LEMMA TickForward ==
    ASSUME TypeOK, NEW later \in Instants, Tick(later)
    PROVE  /\ now' \in Nat /\ now <= now'
           /\ UNCHANGED <<slots, calls, born, refresh, ready, posts, acked, cleanAt, cleaned>>
  <1>1. later \in Nat /\ now \in Nat /\ now' = later /\ now < later
    BY TimesAssumption DEF Tick, TypeOK, ImageType
  <1>2. now <= later
    BY <1>1
  <1> QED BY <1>1, <1>2 DEF Tick, imageVars, clientVars, cleanupVars

\* The upload of a refresh belongs to the stage it is in (BoundlessProver::new).
LEMMA StepRefresher == ASSUME TypeOK, RefresherInv, [Next]_vars PROVE RefresherInv'
  <1> USE NoneAssumption, ClientsAssumption DEF RefresherInv
  <1>0. /\ calls \in [Callers -> Calls \union {None}] /\ Refresher \in Callers
        /\ Uploaders \subseteq Callers \ {Refresher}
    BY DEF TypeOK, ImageType, Callers
  <1>1. ASSUME NEW c \in Callers \ {Refresher}, NEW t, NEW i,
               StartUpload(c, t, i) \/ Mint(c) \/ Keep(c) \/ GiveUp(c)
        PROVE  calls'[Refresher] = calls[Refresher]
    BY <1>0, <1>1 DEF StartUpload, Mint, Keep, GiveUp
  <1>2. ASSUME NEW t \in Types, RefreshUploads(t) PROVE RefresherInv'
    BY <1>0, <1>2 DEF RefreshUploads, Refreshing, StartUpload
  <1>3. CASE UrlIsMade(Refresher)
    <2>1. calls'[Refresher] = [calls[Refresher] EXCEPT !.minted = now]
      BY <1>0, <1>3 DEF UrlIsMade, Mint
    <2>2. calls'[Refresher].type = calls[Refresher].type /\ calls'[Refresher].image = calls[Refresher].image
      BY <1>0, <1>3, <2>1 DEF UrlIsMade, Mint, Calls
    <2> QED BY <1>3, <2>2 DEF UrlIsMade, Mint
  <1>4. CASE RefreshKeeps \/ RefreshFails
    BY <1>0, <1>4 DEF RefreshKeeps, RefreshFails, Keep, GiveUp
  <1>5. CASE \/ \E u \in Uploaders : UploadKeeps(u) \/ UploadFails(u)
             \/ \E u \in Uploaders, t \in Types, i \in Images : UploadStarts(u, t, i)
             \/ \E c \in Callers \ {Refresher} : UrlIsMade(c)
    <2>1. calls'[Refresher] = calls[Refresher] /\ UNCHANGED refresh
      BY <1>0, <1>1, <1>5 DEF UploadKeeps, UploadFails, UploadStarts, UrlIsMade
    <2> QED BY <2>1
  <1>6. CASE \/ \E x \in Submitters \union Uploaders \union {None} : BeginRefresh(x)
             \/ \E t \in Types : RefreshReads(t) \/ RefreshReuses(t)
             \/ EndRefresh
    <2>1. calls[Refresher] = None /\ UNCHANGED calls
      BY <1>6 DEF BeginRefresh, RefreshReads, RefreshReuses, Refreshing, EndRefresh, imageVars, Types
    <2> QED BY <2>1
  <1>7. CASE \/ \E u \in Uploaders : GetProver(u)
             \/ \E u \in Uploaders, t \in Types, i \in Images : UploadReuses(u, t, i)
             \/ \E p \in Submitters : Post(p) \/ PostEnds(p) \/ \E t \in Types : TakeUrl(p, t)
             \/ CleanUp \/ (\E later \in Instants : Tick(later)) \/ UNCHANGED vars
    BY <1>7 DEF GetProver, UploadReuses, Post, PostEnds, TakeUrl, CleanUp, Tick, vars, imageVars
  <1> QED BY <1>2, <1>3, <1>4, <1>5, <1>6, <1>7 DEF Next

\* The prover is never older than its clock, and a refresh is short.
LEMMA StepClock == ASSUME TypeOK, ClockInv, [Next]_vars PROVE ClockInv'
  <1> USE Numbers, TimesAssumption DEF ClockInv
  <1>1. ASSUME NEW x \in Submitters \union Uploaders \union {None}, BeginRefresh(x)
        PROVE  ClockInv'
    BY <1>1, NoneApartAssumption DEF BeginRefresh, TooOld
  <1>2. ASSUME GoOn, refresh # None, UNCHANGED <<now, born>> PROVE ClockInv'
    <2>1. refresh'.began = refresh.began
      BY <1>2 DEF GoOn, Refreshes
    <2> QED BY <1>2, <2>1
  <1>3. ASSUME NEW t \in Types, RefreshReads(t) PROVE ClockInv'
    <2>1. refresh'.began = refresh.began
      BY <1>3 DEF RefreshReads, Refreshing, GoOn, Refreshes
    <2> QED BY <1>3, <2>1 DEF RefreshReads, Refreshing
  <1>4. CASE (\E t \in Types : RefreshReuses(t)) \/ RefreshKeeps
    BY <1>2, <1>4 DEF RefreshReuses, Refreshing, RefreshKeeps
  <1>5. CASE RefreshFails \/ EndRefresh
    BY <1>5 DEF RefreshFails, EndRefresh
  <1>6. ASSUME NEW later \in Instants, Tick(later) PROVE ClockInv'
    <2>1. now' \in Nat /\ now <= now' /\ UNCHANGED <<born, refresh>>
      BY <1>6, TickForward
    <2>2. refresh # None => now' <= refresh.began + Slack
      BY <1>6 DEF Tick
    <2> QED BY <2>1, <2>2
  <1>7. CASE \/ \E t \in Types : RefreshUploads(t)
             \/ \E u \in Uploaders : GetProver(u) \/ UploadKeeps(u) \/ UploadFails(u)
             \/ \E u \in Uploaders, t \in Types, i \in Images :
                   UploadReuses(u, t, i) \/ UploadStarts(u, t, i)
             \/ \E c \in Callers : UrlIsMade(c)
             \/ \E p \in Submitters : Post(p) \/ PostEnds(p) \/ \E t \in Types : TakeUrl(p, t)
             \/ CleanUp \/ UNCHANGED vars
    BY <1>7 DEF RefreshUploads, GetProver, UploadKeeps, UploadFails, UploadReuses, UploadStarts,
          UrlIsMade, Post, PostEnds, TakeUrl, CleanUp, vars
  <1> QED BY <1>1, <1>3, <1>4, <1>5, <1>6, <1>7 DEF Next

\* A made URL is stored before Lag has passed.
LEMMA StepCalls == ASSUME UrlInv, [Next]_vars PROVE CallInv'
  <1> USE Numbers, TimesAssumption, NoneAssumption DEF UrlInv, CallInv
  <1>0. calls \in [Callers -> Calls \union {None}] /\ Refresher \in Callers /\ Uploaders \subseteq Callers
    BY DEF TypeOK, ImageType, Callers
  <1>1. ASSUME NEW c \in Callers, NEW t, NEW i, StartUpload(c, t, i), UNCHANGED now PROVE CallInv'
    BY <1>0, <1>1 DEF StartUpload
  <1>2. ASSUME NEW c \in Callers, Keep(c) \/ GiveUp(c), UNCHANGED now PROVE CallInv'
    BY <1>0, <1>2 DEF Keep, GiveUp
  <1>3. ASSUME NEW c \in Callers, UrlIsMade(c) PROVE CallInv'
    <2>1. calls'[c].minted = now /\ \A d \in Callers \ {c} : calls'[d] = calls[d]
      BY <1>0, <1>3 DEF UrlIsMade, Mint, Calls
    <2> QED BY <1>3, <2>1 DEF UrlIsMade
  <1>4. CASE \/ \E t \in Types : RefreshUploads(t)
             \/ \E u \in Uploaders, t \in Types, i \in Images : UploadStarts(u, t, i)
    BY <1>0, <1>1, <1>4 DEF RefreshUploads, UploadStarts
  <1>5. CASE RefreshKeeps \/ RefreshFails \/ \E u \in Uploaders : UploadKeeps(u) \/ UploadFails(u)
    BY <1>0, <1>2, <1>5 DEF RefreshKeeps, RefreshFails, UploadKeeps, UploadFails
  <1>6. ASSUME NEW later \in Instants, Tick(later) PROVE CallInv'
    <2>1. now' \in Nat /\ now <= now' /\ UNCHANGED calls
      BY <1>6, TickForward
    <2>2. \A c \in Callers : calls[c] # None /\ calls[c].minted # None => now' <= calls[c].minted + Lag
      BY <1>6 DEF Tick
    <2> QED BY <2>1, <2>2
  <1>7. CASE \/ \E x \in Submitters \union Uploaders \union {None} : BeginRefresh(x)
             \/ \E t \in Types : RefreshReads(t) \/ RefreshReuses(t)
             \/ EndRefresh \/ (\E u \in Uploaders : GetProver(u))
             \/ \E u \in Uploaders, t \in Types, i \in Images : UploadReuses(u, t, i)
             \/ \E p \in Submitters : Post(p) \/ PostEnds(p) \/ \E t \in Types : TakeUrl(p, t)
             \/ CleanUp \/ UNCHANGED vars
    BY <1>7 DEF BeginRefresh, RefreshReads, RefreshReuses, EndRefresh, GetProver, UploadReuses,
          Post, PostEnds, TakeUrl, CleanUp, vars, imageVars
  <1> QED BY <1>3, <1>4, <1>5, <1>6, <1>7 DEF Next

\* A submission has a URL that lasts until it is done, or a prover whose URLs do.
LEMMA StepPosts == ASSUME UrlInv, [Next]_vars PROVE PostInv'
  <1> USE Numbers, TimesAssumption, NoneAssumption, NoneApartAssumption DEF UrlInv, PostInv
  <1>0. posts \in [Submitters -> Posts \union {None}]
    BY DEF TypeOK
  <1>1. ASSUME NEW p \in Submitters, Post(p) PROVE PostInv'
    <2>1. now <= born + Ttl
      BY <1>1 DEF Post, HandedOut, TooOld
    <2> QED BY <1>0, <1>1, <2>1 DEF Post
  <1>2. ASSUME NEW p \in Submitters, PostEnds(p) PROVE PostInv'
    BY <1>0, <1>2 DEF PostEnds
  <1>3. ASSUME NEW p \in Submitters, NEW t \in Types, TakeUrl(p, t) PROVE PostInv'
    <2>1. posts'[p].since = posts[p].since /\ posts'[p].minted = slots[t].minted
      BY <1>0, <1>3 DEF TakeUrl, Posts
    <2>2. slots[t].minted + Expiry > born + Ttl + Slack
      BY <1>3 DEF TakeUrl, SlotInv, Outlives
    <2>3. slots[t].minted + Expiry > posts[p].since + Slack
      BY <1>3, <2>2 DEF TakeUrl
    <2> QED BY <1>0, <1>3, <2>1, <2>3 DEF TakeUrl
  <1>4. CASE EndRefresh
    <2>1. /\ born' = refresh.began /\ born <= born' /\ now <= born' + Slack
          /\ born \in Nat /\ born' \in Nat /\ UNCHANGED now
      BY <1>4 DEF EndRefresh, ClockInv
    <2>2. ASSUME NEW p \in Submitters
          PROVE  posts'[p] = posts[p] \/ posts'[p] = [since |-> born', minted |-> None]
      BY <1>4, <2>1, <2>2 DEF EndRefresh
    <2>3. [since |-> born', minted |-> None].since = born' /\ [since |-> born', minted |-> None].minted = None
      OBVIOUS
    <2> QED BY <2>1, <2>2, <2>3
  <1>5. ASSUME NEW later \in Instants, Tick(later) PROVE PostInv'
    BY <1>5 DEF Tick, clientVars
  <1>6. CASE \/ \E x \in Submitters \union Uploaders \union {None} : BeginRefresh(x)
             \/ \E t \in Types : RefreshReads(t) \/ RefreshReuses(t) \/ RefreshUploads(t)
             \/ RefreshKeeps \/ RefreshFails
             \/ \E u \in Uploaders : GetProver(u) \/ UploadKeeps(u) \/ UploadFails(u)
             \/ \E u \in Uploaders, t \in Types, i \in Images :
                   UploadReuses(u, t, i) \/ UploadStarts(u, t, i)
             \/ \E c \in Callers : UrlIsMade(c)
             \/ CleanUp \/ UNCHANGED vars
    BY <1>6 DEF BeginRefresh, RefreshReads, RefreshReuses, RefreshUploads, RefreshKeeps, RefreshFails,
          GetProver, UploadKeeps, UploadFails, UploadReuses, UploadStarts, UrlIsMade, CleanUp, vars,
          clientVars
  <1> QED BY <1>1, <1>2, <1>3, <1>4, <1>5, <1>6 DEF Next

\* The slots outlive the prover, and those a refresh has passed the next one.
LEMMA StepSlots == ASSUME UrlInv, BufferSuffices, [Next]_vars PROVE SlotInv'
  <1> USE Numbers, TimesAssumption, NoneAssumption DEF UrlInv, SlotInv
  <1>0. slots \in [Types -> Infos \union {None}] /\ Refresher \in Callers /\ Uploaders \subseteq Callers
    BY DEF TypeOK, ImageType, Callers
  <1>1. ASSUME NEW x \in Submitters \union Uploaders \union {None}, BeginRefresh(x)
        PROVE  SlotInv'
    <2>1. refresh'.stage = "batch" \/ \A t \in Types : slots'[t] = None
      BY <1>1 DEF BeginRefresh, imageVars
    <2>2. UNCHANGED <<now, born, slots>> /\ Passed("batch") = {}
      BY <1>1 DEF BeginRefresh, imageVars, Passed, Types
    <2> QED BY <2>1, <2>2 DEF Outlives
  <1>2. ASSUME NEW t \in Types, refresh # None, refresh.stage = t, GoOn, UNCHANGED <<now, born>>,
               \A k \in Types \ {t} : slots'[k] = slots[k] \/ Outlives(slots'[k], now),
               slots'[t] # None => Outlives(slots'[t], now),
               \A k \in Types : slots'[k] # None => slots'[k].minted \in Nat /\ Outlives(slots'[k], born)
                     /\ slots'[k].refreshAt <= slots'[k].minted + Lag + ValidFor
                     /\ slots'[k].refreshAt <= now + ValidFor
        PROVE  SlotInv'
    <2>1. refresh'.began = refresh.began /\ refresh'.stage = NextStage /\ refresh.began <= now
      BY <1>2 DEF GoOn, Refreshes, ClockInv
    <2>2. \A k \in Passed(NextStage) : k = t \/ k \in Passed(refresh.stage)
      BY <1>2 DEF NextStage, Passed, Types
    <2>3. ASSUME NEW k \in Passed(NextStage), slots'[k] # None PROVE Outlives(slots'[k], refresh.began)
      <3>1. k \in Types
        BY DEF Passed
      <3> QED BY <1>2, <2>1, <2>2, <2>3, <3>1 DEF Outlives
    <2> QED BY <1>2, <2>1, <2>3
  <1>3. ASSUME NEW t \in Types, RefreshReads(t) PROVE SlotInv'
    <2>1. UNCHANGED <<now, born, slots>>
      BY <1>3 DEF RefreshReads, imageVars
    <2>2. CASE slots[t] = None
      BY <1>2, <1>3, <2>1, <2>2 DEF RefreshReads, Refreshing
    <2>3. CASE slots[t] # None
      <3>1. refresh'.began = refresh.began /\ refresh'.stage = refresh.stage /\ refresh # None
        BY <1>3, <2>3 DEF RefreshReads, Refreshing, Refreshes
      <3> QED BY <2>1, <3>1
    <2> QED BY <2>2, <2>3
  <1>4. ASSUME NEW t \in Types, RefreshReuses(t) PROVE SlotInv'
    <2>1. Outlives(slots[t], now) /\ UNCHANGED <<now, born, slots>>
      BY <1>4, ReusedUrlOutlives DEF RefreshReuses, imageVars
    <2> QED BY <1>2, <1>4, <2>1 DEF RefreshReuses, Refreshing
  <1>5. ASSUME NEW c \in Callers, Keep(c), UNCHANGED <<now, born>>
        PROVE  \A k \in Types : slots'[k] # None =>
                 /\ slots'[k].minted \in Nat /\ Outlives(slots'[k], born)
                 /\ slots'[k].refreshAt <= slots'[k].minted + Lag + ValidFor
                 /\ slots'[k].refreshAt <= now + ValidFor
                 /\ slots'[k] = slots[k] \/ Outlives(slots'[k], now)
    BY <1>5, NewUrlOutlives DEF Outlives, ClockInv
  <1>6. ASSUME NEW u \in Uploaders, UploadKeeps(u) PROVE SlotInv'
    BY <1>0, <1>5, <1>6 DEF UploadKeeps, Outlives, ClockInv
  <1>7. CASE EndRefresh
    <2>1. Passed("finish") = Types
      BY DEF Passed
    <2>2. born' = refresh.began /\ refresh' = None /\ UNCHANGED <<now, slots>>
      BY <1>7 DEF EndRefresh, imageVars
    <2>3. \A t \in Types : slots[t] # None => Outlives(slots[t], refresh.began)
      BY <1>7, <2>1 DEF EndRefresh
    <2> QED BY <2>2, <2>3 DEF Outlives
  <1>8. CASE RefreshFails
    BY <1>8 DEF RefreshFails, GiveUp, Outlives
  <1>9. ASSUME NEW later \in Instants, Tick(later) PROVE SlotInv'
    <2>1. now' \in Nat /\ now <= now' /\ UNCHANGED <<slots, born, refresh>>
      BY <1>9, TickForward
    <2> QED BY <2>1 DEF Outlives
  <1>10. CASE \/ \E t \in Types : RefreshUploads(t)
              \/ \E u \in Uploaders : GetProver(u) \/ UploadFails(u)
              \/ \E u \in Uploaders, t \in Types, i \in Images :
                    UploadReuses(u, t, i) \/ UploadStarts(u, t, i)
              \/ \E c \in Callers : UrlIsMade(c)
              \/ \E p \in Submitters : Post(p) \/ PostEnds(p) \/ \E t \in Types : TakeUrl(p, t)
              \/ CleanUp \/ UNCHANGED vars
    <2>1. UNCHANGED <<now, born, slots, refresh>>
      BY <1>10 DEF RefreshUploads, StartUpload, GetProver, UploadFails, GiveUp, UploadReuses,
            UploadStarts, UrlIsMade, Mint, Post, PostEnds, TakeUrl, CleanUp, vars, imageVars
    <2> QED BY <2>1 DEF Outlives
  <1>11. CASE RefreshKeeps
    <2> DEFINE t == calls[Refresher].type
    <2>2. t \in Types /\ refresh # None /\ refresh.stage = t
      BY <1>0, <1>11 DEF RefreshKeeps, Keep, Calls, RefresherInv
    <2>3. \A k \in Types \ {t} : slots'[k] = slots[k]
      BY <1>0, <1>11 DEF RefreshKeeps, Keep
    <2>4. Outlives(slots'[t], now)
      BY <1>0, <1>5, <1>11, <2>2, NewUrlOutlives DEF RefreshKeeps
    <2> QED BY <1>0, <1>2, <1>5, <1>11, <2>2, <2>3, <2>4 DEF RefreshKeeps
  <1> QED BY <1>1, <1>3, <1>4, <1>6, <1>7, <1>8, <1>9, <1>10, <1>11 DEF Next

\* Every step keeps the URLs in use valid.
LEMMA NextUrl == BufferSuffices /\ UrlInv /\ [Next]_vars => UrlInv'
  BY NextTyped, StepClock, StepSlots, StepCalls, StepPosts, StepRefresher DEF UrlInv

\* When url_ttl, with the time of a submission and of an upload, fits into the
\* buffer, no submission uses an expired URL, however uploads, refreshes,
\* failures and submissions interleave.
THEOREM UrlsStayValid == BufferSuffices => (Spec => []UrlStillValid)
  <1> SUFFICES ASSUME BufferSuffices PROVE Spec => []UrlStillValid
    OBVIOUS
  <1>1. Init => UrlInv
    BY InitUrl
  <1>2. UrlInv /\ [Next]_vars => UrlInv'
    BY NextUrl
  <1>3. UrlInv => UrlStillValid
    BY Numbers, TimesAssumption DEF UrlInv, PostInv, UrlStillValid
  <1> QED BY <1>1, <1>2, <1>3, PTL DEF Spec

-----------------------------------------------------------------------------
(* The clean-up task is not starved when a prover lives longer than the    *)
(* period and a refresh: then the task has run since the last refresh.     *)

CleanInv ==
    /\ TypeOK /\ ClockInv
    /\ now <= cleanAt
    /\ cleanAt <= cleaned + 2 * Period
    /\ cleanAt = cleaned + Period \/ cleanAt <= born + Slack + Period

\* The first clean-up is one period away (start_ttl_cleanup_task).
LEMMA InitClean == Init => CleanInv
  BY InitTyped, TimesAssumption DEF Init, ImageInit, CleanInv, ClockInv

\* A restart of the timer costs at most one period: refreshes are too rare to
\* follow each other within it.
LEMMA NextClean == Ttl >= Period + Slack /\ CleanInv /\ [Next]_vars => CleanInv'
  <1> SUFFICES ASSUME Ttl >= Period + Slack, CleanInv, [Next]_vars PROVE CleanInv'
    OBVIOUS
  <1>0. /\ TypeOK' /\ ClockInv' /\ {Ttl, Period, Slack, now, born, cleanAt, cleaned} \subseteq Nat
    BY NextTyped, StepClock, TimesAssumption DEF CleanInv, TypeOK, ImageType
  <1>1. CASE EndRefresh
    <2>1. /\ born' = refresh.began /\ cleanAt' = now + Period /\ UNCHANGED <<now, cleaned>>
          /\ born + Ttl < refresh.began /\ refresh.began <= now /\ now <= refresh.began + Slack
          /\ refresh.began \in Nat
      BY <1>1, Numbers DEF EndRefresh, CleanInv, ClockInv
    <2>2. cleanAt = cleaned + Period
      BY <1>0, <2>1 DEF CleanInv
    <2>3. cleanAt' <= cleaned + 2 * Period
      BY <1>0, <2>1, <2>2 DEF CleanInv
    <2>4. cleanAt' <= born' + Slack + Period /\ now' <= cleanAt'
      BY <1>0, <2>1
    <2> QED BY <1>0, <2>1, <2>3, <2>4 DEF CleanInv
  <1>2. CASE CleanUp
    <2>1. cleaned' = now /\ cleanAt' = now + Period /\ UNCHANGED now
      BY <1>2 DEF CleanUp
    <2> QED BY <1>0, <2>1 DEF CleanInv
  <1>3. ASSUME NEW later \in Instants, Tick(later) PROVE CleanInv'
    <2>1. now' <= cleanAt /\ UNCHANGED <<born, cleanAt, cleaned>>
      BY <1>3 DEF Tick, cleanupVars
    <2> QED BY <1>0, <2>1 DEF CleanInv
  <1>4. CASE \/ \E x \in Submitters \union Uploaders \union {None} : BeginRefresh(x)
             \/ \E t \in Types : RefreshReads(t) \/ RefreshReuses(t) \/ RefreshUploads(t)
             \/ RefreshKeeps \/ RefreshFails
             \/ \E u \in Uploaders : GetProver(u) \/ UploadKeeps(u) \/ UploadFails(u)
             \/ \E u \in Uploaders, t \in Types, i \in Images :
                   UploadReuses(u, t, i) \/ UploadStarts(u, t, i)
             \/ \E c \in Callers : UrlIsMade(c)
             \/ \E p \in Submitters : Post(p) \/ PostEnds(p) \/ \E t \in Types : TakeUrl(p, t)
             \/ UNCHANGED vars
    <2>1. UNCHANGED <<now, born, cleanAt, cleaned>>
      BY <1>4 DEF BeginRefresh, RefreshReads, RefreshReuses, RefreshUploads, RefreshKeeps,
            RefreshFails, GetProver, UploadKeeps, UploadFails, UploadReuses, UploadStarts,
            UrlIsMade, Post, PostEnds, TakeUrl, vars, cleanupVars
    <2> QED BY <1>0, <2>1 DEF CleanInv
  <1> QED BY <1>1, <1>2, <1>3, <1>4 DEF Next

\* When url_ttl is at least the period of the clean-up and the time of a
\* refresh, no chain of refreshes keeps the clean-up task from running.
THEOREM CleanupRuns == Ttl >= Period + Slack => (Spec => []CleanupNotStarved)
  <1> SUFFICES ASSUME Ttl >= Period + Slack PROVE Spec => []CleanupNotStarved
    OBVIOUS
  <1>1. CleanInv => CleanupNotStarved
    BY TimesAssumption DEF CleanInv, TypeOK, ImageType, CleanupNotStarved
  <1> QED BY <1>1, InitClean, NextClean, PTL DEF Spec

-----------------------------------------------------------------------------
(* A refresh leaves the images as they are, when no upload overlaps it:    *)
(* the slot it stores into still holds the ELF it took from it.            *)

UploadInv ==
    /\ TypeOK /\ RefresherInv
    /\ refresh # None => ready = {} /\ \A u \in Uploaders : calls[u] = None
    /\ refresh # None /\ refresh.stage \in Types /\ refresh.elf # None =>
          slots[refresh.stage] # None /\ slots[refresh.stage].image = refresh.elf
    /\ UploadStands

\* At the start no upload has been answered.
LEMMA InitUpload == Init => UploadInv
  BY InitTyped DEF Init, ImageInit, UploadInv, RefresherInv, UploadStands, Callers

\* What the write of a slot does (store_and_upload_image).
LEMMA KeepWrites ==
    ASSUME TypeOK, NEW c \in Callers, Keep(c)
    PROVE  /\ calls[c].type \in Types /\ calls[c].image \in Images
           /\ slots'[calls[c].type] # None /\ slots'[calls[c].type].image = calls[c].image
           /\ \A t \in Types \ {calls[c].type} : slots'[t] = slots[t]
           /\ \A d \in Callers \ {c} : calls'[d] = calls[d]
  <1> DEFINE new == [image |-> calls[c].image, minted |-> calls[c].minted, refreshAt |-> now + ValidFor]
  <1>1. calls[c] \in Calls /\ calls[c].minted \in Nat /\ calls[c].type \in Types /\ calls[c].image \in Images
    BY DEF Keep, Calls, TypeOK, ImageType
  <1>2. slots'[calls[c].type] = new /\ \A t \in Types \ {calls[c].type} : slots'[t] = slots[t]
    BY <1>1 DEF Keep, TypeOK, ImageType
  <1>3. new \in Infos /\ new.image = calls[c].image
    BY <1>1, DurationsAssumption DEF Infos, ValidFor, TypeOK, ImageType
  <1>4. \A d \in Callers \ {c} : calls'[d] = calls[d]
    BY DEF Keep, TypeOK, ImageType
  <1> QED BY <1>1, <1>2, <1>3, <1>4, NoneAssumption

\* Without an upload under way a refresh writes back the image it read
\* (BoundlessProver::new).
LEMMA NextUpload == ~ Overlap /\ UploadInv /\ [Next]_vars => UploadInv'
  <1> SUFFICES ASSUME ~ Overlap, UploadInv, [Next]_vars PROVE UploadInv'
    OBVIOUS
  <1> USE NoneAssumption, NoneApartAssumption DEF UploadInv, UploadStands
  <1>0. /\ TypeOK' /\ RefresherInv'
        /\ slots \in [Types -> Infos \union {None}] /\ acked \in [Types -> Images \union {None}]
        /\ calls \in [Callers -> Calls \union {None}] /\ Refresher \in Callers
        /\ Uploaders \subseteq Callers \ {Refresher}
    BY NextTyped, StepRefresher, ClientsAssumption DEF TypeOK, ImageType, Callers
  <1>1. ASSUME NEW x \in Submitters \union Uploaders \union {None}, BeginRefresh(x)
        PROVE  UploadInv'
    BY <1>0, <1>1 DEF BeginRefresh, clientVars, imageVars
  <1>2. ASSUME NEW t \in Types, RefreshReads(t) PROVE UploadInv'
    <2>1. UNCHANGED <<slots, calls, ready, acked>> /\ refresh # None /\ refresh.stage = t
      BY <1>2 DEF RefreshReads, Refreshing, imageVars, clientVars
    <2>2. CASE slots[t] = None
      <3>1. refresh'.elf = None
        BY <1>2, <2>1, <2>2 DEF RefreshReads, GoOn, TypeOK, Refreshes
      <3> QED BY <1>0, <2>1, <3>1
    <2>3. CASE slots[t] # None
      <3>1. refresh'.elf = slots[t].image /\ refresh'.stage = t
        BY <1>2, <2>1, <2>3 DEF RefreshReads, TypeOK, Refreshes
      <3> QED BY <1>0, <2>1, <2>3, <3>1
    <2> QED BY <2>2, <2>3
  <1>3. ASSUME NEW t \in Types, RefreshReuses(t) PROVE UploadInv'
    <2>1. UNCHANGED <<slots, calls, ready, acked>> /\ refresh # None /\ refresh'.elf = None
      BY <1>3 DEF RefreshReuses, Refreshing, GoOn, imageVars, clientVars, TypeOK, Refreshes
    <2> QED BY <1>0, <2>1
  <1>4. ASSUME NEW t \in Types, RefreshUploads(t) PROVE UploadInv'
    BY <1>0, <1>4 DEF RefreshUploads, StartUpload, clientVars
  <1>5. CASE RefreshKeeps
    <2>1. /\ refresh # None /\ refresh.stage \in Types /\ slots[refresh.stage].image = refresh.elf
          /\ slots[refresh.stage] # None /\ UNCHANGED <<ready, acked>>
          /\ calls[Refresher].type = refresh.stage /\ calls[Refresher].image = refresh.elf
      BY <1>0, <1>5 DEF RefreshKeeps, Keep, RefresherInv, clientVars
    <2>2. /\ slots'[refresh.stage] # None /\ slots'[refresh.stage].image = refresh.elf
          /\ \A k \in Types \ {refresh.stage} : slots'[k] = slots[k]
          /\ \A u \in Uploaders : calls'[u] = calls[u]
      BY <1>0, <1>5, <2>1, KeepWrites DEF RefreshKeeps
    <2>3. refresh'.elf = None
      BY <1>5, <2>1 DEF RefreshKeeps, GoOn, TypeOK, Refreshes
    <2> QED BY <1>0, <2>1, <2>2, <2>3
  <1>6. CASE RefreshFails \/ EndRefresh
    BY <1>0, <1>6 DEF RefreshFails, GiveUp, EndRefresh, imageVars, clientVars
  <1>7. ASSUME NEW u \in Uploaders, UploadKeeps(u) PROVE UploadInv'
    <2>1. refresh = None /\ UNCHANGED refresh
      BY <1>0, <1>7 DEF UploadKeeps, Keep
    <2>2. /\ calls[u].type \in Types
          /\ slots'[calls[u].type] # None /\ slots'[calls[u].type].image = calls[u].image
          /\ \A t \in Types \ {calls[u].type} : slots'[t] = slots[t]
      BY <1>0, <1>7, KeepWrites DEF UploadKeeps
    <2>3. acked' = [acked EXCEPT ![calls[u].type] = calls[u].image]
      BY <1>7 DEF UploadKeeps, Answer
    <2>4. \A t \in Types : acked'[t] # None => slots'[t] # None /\ slots'[t].image = acked'[t]
      BY <1>0, <2>2, <2>3
    <2> QED BY <1>0, <2>1, <2>4
  <1>8. ASSUME NEW u \in Uploaders, NEW t \in Types, NEW i \in Images, UploadReuses(u, t, i)
        PROVE  UploadInv'
    BY <1>0, <1>8 DEF UploadReuses, Reusable, Answer, imageVars
  <1>9. ASSUME NEW u \in Uploaders, NEW t \in Types, NEW i \in Images, UploadStarts(u, t, i)
        PROVE  UploadInv'
    BY <1>0, <1>9 DEF UploadStarts, StartUpload
  <1>10. CASE \/ \E u \in Uploaders : GetProver(u) \/ UploadFails(u)
              \/ \E c \in Callers : UrlIsMade(c)
    BY <1>0, <1>10 DEF GetProver, HandedOut, UploadFails, GiveUp, UrlIsMade, Mint, imageVars,
          clientVars
  <1>11. CASE \/ \E p \in Submitters : Post(p) \/ PostEnds(p) \/ \E t \in Types : TakeUrl(p, t)
              \/ CleanUp \/ (\E later \in Instants : Tick(later)) \/ UNCHANGED vars
    <2>1. UNCHANGED <<slots, calls, refresh, ready, acked>>
      BY <1>11 DEF Post, PostEnds, TakeUrl, CleanUp, Tick, vars, imageVars, clientVars
    <2> QED BY <1>0, <2>1
  <1> QED BY <1>1, <1>2, <1>3, <1>4, <1>5, <1>6, <1>7, <1>8, <1>9, <1>10, <1>11 DEF Next

\* When no refresh begins during an upload, a refresh never changes which
\* image a slot holds: an answered upload stands until the next one.
THEOREM UploadsStand == ~ Overlap => (Spec => []UploadStands)
  <1> SUFFICES ASSUME ~ Overlap PROVE Spec => []UploadStands
    OBVIOUS
  <1>1. UploadInv => UploadStands
    BY DEF UploadInv
  <1> QED BY <1>1, InitUpload, NextUpload, PTL DEF Spec
=============================================================================
