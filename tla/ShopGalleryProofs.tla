-------------------------- MODULE ShopGalleryProofs --------------------------
(***************************************************************************)
(* Proofs about the photo sets of ProductShop: a started set holds the     *)
(* product of now while it is open, whatever sessions are lost; and while  *)
(* PostgreSQL keeps the sessions of live processes, the gallery Magento    *)
(* shows is the set that was delivered, and a photo job or a restore shows *)
(* the product only with the content and photographs of now. While nobody  *)
(* else writes the status either, nothing that was verified may still      *)
(* arrive, and an archived product whose hiding was confirmed stays hidden.*)
(***************************************************************************)
EXTENDS ShopProofs

-----------------------------------------------------------------------------
\* A started set holds the product of now.

\* While a started photo set is open its row is the current one, its
\* generation the one desired, and what was acknowledged, or is still on its
\* way, is the product's content.
Current(m) ==
  /\ product.active /\ media[m].row = life.row /\ media[m].gen = request.desired
  /\ Good
PinnedInv == \A m \in OpenMedia : Started(m) => Current(m)

\* What a step of a process makes of the job rows.
LEMMA ProcessRows ==
  ASSUME Base, NEW p \in Proc,
         Act(p) \/ Poll(p) \/ RunProduct(p) \/ Crash(p) \/ Recover(p)
  PROVE  RowsMove(p)
<1>1. Control /\ Data /\ IInv
  BY Known, SplitType DEF Base, IInv
<1>2. CASE EnqueueEnter(p) \/ PlanJob(p) \/ PlanFault(p) \/ UseExisting(p)
           \/ ApplyBusy(p) \/ ApplyRefused(p) \/ ApplyEnter(p) \/ NextStep(p)
           \/ Verify(p) \/ Mark(p) \/ Send(p) \/ Readback(p) \/ FinalReadback(p)
           \/ ReadFault(p) \/ Poll(p) \/ ClearActive(p) \/ Syncing(p) \/ Attend(p)
           \/ RetryLater(p) \/ ConsumeReceipt(p) \/ AcknowledgeApplied(p) \/ Claim(p)
           \/ Decide(p) \/ Crash(p) \/ ManualEnqueue(p) \/ ManualApply(p)
           \/ ReconcileObserve(p) \/ SupersedeObserve(p)
  <2>1. UNCHANGED <<jobs, acked>>
    BY <1>2 DEF EnqueueEnter, PlanJob, PlanFault, UseExisting, ApplyBusy, ApplyRefused,
       ApplyEnter, NextStep, Verify, Mark, Send, Readback, FinalReadback, ReadFault,
       Poll, ClearActive, Syncing, Attend, RetryLater, ConsumeReceipt,
       AcknowledgeApplied, Claim, Decide, EndPass, Crash, ManualEnqueue, ManualApply,
       ReconcileObserve, SupersedeObserve, ledgerVars, historyVars
  <2> QED BY <2>1 DEF RowsMove
<1>3. CASE InsertJob(p)
  <2>1. UNCHANGED acked
    BY <1>3 DEF InsertJob, historyVars
  <2>2. loc[p].gen <= request.desired
    BY DEF Base, RequestInv, GensKnown
  <2>3. CASE UNCHANGED jobs
    BY <2>1, <2>3 DEF RowsMove
  <2>4. CASE ~UNCHANGED jobs
    <3>1. PICK k \in JobId :
            /\ Inserts(p, k)
            /\ (IF p \in Workers THEN AssertSnapshot(p) ELSE Revalidate(p)) = "none"
      BY <1>1, <1>3, <2>4, InsertRow
    <3> QED BY <2>1, <2>2, <3>1, SnapshotIsProduct DEF RowsMove
  <2> QED BY <2>3, <2>4
<1>4. CASE BlockRefused(p)
  BY <1>1, <1>4, BlockRewrites, Known DEF RowsMove, BlockRefused, historyVars, AtJob
<1>5. CASE Begin(p)
  BY <1>1, <1>5, BeginRewrites, Known DEF RowsMove, Begin, historyVars, AtJob
<1>6. CASE Succeed(p)
  BY <1>1, <1>6, SucceedRewrites, Known DEF RowsMove, Succeed, AtJob
<1>7. CASE SaveFailure(p)
  BY <1>1, <1>7, FailureRewrites, Known DEF RowsMove, SaveFailure, historyVars, AtJob
<1>8. CASE SupersedeUndispatched(p)
  BY <1>1, <1>8, SupersedeRewrites, Known
     DEF RowsMove, SupersedeUndispatched, historyVars, AtJob
<1>9. CASE ReconcileCommit(p)
  BY <1>1, <1>9, ReconcileRewrites, Known DEF RowsMove, ReconcileCommit, AtJob
<1>10. CASE SupersedeCommit(p)
  BY <1>1, <1>10, RetireRewrites, Known DEF RowsMove, SupersedeCommit, historyVars, AtJob
<1> QED BY <1>2, <1>3, <1>4, <1>5, <1>6, <1>7, <1>8, <1>9, <1>10
     DEF Act, Enqueue, ApplyJob, RunProduct, Recover

\* A step of the native side either leaves the product and its content alone,
\* or is one that the fence lets through.
Undisturbed ==
  product'.active = product.active /\ request'.desired = request.desired /\ (Good => Good')

LEMMA FencedCases ==
  ASSUME SyncInv, [ShopNext]_allVars
  PROVE  \/ UNCHANGED shopVars /\ (FenceOpen \/ Undisturbed)
         \/ Decision \/ Weather \/ \E l \in Lanes : Lane_(l)
<1>1. Base /\ DeliveryInv /\ Data /\ product \in Product /\ Workers \cup Operators = Proc
  BY SplitType DEF SyncInv, Base, IInv, Data, Proc
<1>2. UNCHANGED <<product, request, jobs, acked>> => Undisturbed
  BY DEF Undisturbed, Good, Unfinished, Created, Exists
<1>3. ASSUME NEW p \in Proc, Act(p) \/ Poll(p) \/ RunProduct(p) \/ Crash(p) \/ Recover(p)
      PROVE  Undisturbed
  <2>1. RowsMove(p) /\ Steady
    BY <1>1, <1>3, ProcessRows, ProcessSteady
  <2>2. Kept
    BY <1>1, <2>1, RowsKeep
  <2> QED BY <2>1, <2>2 DEF Kept, Steady, Undisturbed
<1>4. CASE UNCHANGED allVars
  BY <1>2, <1>4 DEF allVars, vars, amberVars, ledgerVars, historyVars
<1>5. CASE Native
  <2>1. UNCHANGED shopVars
    BY <1>5 DEF Native
  <2>2. CASE LoseSessions \/ Publish \/ Disable \/ Deliver \/ Lose \/ ForeignWrite
    BY <1>2, <2>1, <2>2 DEF LoseSessions, Publish, Disable, Deliver, Lose, ForeignWrite,
       amberVars, ledgerVars, historyVars
  <2>3. CASE \/ \E w \in Workers : RunProduct(w)
             \/ \E o \in Operators : Recover(o)
             \/ \E p \in Proc : Act(p) \/ Crash(p)
    BY <1>1, <1>3, <2>1, <2>3
  <2> QED BY <1>5, <2>2, <2>3 DEF Native
<1>6. CASE ShopQuiet
  BY <1>2, <1>6 DEF ShopQuiet, Quiet, vars, amberVars, ledgerVars, historyVars
<1>7. CASE FencedHandoff
  <2>1. /\ UNCHANGED shopVars /\ UNCHANGED <<product, jobs, acked>>
        /\ UNCHANGED request \/ FenceOpen
    BY <1>7 DEF FencedHandoff, HandoffRefused, ProcessHandoff, ledgerVars, historyVars
  <2> QED BY <1>2, <2>1
<1>8. CASE \E w \in Workers : PollAfterHandoffs(w)
  BY <1>1, <1>3, <1>8 DEF PollAfterHandoffs
<1>9. CASE People
  <2>1. CASE FencedEdit
    BY <2>1 DEF FencedEdit
  <2>2. CASE Touch /\ UNCHANGED shopVars
    <3>1. product'.active = product.active /\ product'.input = product.input
          /\ UNCHANGED <<request, jobs, acked>>
      BY <1>1, <2>2 DEF Touch, Product, ledgerVars, historyVars
    <3> QED BY <2>2, <3>1 DEF Undisturbed, Good, Unfinished, Created, Exists
  <2> QED BY <1>9, <2>1, <2>2 DEF People, Decision
<1> QED BY <1>4, <1>5, <1>6, <1>7, <1>8, <1>9 DEF ShopNext, Weather

\* The authority of a photo set is a delivered product.
LEMMA AuthorisedGood ==
  ASSUME SyncInv, NEW m, Authorised(m)
  PROVE  Good
BY DEF SyncInv, DeliveryInv, Deliveries, RequestOk, Authorised, NativeSynced

LEMMA PinnedKept ==
  ASSUME PinnedInv, Bounds, UNCHANGED <<life, media, msteps>>, FenceOpen \/ Undisturbed
  PROVE  PinnedInv'
<1>1. OpenMedia' = OpenMedia /\ \A m : Started(m)' = Started(m)
  BY DEF OpenMedia, Rows, Started
<1>2. CASE FenceOpen
  BY <1>1, <1>2 DEF FenceOpen, PinnedInv
<1>3. CASE Undisturbed
  BY <1>1, <1>3 DEF Undisturbed, PinnedInv, Current
<1> QED BY <1>2, <1>3

\* A marker belongs to a pinned job.
LEMMA StartedIsPinned ==
  ASSUME Bounds, NEW m \in MediaId
  PROVE  Started(m) <=> media[m].gen # 0
BY DEF Bounds, Started

LEMMA PinnedLane ==
  ASSUME SyncInv, SyncInv', ShopTyped, Bounds, Bounds', PinnedInv, NEW l \in Lanes, LaneRows(l),
         Aside \/ Cancels
  PROVE  PinnedInv'
<1>1. /\ request.desired # 0 /\ UNCHANGED life /\ JobsMove /\ product' = product
      /\ acked' = acked /\ request \in Request
      /\ Rows(media) \subseteq MediaId /\ OpenMedia' \subseteq Rows(media)'
  BY RowTypes, SplitType DEF SyncInv, Base, RequestInv, IInv, Data, LaneRows, Aside,
     Cancels, nativeVars, historyVars, ShopTyped, OpenMedia
<1>2. request'.desired = request.desired /\ (Good => Good')
  <2>1. CASE Aside
    BY <2>1 DEF Aside, Good, nativeVars, historyVars, Unfinished, Created, Exists
  <2>2. CASE Cancels
    <3>1. request'.desired = request.desired
      BY <1>1, <2>2 DEF Cancels, CancelNative, Request
    <3>2. UNCHANGED jobs
          \/ jobs' = [j \in JobId |->
               IF j \in Cancelable THEN [jobs[j] EXCEPT !.state = "superseded"]
               ELSE jobs[j]]
      BY <2>2 DEF Cancels, CancelNative
    <3>3. CASE UNCHANGED jobs
      BY <1>1, <3>1, <3>3 DEF Good, Unfinished, Created, Exists
    <3>4. CASE jobs' = [j \in JobId |->
               IF j \in Cancelable THEN [jobs[j] EXCEPT !.state = "superseded"]
               ELSE jobs[j]]
      <4>1. ASSUME NEW u \in Unfinished'
            PROVE  u \in Unfinished /\ jobs'[u].amber = jobs[u].amber
        <5>1. u \in JobId /\ jobs'[u] # NoRow /\ jobs'[u].state \notin Finished
          BY DEF Unfinished, Created, Exists
        <5>2. CASE u \in Cancelable
          <6>1. u \in Unfinished /\ jobs[u] \in Job
            BY SplitType, <5>1, <5>2 DEF Cancelable, Unfinished, Created, Exists, SyncInv,
               Base, IInv, Data
          <6>2. jobs'[u] = [jobs[u] EXCEPT !.state = "superseded"]
            BY <3>4, <5>1, <5>2
          <6> QED BY <6>1, <6>2 DEF Job
        <5>3. CASE u \notin Cancelable
          BY <3>4, <5>1, <5>3 DEF Unfinished, Created, Exists
        <5> QED BY <5>2, <5>3
      <4> QED BY <1>1, <3>1, <4>1 DEF Good
    <3> QED BY <3>2, <3>3, <3>4, <3>1
  <2> QED BY <2>1, <2>2
<1>3. ASSUME NEW m \in OpenMedia', Started(m)'
      PROVE  Current(m)'
  <2>1. m \in Rows(media)' /\ m \in Rows(media) /\ m \in MediaId
    BY <1>1, JobsMoveIs
  <2>2. media'[m].gen # 0
    BY <1>3, <2>1 DEF Started, Bounds
  <2>3. /\ media'[m].row = media[m].row
        /\ \/ media'[m].gen = media[m].gen
           \/ Authorised(m) /\ media'[m].gen = request.desired
        /\ m \in OpenMedia \/ Authorised(m)
    BY <1>1, <2>1, JobsMoveIs
  <2>4. CASE Authorised(m)
    <3>1. /\ media[m].row = life.row /\ product.active /\ Good
          /\ media'[m].gen = request.desired
      BY <1>1, <2>2, <2>3, <2>4, AuthorisedIs, AuthorisedGood
    <3> QED BY <1>1, <1>2, <2>3, <3>1 DEF Current
  <2>5. CASE ~Authorised(m)
    <3>1. Current(m)
      BY <2>1, <2>2, <2>3, <2>5 DEF PinnedInv, Started
    <3> QED BY <1>1, <1>2, <2>3, <2>5, <3>1 DEF Current
  <2> QED BY <2>4, <2>5
<1> QED BY <1>3 DEF PinnedInv

LEMMA PinnedDecision ==
  ASSUME SyncInv, SyncInv', ShopTyped, Bounds', PinnedInv, Decision
  PROVE  PinnedInv'
<1>0. ShopTypeOK
  BY DEF ShopTyped
<1>1. /\ ShopTypeOK /\ Data /\ Data' /\ DOMAIN media = MediaId
      /\ NoRow \notin Media
      /\ OpenMedia = {m \in Rows(media) : media[m].state \notin OverStates}
      /\ OpenMedia' = {m \in Rows(media)' : media'[m].state \notin OverStates}
  <2>1. /\ OpenMedia = {m \in Rows(media) : media[m].state \notin OverStates}
        /\ OpenMedia' = {m \in Rows(media)' : media'[m].state \notin OverStates}
    BY DEF OpenMedia, OverStates
  <2>2. Data /\ Data'
    BY DEF SyncInv, Base, IInv, Typed
  <2>3. DOMAIN media = MediaId
    BY <1>0 DEF ShopTypeOK
  <2> QED BY <1>0, <2>1, <2>2, <2>3, RowTypes
<1>2. CASE Archive \/ Restore
  <2>1. OpenMedia = {} /\ UNCHANGED media
    BY <1>1, <1>2, ArchiveForm, RestoreForm DEF ArchiveAllowed, Restorable
  <2>2. OpenMedia' = {}
    BY <2>1 DEF OpenMedia, Rows
  <2> QED BY <2>2 DEF PinnedInv
<1>3. ASSUME UNCHANGED msteps, DOMAIN media' = MediaId,
             FenceOpen \/ (UNCHANGED life /\ Undisturbed),
             \A m \in OpenMedia' :
               media'[m].gen = 0 \/ (m \in OpenMedia /\ media'[m] = media[m])
      PROVE  PinnedInv'
  <2>1. SUFFICES ASSUME NEW m \in OpenMedia', Started(m)'
                 PROVE  Current(m)'
    BY DEF PinnedInv
  <2>2. m \in MediaId /\ media'[m].gen # 0
    BY <1>1, <1>3, <2>1 DEF Started, Bounds, Rows
  <2>3. m \in OpenMedia /\ media'[m] = media[m] /\ Started(m)
    BY <1>3, <2>1, <2>2 DEF Started
  <2> QED BY <1>3, <2>3 DEF FenceOpen, PinnedInv, Current, Undisturbed
<1>4. CASE SavePhotos
  <2>1. /\ UNCHANGED <<life, msteps, product, request, jobs, acked>>
        /\ media' \in [MediaId -> Media \cup {NoRow}]
    BY <1>1, <1>4, SavePhotosForm
  <2>2. PICK n \in MediaId :
          /\ media'[n].gen = 0
          /\ \A k \in MediaId \ {n} : media'[k] = media[k]
    BY <1>1, <1>4, SavePhotosForm DEF NewJob
  <2>3. \A m \in OpenMedia' :
          media'[m].gen = 0 \/ (m \in OpenMedia /\ media'[m] = media[m])
    <3> TAKE m \in OpenMedia'
    <3>1. m \in MediaId
      BY <2>1 DEF OpenMedia, Rows
    <3> QED BY <1>1, <2>1, <2>2, <3>1 DEF Rows
  <2>4. Undisturbed
    BY <2>1 DEF Undisturbed, Good, Unfinished, Created, Exists
  <2> QED BY <1>3, <2>1, <2>3, <2>4
<1>5. CASE Recount
  <2>1. UNCHANGED msteps /\ FenceOpen /\ media' \in [MediaId -> Media \cup {NoRow}]
    BY <1>1, <1>5, RecountForm
  <2>2. CASE UNCHANGED media
    <3>1. OpenMedia' = OpenMedia
      BY <2>2 DEF OpenMedia, Rows
    <3> QED BY <1>3, <2>1, <2>2, <3>1
  <2>3. CASE ~UNCHANGED media
    <3> PICK m : m = CurrentSet
      OBVIOUS
    <3>1. \E n \in MediaId :
            /\ NewJob(n, life.row + 1, media[m].ids, media[m].enable)
            /\ media'[m].state = IF media[m].state = "succeeded"
                                 THEN "succeeded" ELSE "superseded"
            /\ \A k \in MediaId \ {m, n} : media'[k] = media[k]
      BY <1>1, <1>5, <2>3, RecountForm
    <3>2. PICK n \in MediaId :
            /\ media'[n].gen = 0 /\ media'[m].state \in OverStates
            /\ \A k \in MediaId \ {m, n} : media'[k] = media[k]
      BY <3>1 DEF NewJob, OverStates
    <3>3. \A k \in OpenMedia' :
            media'[k].gen = 0 \/ (k \in OpenMedia /\ media'[k] = media[k])
      <4> TAKE k \in OpenMedia'
      <4>1. k \in MediaId /\ k # m
        BY <1>1, <2>1, <3>2 DEF Rows
      <4> QED BY <1>1, <2>1, <3>2, <4>1 DEF Rows
    <3> QED BY <1>3, <2>1, <3>3
  <2> QED BY <2>2, <2>3
<1> QED BY <1>2, <1>4, <1>5 DEF Decision

\* What a lane does to the native side, given that the lanes are shaped.
LEMMA LaneBeside ==
  ASSUME ShopTyped, NEW l \in Lanes, Lane_(l)
  PROVE  Aside \/ Cancels
<1>1. \A r \in Lanes : lane[r].at \in {"verify", "prepare", "acknowledge", "confirm"}
        => Keep(r) \in Rows(intents)
  BY DEF ShopTyped, Shaped, IntentSpots
<1> QED BY <1>1, LaneSteps

LEMMA PinnedInit == ShopInit => PinnedInv
<1>1. ShopInit => Rows(media) = {}
  BY DEF ShopInit, Rows
<1> QED BY <1>1 DEF PinnedInv, OpenMedia

LEMMA PinnedNext ==
  ASSUME SyncInv, ShopTyped, AuthorityInv, PinnedInv, [ShopNext]_allVars
  PROVE  PinnedInv'
<1>1. /\ SyncInv' /\ ShopTyped' /\ AuthorityInv' /\ Bounds /\ Bounds' /\ ShopTypeOK
  BY SyncShopNext, TypedShopNext, AuthorityNext DEF AuthorityInv, ShopTyped
<1>2. CASE UNCHANGED shopVars /\ (FenceOpen \/ Undisturbed)
  BY <1>1, <1>2, PinnedKept DEF shopVars
<1>3. CASE Decision
  BY <1>1, <1>3, PinnedDecision
<1>4. CASE Weather
  <2>1. UNCHANGED <<life, media, msteps, product, request, jobs, acked>>
    BY <1>1, <1>4, WeatherForm
  <2>2. Undisturbed
    BY <2>1 DEF Undisturbed, Good, Unfinished, Created, Exists
  <2> QED BY <1>1, <2>1, <2>2, PinnedKept
<1>5. CASE \E l \in Lanes : Lane_(l)
  <2> PICK l \in Lanes : Lane_(l)
    BY <1>5
  <2> QED BY <1>1, LaneRowsHold, LaneBeside, PinnedLane
<1> QED BY <1>2, <1>3, <1>4, <1>5, FencedCases

LEMMA PinnedBasis == ShopSpec => []PinnedInv
<1>1. SyncInv /\ ShopTyped /\ AuthorityInv /\ PinnedInv /\ [ShopNext]_allVars => PinnedInv'
  BY PinnedNext
<1> QED BY <1>1, ShopBasis, AuthorityBasis, PinnedInit, PTL DEF ShopSpec

-----------------------------------------------------------------------------
\* What the gallery shows, while PostgreSQL keeps the sessions of live processes.

\* The events leave the sessions alone.
NoLoss == \A b \in Budgets : b["loss"] = 0

\* One lane works at a time.
Excl == \A l \in Lanes : ~At(l, "idle") => idLock = l

PhotoKeys == [act : {"upload", "order", "remove"}, photo : Photos]
Enabling(m) == msteps[m][StatusKey("enable")]
Hiding(m)   == msteps[m][StatusKey("hide")]
Uploading(m, p) == msteps[m][[act |-> "upload", photo |-> p]]
Ordering(m, p)  == msteps[m][[act |-> "order", photo |-> p]]

\* Jobs are numbered without a gap.
NoGap == \A n \in Rows(media) : \A k \in 1..n : k \in Rows(media)

\* One job at most is not over: the newest one, of the current row; every step
\* of the others is resolved.
OneOpen ==
  /\ \A m \in OpenMedia : /\ media[m].row = life.row
                          /\ \A n \in Rows(media) : n <= m
  /\ \A m \in MediaId : UnresolvedSteps(m) # {} => m \in OpenMedia

\* Step k is one that job m may take of its photograph: the set decides
\* between adding and removing, an upload excludes an ordering.
Fits(m, k) ==
  /\ k.act = "remove" <=> k.photo \notin media[m].ids
  /\ k.act = "order" => Uploading(m, k.photo) = "none"
  /\ k.act # "upload" => shop.gallery[k.photo] # "none"
Chosen(m, k) == Fits(m, k) /\ (k.act = "upload" => Ordering(m, k.photo) = "none")

\* The steps that left a marker.
Marked(m) ==
  /\ \A k \in PhotoKeys : msteps[m][k] # "none" => Fits(m, k)
  /\ Enabling(m) # "none" => /\ media[m].enable /\ media[m].ids # {}
                             /\ Hiding(m) # "dispatched"

\* Magento shows the set of job m, and nothing of it is on its way.
Arranged(m) ==
  /\ \A p \in Photos : shop.gallery[p] = "shown" <=> p \in media[m].ids
  /\ \A k \in PhotoKeys : msteps[m][k] # "dispatched"

\* A product is enabled, and a job is over, only with its set arranged.
Settled(m) ==
  /\ media[m].state = "succeeded" /\ media[m].row = life.row
  /\ \A n \in Rows(media) : media[n].row = life.row => n <= m
Sets ==
  /\ \A m \in MediaId : Marked(m)
  /\ \A m \in OpenMedia : Enabling(m) # "none" => Arranged(m)
  /\ \A m \in Rows(media) : Settled(m) => Arranged(m)

\* A gallery mutation on its way is of an unresolved step, and would still
\* change something.
Flies(a) ==
  /\ a = [op |-> a.op, act |-> a.act] /\ issued[a.op] # 0
  /\ a.op.of = "media" => a.act = a.op.key.act
  /\ a.op.of = "intent" => a.act \in {"hide", "enable"}
  /\ a.op.key \in PhotoKeys => /\ msteps[a.op.id][a.op.key] = "dispatched"
                               /\ ~Effect(a.op.key)
Flights == \A a \in air : Flies(a)

\* What a lane, being x, knows of the steps it passed, and of the one it is at.
Passes(x, m) ==
  \A d \in x.done : /\ msteps[m][d] # "dispatched"
                    /\ d \in PhotoKeys => Effect(d) /\ Chosen(m, d)
Lit(x, m) ==
  IF x.lit THEN Enabling(m) # "none"
  ELSE Enabling(m) # "none" => StatusKey("hide") \in x.done
Handles(x, m, k) ==
  /\ k \notin x.done
  /\ msteps[m][k] = IF x.at = "mark" THEN "none" ELSE "dispatched"
  /\ k \in PhotoKeys => /\ Chosen(m, k) /\ \A d \in x.done : d.photo # k.photo
                        /\ x.at \in {"mark", "send"} => ~Effect(k)
                        /\ x.at = "seal" => Effect(k)
  /\ k = StatusKey("hide") => Enabling(m) = "none"
  /\ k = StatusKey("enable") =>
       /\ Arranged(m) /\ media[m].enable /\ media[m].ids # {}
       /\ x.lit \/ StatusKey("hide") \in x.done
Work(x, m) ==
  /\ m \in OpenMedia /\ Passes(x, m) /\ Lit(x, m)
  /\ x.at \in KeySpots \ {"reopen"} => Handles(x, m, x.key)
  /\ x.at = "succeed" => UnresolvedSteps(m) = {} /\ Arranged(m)
AtWork(l) == lane[l].at \in MediaSpots \ {"broken"}
Works == \A l \in Lanes : AtWork(l) => Work(lane[l], Keep(l))

MediaInv == NoGap /\ OneOpen /\ Sets /\ Flights /\ Works

\* A process frees the lock of the identity if it holds it, and takes it only
\* when it is free.
IdMove(p) == idLock' = idLock \/ idLock' = Unlocked(idLock, p) \/ idLock = NoProc

LEMMA ProcessId ==
  ASSUME NEW p, Act(p) \/ Poll(p) \/ RunProduct(p) \/ Crash(p) \/ Recover(p)
  PROVE  IdMove(p)
<1>1. CASE Enqueue(p)
  BY <1>1 DEF IdMove, Enqueue, EnqueueEnter, PlanJob, PlanFault, UseExisting,
     InsertJob, lockVars, UnlockSku
<1>2. CASE ApplyJob(p)
  BY <1>2 DEF IdMove, ApplyJob, ApplyBusy, ApplyRefused, ApplyEnter, BlockRefused,
     Begin, NextStep, Verify, Mark, Send, Readback, FinalReadback, ReadFault, Succeed,
     SaveFailure, lockVars, UnlockSku
<1>3. CASE Poll(p) \/ RunProduct(p) \/ Crash(p)
  BY <1>3 DEF IdMove, Poll, RunProduct, Claim, ConsumeReceipt, Decide,
     SupersedeUndispatched, ClearActive, Syncing, Attend, RetryLater,
     AcknowledgeApplied, EndPass, UnlockId, lockVars, Crash
<1>4. CASE Recover(p)
  BY <1>4 DEF IdMove, Recover, ManualEnqueue, ManualApply, ReconcileObserve,
     ReconcileCommit, SupersedeObserve, SupersedeCommit, lockVars, UnlockSku
<1> QED BY <1>1, <1>2, <1>3, <1>4 DEF Act

\* A lane works from the time it took the locks to the time it ends.
LEMMA LaneLocks ==
  ASSUME ShopTyped, NEW l \in Lanes, Lane_(l)
  PROVE  \/ lane'[l] = IdleLane
         \/ At(l, "idle") /\ LocksFree /\ idLock' = l
         \/ ~At(l, "idle") /\ UNCHANGED idLock
<1>1. LaneEnds(l) => lane'[l] = IdleLane
  BY DEF LaneEnds, ShopTyped, ShopTypeOK
<1>2. CASE TakeIntent(l) \/ TakeMedia(l) \/ ReviewIntent(l) \/ ReviewMedia(l)
  BY <1>2 DEF TakeIntent, TakeMedia, ReviewIntent, ReviewMedia, EnterJob, TakeLocks
<1>3. CASE \/ VerifyIntent(l) \/ LookAtStatus(l) \/ CheckPhotos(l) \/ Prepare(l)
           \/ PutStatus(l) \/ ReadStatus(l) \/ AcknowledgeIntent(l) \/ FailIntent(l)
           \/ ConfirmIntent(l) \/ StatusFault(l)
  BY <1>1, <1>3 DEF VerifyIntent, LookAtStatus, CheckPhotos, Prepare, PutStatus, ReadStatus,
     AcknowledgeIntent, FailIntent, ConfirmIntent, StatusFault, At, lockVars
<1>4. CASE \/ DecideStep(l) \/ Reopen(l) \/ MarkStep(l) \/ RecheckEnable(l)
           \/ SendStep(l) \/ CheckStep(l) \/ SealStep(l) \/ FinishJob(l)
           \/ SucceedJob(l) \/ FailJob(l) \/ MediaFault(l) \/ LaneCrash(l)
  BY <1>1, <1>4 DEF DecideStep, Reopen, MarkStep, RecheckEnable, SendStep, CheckStep,
     SealStep, FinishJob, SucceedJob, FailJob, MediaFault, LaneCrash, At, lockVars
<1> QED BY <1>2, <1>3, <1>4 DEF Lane_, LaneStep, Visibility, DeliverMedia

\* While a lane works the others do not.
LEMMA OthersIdle ==
  ASSUME ShopTyped, Excl, NEW l \in Lanes, Lane_(l), NEW r \in Lanes \ {l}
  PROVE  At(r, "idle")
<1>1. LocksFree => At(r, "idle")
  BY ShopAssumption DEF Excl, LocksFree
<1>2. ~At(l, "idle") => At(r, "idle")
  BY DEF Excl
<1>3. CASE At(l, "idle")
  <2>1. LocksFree
    BY <1>3 DEF Lane_, TakeIntent, TakeMedia, ReviewIntent, ReviewMedia, EnterJob,
       LaneStep, Visibility, DeliverMedia, VerifyIntent, LookAtStatus, CheckPhotos, Prepare,
       PutStatus, ReadStatus, AcknowledgeIntent, FailIntent, ConfirmIntent, StatusFault,
       DecideStep, Reopen, MarkStep, RecheckEnable, SendStep, CheckStep,
       SealStep, FinishJob, SucceedJob, FailJob, MediaFault, LaneCrash, At
  <2> QED BY <1>1, <2>1
<1> QED BY <1>2, <1>3

LEMMA ExclNext ==
  ASSUME NoLoss, SyncInv, ShopTyped, Excl, [ShopNext]_allVars
  PROVE  Excl'
<1>1. ShopTypeOK /\ Data /\ Workers \cup Operators = Proc
  BY SplitType DEF ShopTyped, SyncInv, Base, IInv, Proc
<1>2. ASSUME NativeStep  PROVE Excl'
  <2>1. [Next]_vars /\ UNCHANGED lane
    BY <1>2 DEF NativeStep, shopVars
  <2>2. ASSUME NEW l \in Lanes, idLock = l  PROVE idLock' = l
    <3>1. l \notin Proc /\ l # NoProc
      BY ShopAssumption
    <3>2. \A p \in Proc : IdMove(p) => idLock' = l
      BY <2>2, <3>1 DEF IdMove, Unlocked
    <3>3. ~LoseSessions
      <4> SUFFICES ASSUME LoseSessions PROVE FALSE
        OBVIOUS
      <4>1. PICK b \in Budgets : spent["loss"] < b["loss"]
        BY DEF LoseSessions, Spend
      <4>2. spent["loss"] \in Nat /\ b["loss"] = 0
        BY <1>1 DEF Data, Kinds, NoLoss
      <4> QED BY <4>1, <4>2
    <3>4. CASE Environment \/ Quiet \/ UNCHANGED vars
      BY <2>2, <3>4 DEF Environment, Edit, Touch, Retire, Publish,
         ProcessHandoff, Disable, Deliver, Lose, ForeignWrite, Quiet, vars, lockVars
    <3> QED BY <1>1, <2>1, <3>2, <3>3, <3>4, ProcessId DEF Next
  <2> QED BY <2>1, <2>2 DEF Excl, At
<1>3. CASE Decision
  <2>1. UNCHANGED <<lane, idLock>>
    BY <1>3 DEF Decision, SavePhotos, Archive, Restore, Recount, amberFrame, shopOnly,
       lockVars
  <2> QED BY <2>1 DEF Excl, At
<1>4. CASE Weather
  <2>1. UNCHANGED <<lane, idLock>>
    BY <1>1, <1>4, WeatherForm
  <2> QED BY <2>1 DEF Excl, At
<1>5. ASSUME NEW l \in Lanes, Lane_(l)  PROVE Excl'
  <2>1. OtherLanes(l)
    BY <1>1, <1>5, LaneShapes
  <2>2. \A r \in Lanes \ {l} : lane'[r].at = "idle"
    BY <1>5, <2>1, OthersIdle DEF OtherLanes, At
  <2>3. lane'[l].at # "idle" => idLock' = l
    <3>1. CASE lane'[l] = IdleLane
      BY <3>1 DEF IdleLane
    <3>2. CASE At(l, "idle") /\ idLock' = l
      BY <3>2
    <3>3. CASE ~At(l, "idle") /\ UNCHANGED idLock
      BY <3>3 DEF Excl
    <3> QED BY <1>5, <3>1, <3>2, <3>3, LaneLocks
  <2> QED BY <2>2, <2>3 DEF Excl, At
<1> QED BY <1>2, <1>3, <1>4, <1>5, ShopCases

\* The keys of a job's steps.
LEMMA KeyFacts ==
  /\ PhotoKeys \subseteq Keys
  /\ StatusKey("hide") \in Keys /\ StatusKey("enable") \in Keys
  /\ StatusKey("hide") # StatusKey("enable")
  /\ StatusKey("hide") \notin PhotoKeys /\ StatusKey("enable") \notin PhotoKeys
  /\ \A k \in Keys : k \in PhotoKeys \/ k = StatusKey("hide") \/ k = StatusKey("enable")
  /\ \A k \in PhotoKeys : /\ k.photo \in Photos /\ k.act \in {"upload", "order", "remove"}
                          /\ k = [act |-> k.act, photo |-> k.photo]
  /\ \A p \in Photos, act \in {"upload", "order", "remove"} :
       [act |-> act, photo |-> p] \in PhotoKeys
<1>1. PhotoKeys \subseteq Keys
  BY DEF PhotoKeys, Keys
<1>2. \A k \in Keys : k \in PhotoKeys \/ k = StatusKey("hide") \/ k = StatusKey("enable")
  BY DEF PhotoKeys, Keys
<1>3. /\ StatusKey("hide") \in Keys /\ StatusKey("enable") \in Keys
      /\ StatusKey("hide") # StatusKey("enable")
  BY DEF Keys, StatusKey
<1>4. StatusKey("hide") \notin PhotoKeys /\ StatusKey("enable") \notin PhotoKeys
  BY DEF PhotoKeys, StatusKey
<1>5. \A k \in PhotoKeys : /\ k.photo \in Photos /\ k.act \in {"upload", "order", "remove"}
                           /\ k = [act |-> k.act, photo |-> k.photo]
  BY DEF PhotoKeys
<1>6. \A p \in Photos, act \in {"upload", "order", "remove"} :
        [act |-> act, photo |-> p] \in PhotoKeys
  BY DEF PhotoKeys
<1> QED BY <1>1, <1>2, <1>3, <1>4, <1>5, <1>6

LEMMA PhotoEffect ==
  ASSUME NEW k \in PhotoKeys
  PROVE  Effect(k) <=> shop.gallery[k.photo] = IF k.act = "remove" THEN "disabled" ELSE "shown"
<1>1. k.act \in {"upload", "order", "remove"}
  BY KeyFacts
<1> QED BY <1>1 DEF Effect

\* A photograph has one step of a job.
LEMMA OneStep ==
  ASSUME NEW m \in MediaId, Marked(m), NEW k \in PhotoKeys, NEW d \in PhotoKeys,
         Chosen(m, k), d.photo = k.photo, msteps[m][d] # "none"
  PROVE  d = k
<1>1. Fits(m, d) /\ Fits(m, k)
  BY DEF Marked, Chosen
<1>2. /\ d = [act |-> d.act, photo |-> d.photo] /\ k = [act |-> k.act, photo |-> k.photo]
      /\ d.act \in {"upload", "order", "remove"} /\ k.act \in {"upload", "order", "remove"}
  BY KeyFacts
<1>3. d.act = k.act
  <2>1. d.act = "remove" <=> k.act = "remove"
    BY <1>1 DEF Fits
  <2>2. ~(k.act = "order" /\ d.act = "upload")
    BY <1>1, <1>2 DEF Fits, Uploading
  <2>3. ~(k.act = "upload" /\ d.act = "order")
    BY <1>2 DEF Chosen, Ordering
  <2> QED BY <1>2, <2>1, <2>2, <2>3
<1> QED BY <1>2, <1>3

LEMMA MarkChosen ==
  ASSUME NEW m \in MediaId, Marked(m), NEW k \in PhotoKeys, msteps[m][k] # "none"
  PROVE  Chosen(m, k)
<1>1. Fits(m, k)
  BY DEF Marked
<1>2. ASSUME k.act = "upload", Ordering(m, k.photo) # "none"  PROVE FALSE
  <2> DEFINE d == [act |-> "order", photo |-> k.photo]
  <2>1. d \in PhotoKeys /\ d.act = "order" /\ d.photo = k.photo
    BY KeyFacts
  <2>2. k = [act |-> "upload", photo |-> k.photo]
    BY <1>2, KeyFacts
  <2>3. Fits(m, d)
    BY <1>2, <2>1 DEF Marked, Ordering
  <2> QED BY <2>1, <2>2, <2>3 DEF Fits, Uploading
<1> QED BY <1>1, <1>2 DEF Chosen

\* A mutation that would change the gallery belongs to the one open job.
LEMMA FlightIsOpen ==
  ASSUME ShopTyped, OneOpen, Sets, Flights, NEW a \in air, a.op.key \in PhotoKeys
  PROVE  /\ a.op.id \in MediaId /\ a.op.id \in OpenMedia /\ a.op.of = "media"
         /\ Chosen(a.op.id, a.op.key) /\ a.act = a.op.key.act
         /\ msteps[a.op.id][a.op.key] = "dispatched"
<1>1. Flies(a) /\ a.op \in Ops /\ a.op.key.photo \in Photos
  BY KeyFacts DEF Flights, ShopTyped, ShopTypeOK
<1>2. a.op.of = "media" /\ a.op.id \in MediaId
  BY <1>1, ShopAssumption DEF Ops, IntentOp, MediaOp, StatusKey
<1>3. msteps[a.op.id][a.op.key] = "dispatched" /\ a.act = a.op.key.act
  BY <1>1, <1>2 DEF Flies
<1>4. UnresolvedSteps(a.op.id) # {}
  BY <1>3, KeyFacts DEF UnresolvedSteps
<1> QED BY <1>2, <1>3, <1>4, MarkChosen DEF OneOpen, Sets

LEMMA OpenIsOne ==
  ASSUME ShopTyped, OneOpen, NEW m \in OpenMedia, NEW n \in OpenMedia
  PROVE  m = n /\ m \in MediaId
<1>1. m \in Rows(media) /\ n \in Rows(media)
  BY DEF OpenMedia
<1>2. m \in Nat /\ n \in Nat /\ m \in MediaId
  BY <1>1, RowTypes DEF ShopTyped
<1> QED BY <1>1, <1>2 DEF OneOpen

\* The gallery stays as it is, or one photograph gets what step k asks for.
SameGallery == \A p \in Photos : shop'.gallery[p] = shop.gallery[p]
Lands(k) ==
  \A p \in Photos : shop'.gallery[p] =
    IF p # k.photo THEN shop.gallery[p]
    ELSE IF k.act = "remove" THEN "disabled" ELSE "shown"

LEMMA WeatherGallery ==
  ASSUME ShopTyped, Flights, Weather
  PROVE  /\ air' \subseteq air
         /\ SameGallery \/ \E a \in air : /\ a.op.key \in PhotoKeys /\ air' = air \ {a}
                                         /\ Lands(a.op.key)
<1>1. /\ ShopTypeOK /\ shop \in Shop
      /\ \/ \E a \in air : /\ air' = air \ {a}
                           /\ shop' = Applied(a.act, a.op.key.photo)
         \/ \E a \in air : air' = air \ {a} /\ shop' = shop
         \/ /\ Spend("foreign") /\ air' = air /\ shop'.gallery = shop.gallery
  BY WeatherForm DEF ShopTyped, ShopTypeOK
<1>2. CASE \E a \in air : air' = air \ {a} /\ shop' = shop
  BY <1>2 DEF SameGallery
<1>3. CASE air' = air /\ shop'.gallery = shop.gallery
  BY <1>3 DEF SameGallery
<1>4. ASSUME NEW a \in air, air' = air \ {a}, shop' = Applied(a.act, a.op.key.photo)
      PROVE  SameGallery \/ (a.op.key \in PhotoKeys /\ Lands(a.op.key))
  <2>1. Flies(a) /\ a.op \in Ops
    BY <1>1 DEF Flights, ShopTypeOK
  <2> DEFINE act == a.act
             photo == a.op.key.photo
  <2>2. \A p \in Photos : shop'.gallery[p] =
          (IF act \in {"hide", "enable"} \/ p # photo THEN shop.gallery[p]
           ELSE IF act = "remove" THEN "disabled" ELSE "shown")
    BY <1>1, <1>4, AppliedIs
  <2>3. CASE a.op.of = "intent"
    BY <2>1, <2>2, <2>3 DEF Flies, SameGallery
  <2>4. CASE a.op.of = "media"
    <3>1. a.act = a.op.key.act /\ a.op.key \in Keys
      BY <2>1, <2>4 DEF Flies, Ops, IntentOp, MediaOp
    <3>2. CASE a.op.key \in PhotoKeys
      BY <2>2, <3>1, <3>2, KeyFacts DEF Lands
    <3>3. CASE a.op.key \notin PhotoKeys
      <4>1. act \in {"hide", "enable"}
        BY <3>1, <3>3, KeyFacts DEF StatusKey
      <4> QED BY <2>2, <4>1 DEF SameGallery
    <3> QED BY <3>2, <3>3
  <2>5. a.op.of \in {"intent", "media"}
    BY <2>1 DEF Ops, IntentOp, MediaOp
  <2> QED BY <2>3, <2>4, <2>5
<1> QED BY <1>1, <1>2, <1>3, <1>4

\* Nothing of job m moves.
LEMMA SameSteps ==
  ASSUME NEW m, UNCHANGED <<media, msteps>>, SameGallery,
         media[m].ids \subseteq Photos
  PROVE  /\ \A k \in PhotoKeys : (Effect(k)' <=> Effect(k)) /\ (Chosen(m, k)' <=> Chosen(m, k))
         /\ Marked(m)' <=> Marked(m)
         /\ Arranged(m)' <=> Arranged(m)
<1>1. \A k \in PhotoKeys : shop'.gallery[k.photo] = shop.gallery[k.photo]
  BY KeyFacts DEF SameGallery
<1>2. ASSUME NEW k \in PhotoKeys  PROVE Effect(k)' <=> Effect(k)
  BY <1>1, KeyFacts DEF Effect
<1>3. ASSUME NEW k \in PhotoKeys  PROVE Fits(m, k)' <=> Fits(m, k)
  BY <1>1 DEF Fits, Uploading
<1>4. ASSUME NEW k \in PhotoKeys  PROVE Chosen(m, k)' <=> Chosen(m, k)
  BY <1>3 DEF Chosen, Ordering
<1>5. Marked(m)' <=> Marked(m)
  BY <1>3 DEF Marked, Enabling, Hiding
<1>6. Arranged(m)' <=> Arranged(m)
  BY DEF Arranged, SameGallery
<1> QED BY <1>2, <1>4, <1>5, <1>6

LEMMA WorkKept ==
  ASSUME UNCHANGED <<media, msteps>>, SameGallery, NEW x, NEW m,
         media[m].ids \subseteq Photos, Work(x, m)
  PROVE  Work(x, m)'
<1>1. /\ \A k \in PhotoKeys : (Effect(k)' <=> Effect(k)) /\ (Chosen(m, k)' <=> Chosen(m, k))
      /\ Arranged(m)' <=> Arranged(m)
  BY SameSteps
<1>2. Passes(x, m)' /\ Lit(x, m)'
  BY <1>1 DEF Work, Passes, Lit, Enabling
<1>3. \A k : Handles(x, m, k) => Handles(x, m, k)'
  BY <1>1 DEF Handles, Enabling
<1>4. m \in OpenMedia' /\ UnresolvedSteps(m)' = UnresolvedSteps(m)
  BY DEF Work, OpenMedia, Rows, UnresolvedSteps
<1> QED BY <1>1, <1>2, <1>3, <1>4 DEF Work

\* The sets under a step that leaves the jobs, their steps and the gallery alone.
LEMMA MediaCalm ==
  ASSUME ShopTyped, MediaInv, UNCHANGED <<media, msteps>>, life'.row = life.row, SameGallery,
         \A a \in air' : a \in air \/ Flies(a)',
         \A a \in air : issued'[a.op] # 0
  PROVE  /\ NoGap' /\ OneOpen' /\ Sets' /\ Flights'
         /\ \A x, m : Work(x, m) => Work(x, m)'
<1>1. /\ OpenMedia' = OpenMedia /\ Rows(media)' = Rows(media)
      /\ \A m : UnresolvedSteps(m)' = UnresolvedSteps(m)
      /\ \A m \in MediaId : m \in Rows(media) => media[m].ids \subseteq Photos
  BY RowTypes DEF OpenMedia, Rows, UnresolvedSteps, ShopTyped, Media
<1>2. NoGap' /\ OneOpen'
  BY <1>1 DEF MediaInv, NoGap, OneOpen
<1>3. Sets'
  <2>1. ASSUME NEW m \in MediaId  PROVE Marked(m)'
    <3>1. CASE m \in Rows(media)
      BY <1>1, <3>1, SameSteps DEF MediaInv, Sets
    <3>2. CASE m \notin Rows(media)
      <4>1. media[m].ids = media'[m].ids /\ msteps'[m] = msteps[m]
        OBVIOUS
      <4>2. Marked(m)
        BY DEF MediaInv, Sets
      <4>3. \A k \in PhotoKeys : shop'.gallery[k.photo] = shop.gallery[k.photo]
        BY KeyFacts DEF SameGallery
      <4> QED BY <4>1, <4>2, <4>3 DEF Marked, Fits, Uploading, Enabling, Hiding
    <3> QED BY <3>1, <3>2
  <2>2. ASSUME NEW m \in Rows(media)
        PROVE  Arranged(m)' <=> Arranged(m)
    BY <1>1, SameSteps, RowTypes DEF ShopTyped
  <2>3. \A m \in OpenMedia : m \in Rows(media) /\ Enabling(m)' = Enabling(m)
    BY DEF OpenMedia, Enabling
  <2>4. \A m \in Rows(media) : Settled(m)' => Settled(m)
    BY <1>1 DEF Settled
  <2> QED BY <1>1, <2>1, <2>2, <2>3, <2>4 DEF MediaInv, Sets
<1>4. Flights'
  <2>1. SUFFICES ASSUME NEW a \in air, Flies(a)  PROVE Flies(a)'
    BY DEF MediaInv, Flights
  <2>2. a.op.key \in PhotoKeys => (Effect(a.op.key)' <=> Effect(a.op.key))
    <3>1. \A k \in PhotoKeys : shop'.gallery[k.photo] = shop.gallery[k.photo]
      BY KeyFacts DEF SameGallery
    <3> QED BY <3>1, KeyFacts DEF Effect
  <2> QED BY <2>1, <2>2 DEF Flies
<1>5. ASSUME NEW x, NEW m, Work(x, m)
      PROVE  Work(x, m)'
  <2>1. media[m].ids \subseteq Photos
    BY <1>1, <1>5, RowTypes DEF Work, OpenMedia, ShopTyped
  <2> QED BY <1>5, <2>1, WorkKept
<1> QED BY <1>2, <1>3, <1>4, <1>5

LEMMA MediaWeather ==
  ASSUME ShopTyped, LedgerInv, MediaInv, Weather
  PROVE  MediaInv'
<1>1. /\ UNCHANGED <<life, media, msteps, issued, lane>> /\ air' \subseteq air
      /\ SameGallery \/ \E a \in air : /\ a.op.key \in PhotoKeys /\ air' = air \ {a}
                                      /\ Lands(a.op.key)
  BY WeatherForm, WeatherGallery DEF ShopTyped, MediaInv
<1>2. \A r \in Lanes : AtWork(r)' => AtWork(r)
  BY <1>1 DEF AtWork
<1>3. CASE SameGallery
  <2>1. \A a \in air : issued'[a.op] # 0
    BY <1>1 DEF MediaInv, Flights, Flies
  <2>2. /\ NoGap' /\ OneOpen' /\ Sets' /\ Flights'
        /\ \A x, m : Work(x, m) => Work(x, m)'
    BY <1>1, <1>3, <2>1, MediaCalm DEF MediaInv
  <2>3. ASSUME NEW r \in Lanes, AtWork(r)'  PROVE Work(lane[r], Keep(r))'
    <3> PICK x, m : x = lane[r] /\ m = Keep(r)
      OBVIOUS
    <3>1. lane'[r] = x /\ Keep(r)' = m /\ Work(x, m)
      BY <1>1, <1>2, <2>3 DEF Keep, MediaInv, Works
    <3> QED BY <2>2, <3>1
  <2> QED BY <2>2, <2>3 DEF MediaInv, Works
<1>4. ASSUME NEW a \in air, a.op.key \in PhotoKeys, air' = air \ {a}, Lands(a.op.key)
      PROVE  MediaInv'
  <2> PICK n, k : n = a.op.id /\ k = a.op.key
    OBVIOUS
  <2>1. /\ n \in MediaId /\ n \in OpenMedia /\ k \in PhotoKeys /\ k.photo \in Photos
        /\ msteps[n][k] = "dispatched" /\ Chosen(n, k) /\ a.op.of = "media"
        /\ k \in Keys
    BY <1>4, FlightIsOpen, KeyFacts DEF MediaInv
  <2>2. /\ OpenMedia' = OpenMedia /\ Rows(media)' = Rows(media)
        /\ \A m : UnresolvedSteps(m)' = UnresolvedSteps(m)
    BY <1>1 DEF OpenMedia, Rows, UnresolvedSteps
  <2>3. NoGap' /\ OneOpen'
    BY <1>1, <2>2 DEF MediaInv, NoGap, OneOpen
  \* Only the photograph of k moves, and only step k of job n was of it.
  <2>4. /\ \A p \in Photos : p # k.photo => shop'.gallery[p] = shop.gallery[p]
        /\ \A p \in Photos : shop.gallery[p] # "none" => shop'.gallery[p] # "none"
        /\ Effect(k)'
    BY <1>4, <2>1, KeyFacts DEF Lands, Effect
  <2>5. ASSUME NEW d \in PhotoKeys, d.photo # k.photo
        PROVE  Effect(d)' <=> Effect(d)
    BY <2>4, <2>5, KeyFacts DEF Effect
  <2>6. ASSUME NEW d \in PhotoKeys, Chosen(n, d), d # k
        PROVE  d.photo # k.photo
    BY <2>1, <2>6, OneStep DEF MediaInv, Sets
  <2>7. \A m \in MediaId, d \in PhotoKeys : Fits(m, d) => Fits(m, d)'
    BY <1>1, <2>4, KeyFacts DEF Fits, Uploading
  <2>8. \A m \in MediaId, d \in PhotoKeys : Chosen(m, d) => Chosen(m, d)'
    BY <1>1, <2>7 DEF Chosen, Ordering
  <2>9. \A m \in MediaId : Marked(m) => Marked(m)'
    BY <1>1, <2>7 DEF Marked, Enabling, Hiding
  <2>10. ~Arranged(n)
    BY <2>1 DEF Arranged
  <2>11. Sets'
    <3>1. \A m \in OpenMedia' : Enabling(m)' = "none"
      BY <1>1, <2>1, <2>2, <2>10, OpenIsOne DEF MediaInv, Sets, Enabling
    <3>2. ASSUME NEW m \in Rows(media), Settled(m)'  PROVE FALSE
      <4>1. Settled(m)
        BY <1>1, <2>2, <3>2 DEF Settled
      <4>2. n \in Rows(media) /\ media[n].row = life.row /\ m <= n
        BY <2>1 DEF MediaInv, OneOpen, OpenMedia
      <4>3. n <= m /\ n \in Nat /\ m \in Nat
        BY <4>1, <4>2, RowTypes DEF Settled, ShopTyped
      <4>4. n = m
        BY <4>2, <4>3
      <4> QED BY <2>1, <4>1, <4>4 DEF Settled, OpenMedia
    <3> QED BY <2>2, <2>9, <3>1, <3>2 DEF MediaInv, Sets
  <2>12. Flights'
    <3>1. SUFFICES ASSUME NEW b \in air, b # a, Flies(b)  PROVE Flies(b)'
      BY <1>4 DEF MediaInv, Flights
    <3>2. ASSUME b.op.key \in PhotoKeys
          PROVE  Effect(b.op.key)' <=> Effect(b.op.key)
      <4> PICK d : d = b.op.key
        OBVIOUS
      <4>1. /\ b.op.id \in OpenMedia /\ Chosen(b.op.id, d) /\ b.act = d.act
            /\ b.op.of = "media"
        BY <3>2, FlightIsOpen DEF MediaInv
      <4>2. b.op.id = n
        BY <2>1, <4>1, OpenIsOne DEF MediaInv
      <4>3. CASE d = k
        <5>1. a.op \in Ops /\ b.op \in Ops
          BY DEF ShopTyped, ShopTypeOK
        <5>2. \A op \in Ops : op.of = "media" => op = MediaOp(op.id, op.key)
          BY DEF Ops, IntentOp, MediaOp
        <5>6. a.op = MediaOp(n, k) /\ b.op = MediaOp(n, d)
          BY <2>1, <4>1, <4>2, <5>1, <5>2
        <5>3. a.act = k.act
          BY <1>4, FlightIsOpen DEF MediaInv
        <5>4. a = [op |-> a.op, act |-> a.act] /\ b = [op |-> b.op, act |-> b.act]
          BY DEF MediaInv, Flights, Flies
        <5> QED BY <3>1, <4>1, <4>3, <5>3, <5>4, <5>6
      <4>4. CASE d # k
        BY <2>5, <2>6, <3>2, <4>1, <4>2, <4>4
      <4> QED BY <4>3, <4>4
    <3> QED BY <1>1, <3>1, <3>2 DEF Flies
  <2>13. ASSUME NEW x, NEW m, x.at \in KeySpots \ {"reopen"} => x.key \in Keys,
                x.at = "send" => issued[MediaOp(m, x.key)] = 0, Work(x, m)
         PROVE  Work(x, m)'
    <3>3. m = n
      BY <2>1, <2>13, OpenIsOne DEF Work, MediaInv
    <3>4. Passes(x, n)'
      <4>1. SUFFICES ASSUME NEW d \in x.done
                     PROVE  /\ msteps[n][d] # "dispatched"
                            /\ d \in PhotoKeys => Effect(d)' /\ Chosen(n, d)'
        BY <1>1 DEF Passes
      <4>2. msteps[n][d] # "dispatched" /\ (d \in PhotoKeys => Effect(d) /\ Chosen(n, d))
        BY <2>13, <3>3 DEF Work, Passes
      <4> QED BY <2>1, <2>5, <2>6, <2>8, <4>2
    <3>5. Lit(x, n)'
      BY <1>1, <2>13, <3>3 DEF Work, Lit, Enabling
    <3>6. ASSUME x.at \in KeySpots \ {"reopen"}
          PROVE  Handles(x, n, x.key)'
      <4> PICK d : d = x.key
        OBVIOUS
      <4>1. Handles(x, n, d) /\ d \in Keys
        BY <2>13, <3>3, <3>6 DEF Work
      <4>2. d # StatusKey("enable")
        BY <2>10, <4>1 DEF Handles
      <4>3. ASSUME d \in PhotoKeys
            PROVE  /\ Chosen(n, d)'
                   /\ x.at \in {"mark", "send"} => ~Effect(d)'
                   /\ x.at = "seal" => Effect(d)'
        <5>1. Chosen(n, d) /\ Chosen(n, d)'
          BY <2>1, <2>8, <4>1, <4>3 DEF Handles
        <5>2. CASE d # k
          BY <2>5, <2>6, <4>1, <4>3, <5>1, <5>2 DEF Handles
        <5>3. CASE d = k
          <6>1. x.at # "mark"
            BY <2>1, <4>1, <5>3 DEF Handles
          <6>2. x.at # "send"
            <7>1. a.op \in Ops /\ issued[a.op] # 0
              BY DEF ShopTyped, ShopTypeOK, MediaInv, Flights, Flies
            <7>2. a.op = MediaOp(n, k)
              BY <2>1, <7>1 DEF Ops, IntentOp, MediaOp
            <7> QED BY <2>13, <3>3, <5>3, <7>1, <7>2
          <6> QED BY <2>4, <5>1, <5>3, <6>1, <6>2
        <5> QED BY <5>2, <5>3
      <4>4. Handles(x, n, d)'
        BY <1>1, <4>1, <4>2, <4>3 DEF Handles, Enabling
      <4> QED BY <4>4
    <3>7. x.at # "succeed"
      BY <2>10, <2>13, <3>3 DEF Work
    <3>8. Work(x, n)'
      BY <1>1, <2>1, <2>2, <3>4, <3>5, <3>6, <3>7 DEF Work
    <3> QED BY <3>3, <3>8
  <2>14. ASSUME NEW r \in Lanes, AtWork(r)'  PROVE Work(lane[r], Keep(r))'
    <3> PICK x, m : x = lane[r] /\ m = Keep(r)
      OBVIOUS
    <3>1. lane'[r] = x /\ Keep(r)' = m /\ Work(x, m)
      BY <1>1, <1>2, <2>14 DEF Keep, MediaInv, Works
    <3>2. x.at \in KeySpots \ {"reopen"} => x.key \in Keys
      BY MediaLane
    <3>3. x.at = "send" => issued[MediaOp(m, x.key)] = 0
      <4>1. x.at = "send" => AboutTo(r) /\ LaneOp(r) = MediaOp(m, x.key)
        BY DEF AboutTo, LaneOp, At
      <4> QED BY <4>1 DEF LedgerInv
    <3>4. Work(x, m)'
      BY <2>13, <3>1, <3>2, <3>3
    <3> QED BY <3>1, <3>4
  <2> QED BY <2>3, <2>11, <2>12, <2>14 DEF MediaInv, Works
<1> QED BY <1>1, <1>3, <1>4

\* A lane that only moves on, its jobs and their steps left alone, knows what
\* the invariant asks of it where it comes to.
LEMMA MediaGoesOn ==
  ASSUME ShopTyped, MediaInv, NEW l \in Lanes,
         \A r \in Lanes \ {l} : lane'[r] = lane[r],
         UNCHANGED <<media, msteps, shop, life>>,
         \A a \in air' : a \in air \/ Flies(a)',
         \A a \in air : issued'[a.op] # 0,
         AtWork(l)' => Work(lane'[l], lane'[l].id)
  PROVE  MediaInv'
<1>1. SameGallery
  BY DEF SameGallery
<1>2. /\ NoGap' /\ OneOpen' /\ Sets' /\ Flights'
      /\ \A x, m : Work(x, m) => Work(x, m)'
  BY <1>1, MediaCalm
<1>3. ASSUME NEW r \in Lanes, AtWork(r)'  PROVE Work(lane[r], Keep(r))'
  <2> PICK x, m : x = lane'[r] /\ m = lane'[r].id
    OBVIOUS
  <2>1. Work(x, m)
    <3>1. CASE r = l
      BY <1>3, <3>1
    <3>2. CASE r # l
      <4>1. lane'[r] = lane[r] /\ AtWork(r)
        BY <1>3, <3>2 DEF AtWork
      <4> QED BY <4>1 DEF MediaInv, Works, Keep
    <3> QED BY <3>1, <3>2
  <2>2. Work(x, m)'
    BY <1>2, <2>1
  <2> QED BY <2>2 DEF Keep
<1> QED BY <1>2, <1>3 DEF MediaInv, Works

LEMMA MediaNative ==
  ASSUME ShopTyped, MediaInv, UNCHANGED shopVars
  PROVE  MediaInv'
<1>1. UNCHANGED <<media, msteps, shop, life, air, issued, lane>> /\ SameGallery
  BY DEF shopVars, SameGallery
<1>2. \A a \in air : issued'[a.op] # 0
  BY <1>1 DEF MediaInv, Flights, Flies
<1>3. /\ NoGap' /\ OneOpen' /\ Sets' /\ Flights'
      /\ \A x, m : Work(x, m) => Work(x, m)'
  BY <1>1, <1>2, MediaCalm
<1>4. ASSUME NEW r \in Lanes, AtWork(r)'  PROVE Work(lane[r], Keep(r))'
  <2> PICK x, m : x = lane[r] /\ m = Keep(r)
    OBVIOUS
  <2>1. lane'[r] = x /\ Keep(r)' = m /\ Work(x, m)
    BY <1>1, <1>4 DEF Keep, MediaInv, Works, AtWork
  <2> QED BY <1>3, <2>1
<1> QED BY <1>3, <1>4 DEF MediaInv, Works

\* The steps of a lane that leave no lane at work on a photo set.
LEMMA MediaAside ==
  ASSUME ShopTyped, Data, MediaInv, NEW l \in Lanes,
         \/ TakeIntent(l) \/ Visibility(l) \/ ReviewIntent(l) \/ StatusFault(l)
         \/ LaneCrash(l) \/ MediaFault(l)
  PROVE  MediaInv'
<1>1. /\ ShopTypeOK /\ \A a \in air : issued[a.op] # 0
      /\ \A a \in air : a.op \in Ops
  BY DEF ShopTyped, ShopTypeOK, MediaInv, Flights, Flies
<1>2. UNCHANGED tables => UNCHANGED <<media, msteps, shop, life, air, issued>>
  BY DEF tables
<1>3. /\ \A r : Turns(l, r) => (\A q \in Lanes \ {l} : lane'[q] = lane[q]) /\ lane'[l] = r
      /\ \A spot : Stays(l, spot) => /\ \A q \in Lanes \ {l} : lane'[q] = lane[q]
                                     /\ lane'[l].at = spot
  BY DEF Turns, Stays, OtherLanes
<1>4. /\ IntentSpots \cap MediaSpots = {} /\ IdleLane.at \notin MediaSpots
      /\ "broken" \notin MediaSpots \ {"broken"}
  BY DEF IntentSpots, MediaSpots, IdleLane
<1>5. \A spot : spot \notin MediaSpots \ {"broken"} /\ lane'[l].at = spot => ~AtWork(l)'
  BY DEF AtWork
<1>6. CASE \/ TakeIntent(l) \/ LookAtStatus(l) \/ CheckPhotos(l) \/ ReviewIntent(l)
  <2>1. UNCHANGED tables /\ \E r : Turns(l, r) /\ r.at \in IntentSpots
    BY <1>6, TakeIntentForm, LookForm, CheckPhotosForm, ReviewIntentForm DEF IntentSpots
  <2>2. PICK r : Turns(l, r) /\ r.at \in IntentSpots
    BY <2>1
  <2>3. ~AtWork(l)' /\ \A q \in Lanes \ {l} : lane'[q] = lane[q]
    BY <1>3, <1>4, <2>2 DEF AtWork
  <2> QED BY <1>1, <1>2, <2>1, <2>3, MediaGoesOn
<1>7. CASE \/ VerifyIntent(l) \/ ReadStatus(l) \/ StatusFault(l) \/ LaneCrash(l)
           \/ MediaFault(l)
  <2>1. /\ UNCHANGED tables
        /\ \/ Turns(l, IdleLane) \/ \E spot \in IntentSpots \cup {"broken"} : Stays(l, spot)
    BY <1>7, VerifyIntentForm, ReadForm, StatusFaultForm, CrashForm, MediaFaultForm
       DEF IntentSpots
  <2>2. ~AtWork(l)' /\ \A q \in Lanes \ {l} : lane'[q] = lane[q]
    BY <1>3, <1>4, <2>1 DEF AtWork
  <2> QED BY <1>1, <1>2, <2>1, <2>2, MediaGoesOn
<1>8. CASE \/ Prepare(l) \/ AcknowledgeIntent(l) \/ FailIntent(l) \/ ConfirmIntent(l)
  <2>1. /\ UNCHANGED <<life, media, msteps, shop, air, issued>>
        /\ \/ Turns(l, IdleLane) \/ \E spot \in IntentSpots \cup {"broken"} : Stays(l, spot)
    BY <1>8, PrepareForm, AcknowledgeForm, FailIntentForm, ConfirmForm DEF IntentSpots
  <2>2. ~AtWork(l)' /\ \A q \in Lanes \ {l} : lane'[q] = lane[q]
    BY <1>3, <1>4, <2>1 DEF AtWork
  <2> QED BY <1>1, <2>1, <2>2, MediaGoesOn
<1>9. CASE PutStatus(l)
  <2> PICK i, act : i = Keep(l) /\ act = IF intents[i].target = On THEN "enable" ELSE "hide"
    OBVIOUS
  <2>1. /\ UNCHANGED <<life, media, msteps, shop>> /\ Stays(l, "readback")
        /\ Emit(IntentOp(i), act) /\ act \in {"hide", "enable"} /\ IntentOp(i) \in Ops
    BY <1>9, PutForm
  <2> DEFINE op == IntentOp(i)
             a == [op |-> op, act |-> act]
  <2>2. op.of = "intent" /\ op.key \notin PhotoKeys
    BY KeyFacts DEF IntentOp, StatusKey, PhotoKeys
  <2> HIDE DEF op
  <2>3. air' = air \cup {a} /\ issued' = [issued EXCEPT ![op] = @ + 1]
    BY <2>1 DEF Emit, op
  <2>4. issued \in [Ops -> Nat] /\ op \in Ops
    BY <1>1, <2>1 DEF ShopTypeOK, op
  <2>5. issued'[op] # 0 /\ \A b \in air : issued'[b.op] # 0
    BY <1>1, <2>3, <2>4
  <2>6. Flies(a)'
    BY <2>1, <2>2, <2>5 DEF Flies
  <2>7. ~AtWork(l)' /\ \A q \in Lanes \ {l} : lane'[q] = lane[q]
    BY <1>3, <1>4, <2>1 DEF AtWork, IntentSpots
  <2> QED BY <2>1, <2>3, <2>5, <2>6, <2>7, MediaGoesOn
<1> QED BY <1>6, <1>7, <1>8, <1>9 DEF Visibility

\* The open job gets another state or is pinned; over it is with its set arranged.
LEMMA JobRemade ==
  ASSUME ShopTyped, MediaInv, NEW m \in OpenMedia, NEW s, NEW g, Remakes(m, s, g),
         UNCHANGED <<msteps, shop, air, issued, life>>,
         s \in OverStates => UnresolvedSteps(m) = {} /\ Arranged(m)
  PROVE  /\ NoGap' /\ OneOpen' /\ Sets' /\ Flights'
         /\ s \notin OverStates => m \in OpenMedia'
<1>1. /\ ShopTypeOK /\ Rows(media) \subseteq MediaId /\ m \in Rows(media)
      /\ NoRow \notin Media /\ media' \in [MediaId -> Media \cup {NoRow}]
      /\ media \in [MediaId -> Media \cup {NoRow}]
  BY RowTypes DEF ShopTyped, ShopTypeOK, OpenMedia, Remakes
<1>2. /\ Rows(media)' = Rows(media)
      /\ \A n \in MediaId : /\ media'[n].ids = media[n].ids
                            /\ media'[n].row = media[n].row
                            /\ media'[n].enable = media[n].enable
  BY <1>1 DEF Rows, Remakes
<1>3. /\ OpenMedia' \subseteq OpenMedia /\ OpenMedia \ {m} \subseteq OpenMedia'
      /\ s \notin OverStates => m \in OpenMedia'
  BY <1>1, <1>2 DEF OpenMedia, Remakes, OverStates
<1>4. \A n : UnresolvedSteps(n)' = UnresolvedSteps(n)
  BY DEF UnresolvedSteps
<1>5. NoGap' /\ OneOpen'
  <2>1. NoGap'
    BY <1>2 DEF MediaInv, NoGap
  <2>2. ASSUME NEW n \in OpenMedia'
        PROVE  media'[n].row = life.row /\ \A k \in Rows(media) : k <= n
    <3>1. n \in OpenMedia /\ n \in MediaId
      BY <1>1, <1>3 DEF OpenMedia
    <3> QED BY <1>2, <3>1 DEF MediaInv, OneOpen
  <2>3. \A n \in MediaId : UnresolvedSteps(n) # {} => n \in OpenMedia'
    BY <1>3 DEF MediaInv, OneOpen
  <2> QED BY <1>2, <1>4, <2>1, <2>2, <2>3 DEF OneOpen
<1>6. \A n \in MediaId : \A k : Fits(n, k)' <=> Fits(n, k)
  BY <1>2 DEF Fits, Uploading
<1>7. \A n \in MediaId : (Marked(n)' <=> Marked(n)) /\ (Arranged(n)' <=> Arranged(n))
  BY <1>2, <1>6 DEF Marked, Arranged, Enabling, Hiding
<1>8. ASSUME NEW n \in Rows(media), Settled(n)'  PROVE Arranged(n)
  <2>1. CASE n = m
    <3>1. s \in OverStates
      BY <1>8, <2>1 DEF Settled, Remakes, OverStates
    <3> QED BY <2>1, <3>1
  <2>2. CASE n # m
    <3>1. media'[n] = media[n]
      BY <1>1, <2>2 DEF Remakes
    <3>2. Settled(n)
      BY <1>1, <1>2, <1>8, <3>1 DEF Settled
    <3> QED BY <3>2 DEF MediaInv, Sets
  <2> QED BY <2>1, <2>2
<1>9. Sets'
  <2>1. \A n \in OpenMedia' : Enabling(n)' # "none" => Arranged(n)
    BY <1>3 DEF MediaInv, Sets, Enabling
  <2> QED BY <1>1, <1>2, <1>3, <1>7, <1>8, <2>1 DEF MediaInv, Sets, OpenMedia
<1>10. Flights'
  BY DEF MediaInv, Flights, Flies, Effect
<1> QED BY <1>3, <1>5, <1>9, <1>10

\* Where the others are idle, only lane l can be at work.
LEMMA OnlyLane ==
  ASSUME ShopTyped, NEW l \in Lanes, OtherLanes(l), \A r \in Lanes \ {l} : At(r, "idle"),
         AtWork(l)' => Work(lane[l], Keep(l))'
  PROVE  Works'
<1>1. \A r \in Lanes \ {l} : lane'[r].at = "idle"
  BY DEF OtherLanes, At
<1>2. "idle" \notin MediaSpots
  BY DEF MediaSpots
<1> QED BY <1>1, <1>2 DEF Works, AtWork

LEMMA MediaEnter ==
  ASSUME ShopTyped, Data, MediaInv, NEW l \in Lanes, \A r \in Lanes \ {l} : At(r, "idle"),
         NEW m \in OpenMedia, NEW review \in BOOLEAN, EnterJob(l, m, review)
  PROVE  MediaInv'
<1> PICK g, lit : g = request.synced /\ (lit <=> Enabling(m) # "none")
  OBVIOUS
<1>1. /\ m \in Rows(media) /\ m \in MediaId /\ ShopTypeOK
  BY RowTypes DEF OpenMedia, ShopTyped
<1>2. /\ UNCHANGED <<life, intents, msteps, shop, air, issued>>
      /\ (Remakes(m, "running", g) /\ Authorised(m)) \/ UNCHANGED media
      /\ \E r \in Lane :
           /\ Turns(l, r) /\ r.id = m /\ r.review = review /\ r.done = {}
           /\ r.at = IF Authorised(m) THEN "step" ELSE "broken"
           /\ r.lit <=> Enabling(m) # "none"
  BY <1>1, EnterForm DEF Enabling
<1>3. PICK r \in Lane :
           /\ Turns(l, r) /\ r.id = m /\ r.done = {}
           /\ r.at = IF Authorised(m) THEN "step" ELSE "broken"
           /\ r.lit <=> Enabling(m) # "none"
  BY <1>2
<1>4. /\ OtherLanes(l) /\ lane'[l] = r /\ Enabling(m)' = Enabling(m)
  BY <1>2, <1>3 DEF Turns, Enabling
<1>5. m \in OpenMedia' => Work(r, m)' \/ r.at = "broken"
  <2>1. "step" \notin KeySpots
    BY DEF KeySpots
  <2> QED BY <1>3, <1>4, <2>1 DEF Work, Passes, Lit
<1>6. m \in OpenMedia' => Works'
  <2>1. m \in OpenMedia' => (AtWork(l)' => Work(lane[l], Keep(l))')
    BY <1>3, <1>4, <1>5 DEF AtWork, Keep
  <2> QED BY <1>4, <2>1, OnlyLane
<1>7. CASE Remakes(m, "running", g)
  <2>1. "running" \notin OverStates
    BY DEF OverStates
  <2> QED BY <1>2, <1>6, <1>7, <2>1, JobRemade DEF MediaInv
<1>8. CASE UNCHANGED media
  <2>1. /\ SameGallery /\ m \in OpenMedia' /\ life'.row = life.row
        /\ \A a \in air : issued'[a.op] # 0
    BY <1>2, <1>8 DEF SameGallery, OpenMedia, Rows, MediaInv, Flights, Flies
  <2>2. NoGap' /\ OneOpen' /\ Sets' /\ Flights'
    BY <1>2, <1>8, <2>1, MediaCalm
  <2> QED BY <1>6, <2>1, <2>2 DEF MediaInv
<1> QED BY <1>2, <1>7, <1>8

\* The ends of a job.
LEMMA MediaEnds ==
  ASSUME ShopTyped, Data, MediaInv, NEW l \in Lanes, \A r \in Lanes \ {l} : At(r, "idle"),
         Reopen(l) \/ SucceedJob(l) \/ FailJob(l)
  PROVE  MediaInv'
<1> PICK m, g : m = Keep(l) /\ g = media[m].gen
  OBVIOUS
<1> PICK s : s = BrokenState(m)
  OBVIOUS
<1>1. /\ UNCHANGED <<life, msteps, shop, air, issued>>
      /\ Turns(l, IdleLane) \/ Stays(l, "broken")
      /\ \/ UNCHANGED media
         \/ At(l, "reopen") /\ Remakes(m, "pending", g)
         \/ At(l, "succeed") /\ Remakes(m, "succeeded", g)
         \/ m \in OpenMedia /\ Remakes(m, s, g)
  BY ReopenForm, SucceedForm, FailJobForm
<1>2. OtherLanes(l) /\ ~AtWork(l)'
  BY <1>1 DEF Turns, Stays, AtWork, IdleLane, MediaSpots
<1>3. Works'
  BY <1>2, OnlyLane
<1>4. CASE UNCHANGED media
  <2>1. SameGallery /\ \A a \in air : issued'[a.op] # 0
    BY <1>1 DEF SameGallery, MediaInv, Flights, Flies
  <2> QED BY <1>1, <1>3, <1>4, <2>1, MediaCalm DEF MediaInv
<1>5. /\ "pending" \notin OverStates /\ s \notin OverStates
      /\ {"reopen", "succeed"} \subseteq MediaSpots \ {"broken"}
  BY DEF OverStates, BrokenState, MediaSpots
<1>6. CASE At(l, "reopen") /\ Remakes(m, "pending", g)
  <2>1. m \in OpenMedia
    BY <1>5, <1>6 DEF MediaInv, Works, AtWork, At, Work
  <2> QED BY <1>1, <1>3, <1>5, <1>6, <2>1, JobRemade DEF MediaInv
<1>7. CASE At(l, "succeed") /\ Remakes(m, "succeeded", g)
  <2>1. m \in OpenMedia /\ UnresolvedSteps(m) = {} /\ Arranged(m)
    BY <1>5, <1>7 DEF MediaInv, Works, AtWork, At, Work
  <2> QED BY <1>1, <1>3, <1>7, <2>1, JobRemade DEF MediaInv
<1>8. CASE m \in OpenMedia /\ Remakes(m, s, g)
  BY <1>1, <1>3, <1>5, <1>8, JobRemade DEF MediaInv
<1> QED BY <1>1, <1>4, <1>6, <1>7, <1>8

\* A fresh job, of the row that is current then, where nothing was under way.
LEMMA FreshJob ==
  ASSUME ShopTyped, MediaInv, Bounds, \A l \in Lanes : ~AtWork(l),
         \A m \in MediaId : UnresolvedSteps(m) = {},
         NEW n, NEW row, NEW ids, NEW enable, NewJob(n, row, ids, enable), life'.row = row,
         media' \in [MediaId -> Media \cup {NoRow}],
         \A m \in MediaId \ {n} : /\ media'[m].ids = media[m].ids
                                  /\ media'[m].enable = media[m].enable
                                  /\ media'[m] = NoRow <=> media[m] = NoRow,
         OpenMedia' \subseteq {n}, UNCHANGED <<msteps, shop, air, issued, lane>>
  PROVE  MediaInv'
<1>1. /\ ShopTypeOK /\ Rows(media) \subseteq MediaId /\ MediaId \subseteq Nat \ {0}
      /\ NoRow \notin Media /\ n \in MediaId /\ IsNext(media, n)
      /\ media \in [MediaId -> Media \cup {NoRow}] /\ media'[n] # NoRow
      /\ media'[n].row = row /\ media'[n].state = "pending" /\ n \notin Rows(media)
  BY RowTypes DEF ShopTyped, ShopTypeOK, NewJob, Rows
<1>2. Rows(media)' = Rows(media) \cup {n}
  BY <1>1 DEF Rows
<1>3. ASSUME NEW r \in Rows(media)  PROVE r < n
  <2>1. r \in Nat /\ n \in Nat /\ r # n
    BY <1>1
  <2>2. r > n => n \in 1..r
    BY <1>1, <2>1
  <2> QED BY <1>1, <2>1, <2>2 DEF MediaInv, NoGap
<1>4. NoGap'
  <2>1. ASSUME NEW r \in Rows(media)', NEW k \in 1..r  PROVE k \in Rows(media)'
    <3>1. CASE r \in Rows(media)
      BY <1>2, <2>1, <3>1 DEF MediaInv, NoGap
    <3>2. CASE r = n /\ k = n
      BY <1>2, <3>2
    <3>3. CASE r = n /\ k # n
      <4>1. k \in 1..n - 1 /\ k \in MediaId
        <5>1. n \in Nat /\ n <= MaxMedia /\ MaxMedia \in Nat
          BY <1>1, ShopAssumption DEF MediaId
        <5>2. k \in Nat /\ 1 <= k /\ k <= n /\ k # n
          BY <2>1, <3>3, <5>1
        <5> QED BY <5>1, <5>2 DEF MediaId
      <4> QED BY <1>1, <1>2, <4>1 DEF IsNext, Rows
    <3> QED BY <1>2, <3>1, <3>2, <3>3
  <2> QED BY <2>1 DEF NoGap
<1>5. \A m : UnresolvedSteps(m)' = UnresolvedSteps(m)
  BY DEF UnresolvedSteps
<1>6. OneOpen'
  <2>1. ASSUME NEW k \in Rows(media)'  PROVE k <= n
    <3>1. n \in Nat /\ (k = n \/ (k \in Rows(media) /\ k \in Nat))
      BY <1>1, <1>2, <2>1
    <3>2. k \in Rows(media) => k < n
      BY <1>3
    <3> QED BY <3>1, <3>2
  <2>2. ASSUME NEW m \in OpenMedia'
        PROVE  media'[m].row = life'.row /\ \A k \in Rows(media)' : k <= m
    BY <1>1, <2>1
  <2>3. \A m \in MediaId : UnresolvedSteps(m)' # {} => m \in OpenMedia'
    BY <1>5
  <2> QED BY <2>2, <2>3 DEF OneOpen
<1>7. \A k \in Keys : msteps[n][k] = "none"
  BY <1>1 DEF Bounds
<1>8. ASSUME NEW m \in MediaId  PROVE Marked(m)'
  <2>1. CASE m = n
    BY <1>1, <1>7, <2>1, KeyFacts DEF Marked, Enabling
  <2>2. CASE m # n
    <3>1. \A k : Fits(m, k)' <=> Fits(m, k)
      BY <2>2 DEF Fits, Uploading
    <3> QED BY <2>2, <3>1 DEF Marked, Enabling, Hiding, MediaInv, Sets
  <2> QED BY <2>1, <2>2
<1>9. ASSUME NEW m \in Rows(media)', Settled(m)'  PROVE FALSE
  <2>1. n <= m /\ m # n /\ m \in Nat /\ n \in Nat
    BY <1>1, <1>2, <1>9 DEF Settled
  <2> QED BY <1>2, <1>3, <2>1
<1>10. \A m \in OpenMedia' : Enabling(m)' = "none"
  BY <1>7, KeyFacts DEF Enabling
<1>11. Sets'
  BY <1>8, <1>9, <1>10 DEF Sets
<1>12. Flights'
  <2>1. \A a \in air : a.op.key \notin PhotoKeys
    <3> SUFFICES ASSUME NEW a \in air, a.op.key \in PhotoKeys  PROVE FALSE
      OBVIOUS
    <3>1. a.op.id \in MediaId /\ msteps[a.op.id][a.op.key] = "dispatched"
      BY FlightIsOpen DEF MediaInv
    <3> QED BY <3>1, KeyFacts DEF UnresolvedSteps
  <2> QED BY <2>1 DEF MediaInv, Flights, Flies
<1>13. Works'
  BY DEF Works, AtWork
<1> QED BY <1>4, <1>6, <1>11, <1>12, <1>13 DEF MediaInv

LEMMA MediaDecision ==
  ASSUME ShopTyped, Data, Data', MediaInv, Bounds, Decision
  PROVE  MediaInv'
<1>1. /\ ShopTypeOK /\ Rows(media) \subseteq MediaId /\ MediaId \subseteq Nat \ {0}
      /\ NoRow \notin Media /\ OpenMedia \subseteq Rows(media)
      /\ media \in [MediaId -> Media \cup {NoRow}] /\ DOMAIN media = MediaId
      /\ \A m \in Rows(media) : media[m] \in Media
  BY RowTypes DEF ShopTyped, ShopTypeOK, OpenMedia
<1>2. CASE Archive \/ Restore
  <2>1. UNCHANGED <<media, msteps, shop, air, issued, lane>> /\ life'.row = life.row
    BY <1>1, <1>2, ArchiveForm, RestoreForm
  <2>2. SameGallery /\ \A a \in air : issued'[a.op] # 0
    BY <2>1 DEF SameGallery, MediaInv, Flights, Flies
  <2>3. /\ NoGap' /\ OneOpen' /\ Sets' /\ Flights'
        /\ \A x, m : Work(x, m) => Work(x, m)'
    BY <2>1, <2>2, MediaCalm
  <2>4. ASSUME NEW r \in Lanes, AtWork(r)'  PROVE Work(lane[r], Keep(r))'
    <3> PICK x, m : x = lane[r] /\ m = Keep(r)
      OBVIOUS
    <3>1. lane'[r] = x /\ Keep(r)' = m /\ Work(x, m)
      BY <2>1, <2>4 DEF Keep, MediaInv, Works, AtWork
    <3> QED BY <2>3, <3>1
  <2> QED BY <2>3, <2>4 DEF MediaInv, Works
<1>3. CASE SavePhotos
  <2>1. OpenMedia = {}
    BY <1>1, <1>3, SavePhotosForm DEF MediaInv, OneOpen
  <2>2. /\ \A l \in Lanes : ~AtWork(l)
        /\ \A m \in MediaId : UnresolvedSteps(m) = {}
    BY <2>1 DEF MediaInv, Works, Work, OneOpen
  <2>3. /\ UNCHANGED <<life, msteps, shop, air, issued, lane>>
        /\ media' \in [MediaId -> Media \cup {NoRow}]
        /\ \E n \in MediaId, ids \in SUBSET Photos, enable \in BOOLEAN :
             /\ NewJob(n, life.row, ids, enable)
             /\ \A m \in MediaId \ {n} : media'[m] = media[m]
    BY <1>1, <1>3, SavePhotosForm
  <2>4. PICK n \in MediaId, ids \in SUBSET Photos, enable \in BOOLEAN :
             /\ NewJob(n, life.row, ids, enable)
             /\ \A m \in MediaId \ {n} : media'[m] = media[m]
    BY <2>3
  <2>5. OpenMedia' \subseteq {n}
    BY <1>1, <2>1, <2>3, <2>4 DEF OpenMedia, Rows
  <2> QED BY <2>2, <2>3, <2>4, <2>5, FreshJob
<1>4. CASE Recount
  <2>1. /\ FenceOpen /\ UNCHANGED <<msteps, shop, air, issued, lane>>
        /\ life'.row = life.row + 1 /\ life.row \in Nat
        /\ media' \in [MediaId -> Media \cup {NoRow}]
    BY <1>1, <1>4, RecountForm DEF ShopTypeOK, Life
  <2>2. ASSUME NEW l \in Lanes, AtWork(l)  PROVE FALSE
    <3>1. Keep(l) \in OpenMedia /\ media[Keep(l)].gen # 0
      BY <2>2 DEF MediaInv, Works, Work, Bounds, Pinned_, AtWork
    <3> QED BY <2>1, <3>1 DEF FenceOpen, Started
  <2>3. ASSUME NEW m \in MediaId  PROVE UnresolvedSteps(m) = {}
    <3>1. UnresolvedSteps(m) # {} => m \in OpenMedia /\ Started(m)
      BY DEF MediaInv, OneOpen, UnresolvedSteps, Started
    <3> QED BY <2>1, <3>1 DEF FenceOpen
  <2> PICK c : c = CurrentSet
    OBVIOUS
  <2>4. CASE c = 0 /\ UNCHANGED media
    <3>1. OpenMedia = {}
      BY <1>1, <2>4, CurrentSetIs DEF MediaInv, OneOpen
    <3>2. OpenMedia' = {} /\ Rows(media)' = Rows(media) /\ NoGap'
      BY <2>4, <3>1 DEF OpenMedia, Rows, MediaInv, NoGap
    <3>3. OneOpen'
      BY <2>1, <2>3, <3>2 DEF OneOpen, UnresolvedSteps
    <3>4. \A m \in MediaId : Marked(m)'
      BY <2>1, <2>4 DEF Marked, Fits, Uploading, Enabling, Hiding, MediaInv, Sets
    <3>5. ASSUME NEW m \in Rows(media)  PROVE ~Settled(m)'
      <4>1. media[m].row <= life.row /\ media[m].row \in Nat
        BY <1>1 DEF Bounds, Media
      <4> QED BY <2>1, <2>4, <4>1 DEF Settled
    <3>6. Sets'
      BY <3>2, <3>4, <3>5 DEF Sets
    <3>7. Flights'
      BY <2>1 DEF MediaInv, Flights, Flies, Effect
    <3>8. Works'
      BY <2>1, <2>2 DEF Works, AtWork
    <3> QED BY <3>2, <3>3, <3>6, <3>7, <3>8 DEF MediaInv
  <2>5. CASE ~(c = 0 /\ UNCHANGED media)
    <3>1. /\ c # 0
          /\ \E n \in MediaId :
               /\ c # n
               /\ NewJob(n, life.row + 1, media[c].ids, media[c].enable)
               /\ media'[c] \in Media
               /\ media'[c].ids = media[c].ids
               /\ media'[c].enable = media[c].enable
               /\ media'[c].state = IF media[c].state = "succeeded"
                                    THEN "succeeded" ELSE "superseded"
               /\ \A k \in MediaId \ {c, n} : media'[k] = media[k]
      BY <1>1, <1>4, <2>5, RecountForm
    <3>2. PICK n \in MediaId :
               /\ c # n
               /\ NewJob(n, life.row + 1, media[c].ids, media[c].enable)
               /\ media'[c] \in Media
               /\ media'[c].ids = media[c].ids
               /\ media'[c].enable = media[c].enable
               /\ media'[c].state \in OverStates
               /\ \A k \in MediaId \ {c, n} : media'[k] = media[k]
      BY <3>1 DEF OverStates
    <3>3. /\ c \in Rows(media) /\ media[c].row = life.row /\ c \in Nat
          /\ \A m \in Rows(media) : media[m].row = life.row => m <= c
      BY <1>1, <3>1, CurrentSetIs
    <3>4. OpenMedia \subseteq {c}
      <4> SUFFICES ASSUME NEW m \in OpenMedia  PROVE m = c
        OBVIOUS
      <4>1. m \in Rows(media) /\ m \in Nat /\ c <= m /\ m <= c
        BY <1>1, <3>3 DEF MediaInv, OneOpen
      <4> QED BY <3>3, <4>1
    <3>5. OpenMedia' \subseteq {n}
      <4> SUFFICES ASSUME NEW m \in OpenMedia', m # n  PROVE FALSE
        OBVIOUS
      <4>1. m \in MediaId /\ m # c
        BY <1>1, <2>1, <3>2 DEF OpenMedia, Rows, OverStates
      <4>2. media'[m] = media[m]
        BY <3>2, <4>1
      <4>3. m \in OpenMedia
        BY <1>1, <2>1, <4>1, <4>2 DEF OpenMedia, Rows
      <4> QED BY <3>4, <4>1, <4>3
    <3>6. \A m \in MediaId \ {n} : /\ media'[m].ids = media[m].ids
                                   /\ media'[m].enable = media[m].enable
                                   /\ media'[m] = NoRow <=> media[m] = NoRow
      <4> TAKE m \in MediaId \ {n}
      <4>1. CASE m = c
        BY <1>1, <3>2, <3>3, <4>1 DEF Rows
      <4>2. CASE m # c
        BY <3>2, <4>2
      <4> QED BY <4>1, <4>2
    <3> QED BY <2>1, <2>2, <2>3, <3>2, <3>5, <3>6, FreshJob
  <2> QED BY <2>4, <2>5
<1> QED BY <1>2, <1>3, <1>4 DEF Decision

\* The steps of a photo set, as processJob orders them: the product is hidden
\* first, then each photograph of the set has its step, then each other one;
\* when none is left, the set is arranged.
LEMMA NextStepIs ==
  ASSUME ShopTyped, MediaInv, NEW l \in Lanes, At(l, "step"), NEW m, m = Keep(l),
         NEW x, x = lane[l]
  PROVE  /\ m \in OpenMedia /\ Passes(x, m) /\ Lit(x, m)
         /\ \A k \in NextKeys(l) :
              /\ k \in Keys /\ k \notin x.done
              /\ k \in PhotoKeys => Chosen(m, k) /\ \A d \in x.done : d.photo # k.photo
              /\ k = StatusKey("hide") => Enabling(m) = "none"
              /\ k = StatusKey("enable") =>
                   /\ Arranged(m) /\ media[m].enable /\ media[m].ids # {}
                   /\ x.lit \/ StatusKey("hide") \in x.done
         /\ NextKeys(l) = {} => UnresolvedSteps(m) = {} /\ Arranged(m)
<1> PICK hide, enable : hide = StatusKey("hide") /\ enable = StatusKey("enable")
  OBVIOUS
<1> PICK ids, done : ids = media[m].ids /\ done = x.done
  OBVIOUS
<1>1. /\ m \in OpenMedia /\ Passes(x, m) /\ Lit(x, m) /\ m \in MediaId
      /\ ids \subseteq Photos /\ ShopTypeOK /\ x \in Lane /\ done \subseteq Keys
      /\ Marked(m) /\ media[m] \in Media
  <2>1. lane[l].at \in MediaSpots \ {"broken"}
    BY DEF At, MediaSpots
  <2>2. m \in MediaId /\ media[m] \in Media /\ x \in Lane /\ ShopTypeOK
    BY <2>1, MediaLane
  <2>3. Work(x, m)
    BY <2>1 DEF MediaInv, Works, AtWork
  <2> QED BY <2>2, <2>3 DEF Work, MediaInv, Sets, Media, Lane
<1> DEFINE todo == {p \in ids : \A k \in done : k.photo # p}
           rest == {p \in Photos \ ids : /\ shop.gallery[p] # "none"
                                         /\ \A k \in done : k.photo # p}
           enables == media[m].enable /\ ids # {}
<1>2. NextKeys(l) =
        IF ~x.lit /\ hide \notin done THEN {hide}
        ELSE IF todo # {} THEN {PhotoKey(l, p) : p \in todo}
        ELSE IF rest # {} THEN {[act |-> "remove", photo |-> p] : p \in rest}
        ELSE IF enables THEN (IF enable \in done THEN {} ELSE {enable}) ELSE {}
  BY DEF NextKeys, PhotoJob, Enables, Keep
<1>3. ASSUME NEW p \in todo
      PROVE  LET k == PhotoKey(l, p)
             IN  k \in PhotoKeys /\ Chosen(m, k) /\ k.photo = p
  <2> PICK k : k = PhotoKey(l, p)
    OBVIOUS
  <2>1. /\ p \in Photos /\ p \in ids /\ k.photo = p
        /\ k = [act |-> k.act, photo |-> p] /\ k.act \in {"upload", "order"}
        /\ k.act = "upload" <=> shop.gallery[p] = "none" \/ Uploading(m, p) # "none"
    BY <1>1 DEF PhotoKey, StepsOf, Uploading, Keep
  <2>2. k \in PhotoKeys
    BY <2>1, KeyFacts
  <2>3. k.act = "upload" => Ordering(m, p) = "none"
    <3> SUFFICES ASSUME k.act = "upload", Ordering(m, p) # "none"  PROVE FALSE
      OBVIOUS
    <3> PICK d : d = [act |-> "order", photo |-> p]
      OBVIOUS
    <3>1. d \in PhotoKeys /\ d.act = "order" /\ d.photo = p /\ msteps[m][d] # "none"
      BY <2>1, KeyFacts DEF Ordering
    <3>2. Fits(m, d)
      BY <1>1, <3>1 DEF Marked
    <3> QED BY <2>1, <3>1, <3>2 DEF Fits
  <2> QED BY <2>1, <2>2, <2>3 DEF Chosen, Fits
<1>4. ASSUME NEW p \in rest, NEW k, k = [act |-> "remove", photo |-> p]
      PROVE  k \in PhotoKeys /\ Chosen(m, k) /\ k.photo = p
  BY <1>4, KeyFacts DEF Chosen, Fits
<1>5. ASSUME todo = {}, rest = {}  PROVE Arranged(m)
  <2>1. ASSUME NEW d \in done, d.photo \in Photos
        PROVE  /\ d \in PhotoKeys /\ Chosen(m, d) /\ msteps[m][d] # "dispatched"
               /\ shop.gallery[d.photo] = IF d.photo \in ids THEN "shown" ELSE "disabled"
    <3>1. d \in PhotoKeys
      BY <1>1, <2>1, KeyFacts, ShopAssumption DEF StatusKey
    <3>2. Effect(d) /\ Chosen(m, d) /\ msteps[m][d] # "dispatched"
      BY <1>1, <3>1 DEF Passes
    <3> QED BY <3>1, <3>2, PhotoEffect DEF Chosen, Fits
  <2>2. ASSUME NEW p \in Photos
        PROVE  shop.gallery[p] = "shown" <=> p \in ids
    <3>1. CASE \E d \in done : d.photo = p
      BY <2>1, <3>1
    <3>2. CASE ~\E d \in done : d.photo = p
      <4>1. p \notin ids /\ shop.gallery[p] = "none"
        BY <1>5, <3>2
      <4> QED BY <4>1
    <3> QED BY <3>1, <3>2
  <2>3. ASSUME NEW k \in PhotoKeys, msteps[m][k] = "dispatched"
        PROVE  FALSE
    <3>1. Fits(m, k) /\ k.photo \in Photos
      BY <1>1, <2>3, KeyFacts DEF Marked
    <3>2. CASE \E d \in done : d.photo = k.photo
      <4> PICK d \in done : d.photo = k.photo
        BY <3>2
      <4>1. d \in PhotoKeys /\ Chosen(m, d) /\ msteps[m][d] # "dispatched"
        BY <2>1, <3>1
      <4>2. k = d
        BY <1>1, <2>3, <4>1, OneStep
      <4> QED BY <2>3, <4>1, <4>2
    <3>3. CASE ~\E d \in done : d.photo = k.photo
      <4>1. k.photo \notin ids /\ shop.gallery[k.photo] = "none"
        BY <1>5, <3>1, <3>3
      <4>2. k.act = "remove"
        BY <3>1, <4>1 DEF Fits
      <4> QED BY <3>1, <4>1, <4>2 DEF Fits
    <3> QED BY <3>2, <3>3
  <2> QED BY <2>2, <2>3 DEF Arranged
<1>6. ASSUME NEW k \in NextKeys(l)
      PROVE  /\ k \in Keys /\ k \notin x.done
             /\ k \in PhotoKeys => Chosen(m, k) /\ \A d \in x.done : d.photo # k.photo
             /\ k = StatusKey("hide") => Enabling(m) = "none"
             /\ k = StatusKey("enable") =>
                  /\ Arranged(m) /\ media[m].enable /\ media[m].ids # {}
                  /\ x.lit \/ StatusKey("hide") \in x.done
  <2>1. CASE ~x.lit /\ hide \notin done
    BY <1>1, <1>2, <2>1, KeyFacts DEF Lit
  <2>2. CASE ~(~x.lit /\ hide \notin done) /\ todo # {}
    <3> PICK p \in todo : k = PhotoKey(l, p)
      BY <1>2, <2>2
    <3>1. k \in PhotoKeys /\ Chosen(m, k) /\ k.photo = p
      BY <1>3
    <3> QED BY <3>1, KeyFacts
  <2>3. CASE ~(~x.lit /\ hide \notin done) /\ todo = {} /\ rest # {}
    <3> PICK p \in rest : k = [act |-> "remove", photo |-> p]
      BY <1>2, <2>3
    <3>1. k \in PhotoKeys /\ Chosen(m, k) /\ k.photo = p
      BY <1>4
    <3> QED BY <3>1, KeyFacts
  <2>4. CASE ~(~x.lit /\ hide \notin done) /\ todo = {} /\ rest = {}
    <3>1. k = enable /\ k \notin done /\ enables
      BY <1>2, <2>4
    <3> QED BY <1>5, <2>4, <3>1, KeyFacts
  <2> QED BY <2>1, <2>2, <2>3, <2>4
<1>7. ASSUME NextKeys(l) = {}  PROVE UnresolvedSteps(m) = {} /\ Arranged(m)
  <2>1. /\ x.lit \/ hide \in done
        /\ todo = {} /\ rest = {} /\ (enables => enable \in done)
    <3>1. x.lit \/ hide \in done
      BY <1>2, <1>7
    <3>2. todo = {}
      BY <1>2, <1>7, <3>1
    <3>3. rest = {}
      <4> SUFFICES ASSUME NEW p \in rest  PROVE FALSE
        OBVIOUS
      <4> HIDE DEF todo, rest
      <4>1. [act |-> "remove", photo |-> p] \in NextKeys(l)
        BY <1>2, <3>1, <3>2
      <4> QED BY <1>7, <4>1
    <3> QED BY <1>2, <1>7, <3>1, <3>2, <3>3
  <2>2. Arranged(m)
    BY <1>5, <2>1
  <2>3. Enabling(m) # "none" => enables /\ Hiding(m) # "dispatched"
    BY <1>1 DEF Marked
  <2>4. msteps[m][enable] # "dispatched"
    BY <1>1, <2>1, <2>3 DEF Passes, Enabling
  <2>5. msteps[m][hide] # "dispatched"
    BY <1>1, <2>1, <2>3 DEF Passes, Hiding, Lit
  <2>6. \A k \in PhotoKeys : msteps[m][k] # "dispatched"
    BY <2>2 DEF Arranged
  <2>7. \A k \in Keys : msteps[m][k] # "dispatched"
    BY <2>4, <2>5, <2>6, KeyFacts
  <2> QED BY <2>2, <2>7 DEF UnresolvedSteps
<1> QED BY <1>1, <1>6, <1>7

\* A lane that decides, looks or sends knows what it needs of the step it takes.
LEMMA MediaDecides ==
  ASSUME ShopTyped, MediaInv, NEW l \in Lanes, DecideStep(l) \/ FinishJob(l)
  PROVE  MediaInv'
<1> PICK m, x : m = Keep(l) /\ x = lane[l]
  OBVIOUS
<1>1. At(l, "step") /\ UNCHANGED tables
  BY DecideForm, FinishForm
<1>2. /\ m \in OpenMedia /\ Passes(x, m) /\ Lit(x, m)
      /\ \A k \in NextKeys(l) :
           /\ k \in Keys /\ k \notin x.done
           /\ k \in PhotoKeys => Chosen(m, k) /\ \A d \in x.done : d.photo # k.photo
           /\ k = StatusKey("hide") => Enabling(m) = "none"
           /\ k = StatusKey("enable") =>
                /\ Arranged(m) /\ media[m].enable /\ media[m].ids # {}
                /\ x.lit \/ StatusKey("hide") \in x.done
      /\ NextKeys(l) = {} => UnresolvedSteps(m) = {} /\ Arranged(m)
  BY <1>1, NextStepIs
<1>3. UNCHANGED <<media, msteps, shop, life, air, issued>>
      /\ \A a \in air : issued'[a.op] # 0
  BY <1>1 DEF tables, MediaInv, Flights, Flies
<1>4. ASSUME OtherLanes(l), AtWork(l)' => Work(lane'[l], lane'[l].id)
      PROVE  MediaInv'
  BY <1>3, <1>4, MediaGoesOn DEF OtherLanes
<1>5. ASSUME Stays(l, "broken")  PROVE MediaInv'
  BY <1>4, <1>5 DEF Stays, AtWork
<1>6. CASE FinishJob(l)
  <2>1. NextKeys(l) = {} /\ (Stays(l, "broken") \/ Stays(l, "succeed"))
    BY <1>6, FinishForm
  <2>2. CASE Stays(l, "succeed")
    <3> PICK y : y = lane'[l]
      OBVIOUS
    <3>1. y.at = "succeed" /\ y.done = x.done /\ y.lit = x.lit /\ y.id = m /\ OtherLanes(l)
      BY <2>2 DEF Stays, SameHold, Keep
    <3>2. Work(y, m)
      BY <1>2, <2>1, <3>1 DEF Work, Passes, Lit, KeySpots
    <3> QED BY <1>4, <3>1, <3>2
  <2> QED BY <1>5, <2>1, <2>2
<1>7. CASE DecideStep(l)
  <2> PICK z : z = lane[l].done
    OBVIOUS
  <2>1. PICK k \in NextKeys(l) :
          LET receipt == msteps[m][k]
          IN  /\ k \in Keys
              /\ \/ Stays(l, "broken")
                 \/ /\ Effect(k) /\ receipt = "dispatched"
                    /\ Holds(l, "seal", k, z)
                 \/ /\ Effect(k) /\ receipt # "dispatched"
                    /\ Holds(l, "step", NoPhoto, z \cup {k})
                 \/ /\ ~Effect(k) /\ receipt = "none"
                    /\ Holds(l, "reopen", k, z) \/ Holds(l, "mark", k, z)
    BY <1>7, DecideForm
  <2> PICK y : y = lane'[l]
    OBVIOUS
  <2>2. \A spot, q, done : Holds(l, spot, q, done) =>
          /\ y.at = spot /\ y.key = q /\ y.done = done /\ y.lit = x.lit /\ y.id = m
          /\ OtherLanes(l)
    BY DEF Holds, Keep
  <2>3. CASE Effect(k) /\ msteps[m][k] = "dispatched" /\ Holds(l, "seal", k, z)
    <3>1. y.at = "seal" /\ y.key = k /\ y.done = x.done /\ y.lit = x.lit /\ y.id = m
      BY <2>2, <2>3
    <3>2. Handles(y, m, k)
      BY <1>2, <2>1, <2>3, <3>1 DEF Handles
    <3>3. Work(y, m)
      BY <1>2, <3>1, <3>2 DEF Work, Passes, Lit
    <3> QED BY <1>4, <2>2, <2>3, <3>1, <3>3
  <2>4. CASE Effect(k) /\ msteps[m][k] # "dispatched" /\ Holds(l, "step", NoPhoto, z \cup {k})
    <3>1. y.at = "step" /\ y.done = x.done \cup {k} /\ y.lit = x.lit /\ y.id = m
      BY <2>2, <2>4
    <3>2. Passes(y, m)
      BY <1>2, <2>1, <2>4, <3>1 DEF Passes
    <3>3. Work(y, m)
      BY <1>2, <3>1, <3>2 DEF Work, Lit, KeySpots
    <3> QED BY <1>4, <2>2, <2>4, <3>1, <3>3
  <2>5. CASE ~Effect(k) /\ msteps[m][k] = "none" /\ Holds(l, "mark", k, z)
    <3>1. y.at = "mark" /\ y.key = k /\ y.done = x.done /\ y.lit = x.lit /\ y.id = m
      BY <2>2, <2>5
    <3>2. Handles(y, m, k)
      BY <1>2, <2>1, <2>5, <3>1 DEF Handles
    <3>3. Work(y, m)
      BY <1>2, <3>1, <3>2 DEF Work, Passes, Lit
    <3> QED BY <1>4, <2>2, <2>5, <3>1, <3>3
  <2>6. CASE Holds(l, "reopen", k, z)
    <3>1. y.at = "reopen" /\ y.done = x.done /\ y.lit = x.lit /\ y.id = m
      BY <2>2, <2>6
    <3>2. Work(y, m)
      BY <1>2, <3>1 DEF Work, Passes, Lit
    <3> QED BY <1>4, <2>2, <2>6, <3>1, <3>2
  <2> QED BY <1>5, <2>1, <2>3, <2>4, <2>5, <2>6
<1> QED BY <1>6, <1>7

LEMMA MediaSends ==
  ASSUME ShopTyped, MediaInv, NEW l \in Lanes, RecheckEnable(l) \/ SendStep(l) \/ CheckStep(l)
  PROVE  MediaInv'
<1> PICK m, x, k, y : m = Keep(l) /\ x = lane[l] /\ k = lane[l].key /\ y = lane'[l]
  OBVIOUS
<1>1. /\ x.at \in {"recheck", "send", "check"} /\ k \in Keys /\ ShopTypeOK
      /\ x.at = "recheck" => k = StatusKey("enable")
      /\ x.at \in KeySpots \ {"reopen"} /\ m \in MediaId
  BY MediaLane, RecheckForm, SendForm, CheckForm
     DEF At, KeySpots, MediaSpots, ShopTyped, Shaped
<1>2. Work(x, m) /\ Handles(x, m, k)
  BY <1>1 DEF MediaInv, Works, AtWork, Work, MediaSpots
<1>3. UNCHANGED <<media, msteps, shop, life>>
  BY RecheckForm, SendForm, CheckForm DEF tables
<1>4. ASSUME NEW spot \in {"broken", "send", "check", "seal"}, Stays(l, spot),
             spot = "send" => k = StatusKey("enable"),
             spot = "seal" => Effect(k),
             \A a \in air' : a \in air \/ Flies(a)',
             \A a \in air : issued'[a.op] # 0
      PROVE  MediaInv'
  <2>1. /\ OtherLanes(l) /\ y.at = spot /\ y.done = x.done /\ y.lit = x.lit /\ y.id = m
        /\ y.key = k
    BY <1>4 DEF Stays, SameHold, Keep
  <2>2. Handles(y, m, k)
    BY <1>1, <1>2, <1>4, <2>1, KeyFacts DEF Handles
  <2>3. Work(y, m)
    BY <1>2, <1>4, <2>1, <2>2 DEF Work, Passes, Lit
  <2> QED BY <1>3, <1>4, <2>1, <2>3, MediaGoesOn DEF OtherLanes
<1>5. CASE RecheckEnable(l)
  <2>1. /\ At(l, "recheck") /\ UNCHANGED <<air, issued>>
        /\ Stays(l, "check") \/ Stays(l, "send")
    BY <1>5, RecheckForm DEF tables
  <2>2. \A a \in air : issued'[a.op] # 0
    BY <2>1 DEF MediaInv, Flights, Flies
  <2>3. k = StatusKey("enable")
    BY <1>1, <2>1 DEF At
  <2> QED BY <1>4, <2>1, <2>2, <2>3
<1>6. CASE CheckStep(l)
  <2>1. /\ UNCHANGED <<air, issued>>
        /\ Stays(l, "broken") \/ (Stays(l, "seal") /\ Effect(k))
    BY <1>6, CheckForm DEF tables
  <2>2. \A a \in air : issued'[a.op] # 0
    BY <2>1 DEF MediaInv, Flights, Flies
  <2> QED BY <1>4, <2>1, <2>2
<1>7. CASE SendStep(l)
  <2> PICK op, act : op = MediaOp(m, k) /\ act = k.act
    OBVIOUS
  <2>1. At(l, "send") /\ op \in Ops /\ Emit(op, act) /\ Stays(l, "check")
    BY <1>7, SendForm
  <2>2. op.of = "media" /\ op.id = m /\ op.key = k
    BY DEF MediaOp
  <2>3. air' = air \cup {[op |-> op, act |-> act]} /\ issued' = [issued EXCEPT ![op] = @ + 1]
    BY <2>1 DEF Emit
  <2>4. issued \in [Ops -> Nat] /\ \A a \in air : a.op \in Ops /\ issued[a.op] # 0
    BY <1>1 DEF ShopTypeOK, MediaInv, Flights, Flies
  <2>5. issued'[op] # 0 /\ \A a \in air : issued'[a.op] # 0
    BY <2>1, <2>3, <2>4
  <2> PICK a : a = [op |-> op, act |-> act]
    OBVIOUS
  <2>6. a = [op |-> a.op, act |-> a.act] /\ a.op = op /\ a.act = act
    OBVIOUS
  <2>7. k \in PhotoKeys => msteps[m][k] = "dispatched" /\ ~Effect(k)
    BY <1>2, <2>1 DEF Handles, At
  <2>8. k \in PhotoKeys => ~Effect(k)'
    BY <1>3, <2>7 DEF Effect
  <2>9. Flies(a)'
    BY <1>3, <2>2, <2>5, <2>6, <2>7, <2>8 DEF Flies
  <2> QED BY <1>4, <2>1, <2>3, <2>5, <2>9
<1> QED BY <1>5, <1>6, <1>7

\* A step of the open job gets its marker.
LEMMA MediaMarks ==
  ASSUME ShopTyped, MediaInv, NEW l \in Lanes, \A r \in Lanes \ {l} : At(r, "idle"),
         MarkStep(l)
  PROVE  MediaInv'
<1> PICK m, x, k, y : m = Keep(l) /\ x = lane[l] /\ k = lane[l].key /\ y = lane'[l]
  OBVIOUS
<1> PICK hide, enable : hide = StatusKey("hide") /\ enable = StatusKey("enable")
  OBVIOUS
<1>1. /\ x.at = "mark" /\ k \in Keys /\ ShopTypeOK /\ m \in MediaId
      /\ x.at \in KeySpots \ {"reopen"} /\ shop \in Shop /\ m \in Rows(media)
      /\ UNCHANGED <<media, shop, life, air, issued>>
  BY MediaLane, MarkForm DEF At, KeySpots, MediaSpots, ShopTypeOK
<1>2. /\ Work(x, m) /\ Handles(x, m, k) /\ m \in OpenMedia /\ Passes(x, m) /\ Lit(x, m)
      /\ Marked(m)
  BY <1>1 DEF MediaInv, Works, AtWork, Work, MediaSpots, Sets
<1>3. \/ UNCHANGED msteps /\ Stays(l, "broken")
      \/ /\ msteps[m][k] = "none" /\ Steps(m, k, "dispatched")
         /\ \/ Stays(l, "recheck") /\ k.act = "enable"
            \/ Stays(l, "send") /\ k.act # "enable"
            \/ Stays(l, "broken")
  BY MarkForm
<1>4. OtherLanes(l) /\ y.done = x.done /\ y.lit = x.lit /\ y.id = m /\ y.key = k
      /\ \/ y.at = "recheck" \/ y.at = "send" \/ y.at = "broken"
  BY <1>3 DEF Stays, SameHold, Keep
<1>5. CASE UNCHANGED msteps /\ Stays(l, "broken")
  <2>1. ~AtWork(l)' /\ \A a \in air : issued'[a.op] # 0
    BY <1>1, <1>5 DEF Stays, AtWork, MediaInv, Flights, Flies
  <2> QED BY <1>1, <1>4, <1>5, <2>1, MediaGoesOn DEF OtherLanes
<1>6. CASE msteps[m][k] = "none" /\ Steps(m, k, "dispatched")
  <2>1. /\ \A n \in MediaId, q \in Keys :
             msteps'[n][q] = IF n = m /\ q = k THEN "dispatched" ELSE msteps[n][q]
        /\ OpenMedia' = OpenMedia /\ Rows(media)' = Rows(media)
        /\ Rows(media) \subseteq MediaId
    BY <1>1, <1>6, RowTypes DEF Steps, OpenMedia, Rows
  <2>2. NoGap'
    BY <2>1 DEF MediaInv, NoGap
  <2>3. OneOpen'
    <3>1. \A n \in MediaId : UnresolvedSteps(n)' # {} => n \in OpenMedia
      BY <1>2, <2>1 DEF MediaInv, OneOpen, UnresolvedSteps
    <3> QED BY <1>1, <2>1, <3>1 DEF MediaInv, OneOpen
  \* What the new marker is of.
  <2>4. /\ k = enable => /\ media[m].enable /\ media[m].ids # {} /\ Arranged(m)
                         /\ Hiding(m) # "dispatched"
        /\ k = hide => Enabling(m) = "none"
        /\ k \in PhotoKeys => Enabling(m) = "none"
    <3>1. k = enable => /\ media[m].enable /\ media[m].ids # {} /\ Arranged(m)
                        /\ x.lit \/ hide \in x.done
      BY <1>2 DEF Handles
    <3>2. k = enable => Hiding(m) # "dispatched"
      BY <1>2, <1>6, <3>1 DEF Lit, Enabling, Hiding, Passes
    <3>3. ASSUME k \in PhotoKeys, Enabling(m) # "none"  PROVE FALSE
      <4>1. Arranged(m) /\ ~Effect(k) /\ Fits(m, k) /\ k.photo \in Photos
        BY <1>1, <1>2, <3>3, KeyFacts DEF MediaInv, Sets, Handles, Chosen
      <4>2. shop.gallery[k.photo] \in {"none", "shown", "disabled"}
        BY <1>1, <4>1 DEF Shop, Gallery
      <4>3. ~(shop.gallery[k.photo] = IF k.act = "remove" THEN "disabled" ELSE "shown")
        BY <3>3, <4>1, PhotoEffect
      <4> QED BY <4>1, <4>2, <4>3 DEF Arranged, Fits
    <3> QED BY <1>2, <3>1, <3>2, <3>3 DEF Handles
  <2>5. ASSUME NEW q \in PhotoKeys, Fits(m, q),
               q = k \/ q.photo # k.photo \/ msteps[m][q] # "none"
        PROVE  Fits(m, q)'
    <3>1. q.photo \in Photos /\ q \in Keys
      BY KeyFacts
    <3> PICK u : u = [act |-> "upload", photo |-> q.photo]
      OBVIOUS
    <3>2. u \in PhotoKeys /\ u \in Keys /\ u.act = "upload" /\ u.photo = q.photo
      BY <3>1, KeyFacts
    <3>3. q.act = "order" => u # k
      <4>1. q = [act |-> q.act, photo |-> q.photo]
        BY KeyFacts
      <4>2. CASE msteps[m][q] # "none" /\ u = k /\ q.act = "order"
        BY <1>2, <2>5, <3>2, <4>1, <4>2 DEF Handles, Chosen, Ordering
      <4> QED BY <2>5, <3>2, <4>2
    <3>4. q.act = "order" => msteps'[m][u] = "none"
      BY <1>1, <2>1, <2>5, <3>2, <3>3 DEF Fits, Uploading
    <3> QED BY <1>1, <2>5, <3>4 DEF Fits, Uploading
  <2>6. ASSUME NEW q \in PhotoKeys, Chosen(m, q), q = k \/ q.photo # k.photo
        PROVE  Chosen(m, q)'
    <3>1. q.photo \in Photos /\ q \in Keys /\ Fits(m, q)'
      BY <2>5, <2>6, KeyFacts DEF Chosen
    <3> PICK o : o = [act |-> "order", photo |-> q.photo]
      OBVIOUS
    <3>2. o \in PhotoKeys /\ o \in Keys /\ o.act = "order" /\ o.photo = q.photo
      BY <3>1, KeyFacts
    <3>3. q.act = "upload" => msteps'[m][o] = "none"
      BY <1>1, <2>1, <2>6, <3>2 DEF Chosen, Ordering
    <3> QED BY <3>1, <3>3 DEF Chosen, Ordering
  <2>7. /\ Enabling(m)' = IF k = enable THEN "dispatched" ELSE Enabling(m)
        /\ Hiding(m)' = IF k = hide THEN "dispatched" ELSE Hiding(m)
    BY <1>1, <2>1, KeyFacts DEF Enabling, Hiding
  <2>8. Marked(m)'
    <3>1. ASSUME NEW q \in PhotoKeys, msteps'[m][q] # "none"  PROVE Fits(m, q)'
      <4>1. q \in Keys
        BY KeyFacts
      <4>2. CASE q = k
        BY <1>2, <2>5, <4>2 DEF Handles, Chosen
      <4>3. CASE q # k
        <5>1. msteps[m][q] # "none"
          BY <1>1, <2>1, <3>1, <4>1, <4>3
        <5> QED BY <1>2, <2>5, <5>1 DEF Marked
      <4> QED BY <4>2, <4>3
    <3>2. Enabling(m)' # "none" => /\ media[m].enable /\ media[m].ids # {}
                                   /\ Hiding(m)' # "dispatched"
      BY <1>2, <2>4, <2>7, KeyFacts DEF Marked
    <3> QED BY <1>1, <3>1, <3>2 DEF Marked
  <2>9. ASSUME NEW n \in MediaId, n # m
        PROVE  /\ Marked(n)' /\ (Arranged(n)' <=> Arranged(n))
    <3>1. \A q \in Keys : msteps'[n][q] = msteps[n][q]
      BY <2>1, <2>9
    <3>2. \A p \in Photos : [act |-> "upload", photo |-> p] \in Keys
      BY KeyFacts
    <3>3. \A q \in PhotoKeys : q \in Keys /\ q.photo \in Photos
      BY KeyFacts
    <3>4. \A q \in PhotoKeys : Fits(n, q) => Fits(n, q)'
      BY <1>1, <3>1, <3>2, <3>3 DEF Fits, Uploading
    <3>5. Enabling(n)' = Enabling(n) /\ Hiding(n)' = Hiding(n)
      BY <3>1, KeyFacts DEF Enabling, Hiding
    <3>6. Marked(n)
      BY DEF MediaInv, Sets
    <3>7. Marked(n)'
      BY <1>1, <3>1, <3>3, <3>4, <3>5, <3>6 DEF Marked
    <3> QED BY <1>1, <3>1, <3>3, <3>7 DEF Arranged
  <2>10. k = enable /\ Arranged(m) => Arranged(m)'
    BY <1>1, <2>1, KeyFacts DEF Arranged
  <2>11. Sets'
    <3>1. \A n \in OpenMedia : Enabling(n)' # "none" => Arranged(n)'
      <4> TAKE n \in OpenMedia
      <4>1. n = m
        BY <1>2, OpenIsOne DEF MediaInv
      <4>2. Enabling(m)' # "none" => k = enable \/ (Enabling(m) # "none" /\ k # hide
                                                     /\ k \notin PhotoKeys)
        BY <2>4, <2>7
      <4> QED BY <1>1, <2>4, <2>10, <4>1, <4>2, KeyFacts
    <3>2. ASSUME NEW n \in Rows(media), Settled(n)'  PROVE Arranged(n)'
      <4>1. Settled(n) /\ n # m
        BY <1>1, <1>2, <2>1, <3>2 DEF Settled, OpenMedia
      <4> QED BY <2>1, <2>9, <3>2, <4>1 DEF MediaInv, Sets
    <3> QED BY <2>1, <2>8, <2>9, <3>1, <3>2 DEF Sets
  <2>12. Flights'
    <3>1. SUFFICES ASSUME NEW a \in air, Flies(a)  PROVE Flies(a)'
      BY <1>1 DEF MediaInv, Flights
    <3>2. a.op.key \in PhotoKeys => msteps'[a.op.id][a.op.key] = "dispatched"
      <4>1. a.op.key \in PhotoKeys =>
              /\ a.op.id \in MediaId /\ a.op.key \in Keys
              /\ msteps[a.op.id][a.op.key] = "dispatched"
        BY FlightIsOpen, KeyFacts DEF MediaInv
      <4> QED BY <2>1, <4>1
    <3> QED BY <1>1, <3>1, <3>2 DEF Flies, Effect
  <2>13. AtWork(l)' => Work(y, m)'
    <3> SUFFICES ASSUME AtWork(l)'  PROVE Work(y, m)'
      OBVIOUS
    <3>1. y.at \in {"recheck", "send"}
      BY <1>4 DEF AtWork
    <3>2. Passes(y, m)'
      <4> SUFFICES ASSUME NEW d \in x.done
                   PROVE  /\ msteps'[m][d] # "dispatched"
                          /\ d \in PhotoKeys => Effect(d)' /\ Chosen(m, d)'
        BY <1>4 DEF Passes
      <4>1. /\ msteps[m][d] # "dispatched" /\ d # k /\ d \in Keys
            /\ d \in PhotoKeys => Effect(d) /\ Chosen(m, d)
            /\ k \in PhotoKeys => d.photo # k.photo
        BY <1>1, <1>2, MediaLane DEF Passes, Handles, Lane
      <4>2. d \in PhotoKeys => Effect(d)'
        BY <1>1, <4>1 DEF Effect
      <4>3. ASSUME d \in PhotoKeys  PROVE d.photo # k.photo
        <5>1. k \notin PhotoKeys => k.photo \notin Photos
          BY <1>1, KeyFacts, ShopAssumption DEF StatusKey
        <5> QED BY <4>1, <4>3, <5>1, KeyFacts
      <4> QED BY <1>1, <2>1, <2>6, <4>1, <4>2, <4>3
    <3>3. Lit(y, m)'
      <4>1. k = enable => x.lit \/ hide \in x.done
        BY <1>2 DEF Handles
      <4> QED BY <1>2, <1>4, <2>7, <4>1 DEF Lit
    <3>4. Handles(y, m, k)'
      <4>1. msteps'[m][k] = "dispatched"
        BY <1>1, <2>1
      <4>2. k \in PhotoKeys => /\ Chosen(m, k)' /\ (\A d \in x.done : d.photo # k.photo)
                               /\ ~Effect(k)
        BY <1>1, <1>2, <2>6 DEF Handles
      <4>3. ~Effect(k) => ~Effect(k)'
        BY <1>1 DEF Effect
      <4>4. k = hide => Enabling(m)' = "none"
        BY <2>4, <2>7, KeyFacts
      <4>5. k = enable => /\ Arranged(m)' /\ media[m].enable /\ media[m].ids # {}
                          /\ x.lit \/ hide \in x.done
        BY <1>2, <2>10 DEF Handles
      <4> QED BY <1>1, <1>2, <1>4, <3>1, <4>1, <4>2, <4>3, <4>4, <4>5 DEF Handles
    <3> QED BY <1>2, <1>4, <2>1, <3>1, <3>2, <3>3, <3>4 DEF Work
  <2>14. Works'
    <3>1. AtWork(l)' => Work(lane[l], Keep(l))'
      BY <1>4, <2>13 DEF Keep
    <3> QED BY <1>4, <3>1, OnlyLane
  <2> QED BY <2>2, <2>3, <2>11, <2>12, <2>14 DEF MediaInv
<1> QED BY <1>3, <1>5, <1>6

\* A step of the open job is verified: its effect is there, so a mutation still
\* on its way would have changed something, and cannot be its own.
LEMMA MediaSeals ==
  ASSUME ShopTyped, MediaInv, NEW l \in Lanes, \A r \in Lanes \ {l} : At(r, "idle"),
         SealStep(l)
  PROVE  MediaInv'
<1> PICK m, x, k, y : m = Keep(l) /\ x = lane[l] /\ k = lane[l].key /\ y = lane'[l]
  OBVIOUS
<1> PICK hide, enable, done : /\ hide = StatusKey("hide") /\ enable = StatusKey("enable")
                              /\ done = lane[l].done
  OBVIOUS
<1>1. /\ x.at = "seal" /\ k \in Keys /\ ShopTypeOK /\ m \in MediaId
      /\ x.at \in KeySpots \ {"reopen"} /\ m \in Rows(media) /\ done \subseteq Keys
      /\ UNCHANGED <<media, shop, life, air, issued>>
  BY MediaLane, SealForm DEF At, KeySpots, MediaSpots, Lane
<1>2. /\ Handles(x, m, k) /\ m \in OpenMedia /\ Passes(x, m) /\ Lit(x, m)
      /\ msteps[m][k] = "dispatched" /\ (k \in PhotoKeys => Effect(k) /\ Chosen(m, k))
  <2>1. Work(x, m)
    BY <1>1 DEF MediaInv, Works, AtWork, MediaSpots
  <2> QED BY <1>1, <2>1 DEF Work, Handles
<1>3. \/ UNCHANGED msteps /\ Stays(l, "broken")
      \/ Steps(m, k, "verified") /\ Holds(l, "step", NoPhoto, done \cup {k})
  BY SealForm
<1>4. CASE UNCHANGED msteps /\ Stays(l, "broken")
  <2>1. ~AtWork(l)' /\ \A a \in air : issued'[a.op] # 0
    BY <1>1, <1>4 DEF Stays, AtWork, MediaInv, Flights, Flies
  <2>2. \A r \in Lanes \ {l} : lane'[r] = lane[r]
    BY <1>4 DEF Stays, OtherLanes
  <2> QED BY <1>1, <1>4, <2>1, <2>2, MediaGoesOn
<1>5. CASE Steps(m, k, "verified") /\ Holds(l, "step", NoPhoto, done \cup {k})
  <2>1. /\ \A n \in MediaId, q \in Keys :
             msteps'[n][q] = IF n = m /\ q = k THEN "verified" ELSE msteps[n][q]
        /\ OpenMedia' = OpenMedia /\ Rows(media)' = Rows(media)
        /\ Rows(media) \subseteq MediaId
    BY <1>1, <1>5, RowTypes DEF Steps, OpenMedia, Rows
  \* Which steps have a marker stays, and fewer are unresolved.
  <2>2. \A n \in MediaId, q \in Keys :
          /\ msteps'[n][q] = "none" <=> msteps[n][q] = "none"
          /\ msteps'[n][q] = "dispatched" => msteps[n][q] = "dispatched"
    BY <1>2, <2>1
  <2>3. NoGap' /\ OneOpen'
    <3>1. NoGap'
      BY <2>1 DEF MediaInv, NoGap
    <3>2. \A n \in MediaId : UnresolvedSteps(n)' # {} => n \in OpenMedia
      BY <2>2 DEF MediaInv, OneOpen, UnresolvedSteps
    <3>3. OneOpen'
      BY <1>1, <2>1, <3>2 DEF MediaInv, OneOpen
    <3> QED BY <3>1, <3>3
  <2>4. \A q \in PhotoKeys : /\ q \in Keys /\ q.photo \in Photos
                             /\ [act |-> "upload", photo |-> q.photo] \in Keys
                             /\ [act |-> "order", photo |-> q.photo] \in Keys
    <3> TAKE q \in PhotoKeys
    <3>1. q.photo \in Photos /\ q \in Keys
      BY KeyFacts
    <3>2. /\ [act |-> "upload", photo |-> q.photo] \in PhotoKeys
          /\ [act |-> "order", photo |-> q.photo] \in PhotoKeys
      BY <3>1, KeyFacts
    <3> QED BY <3>1, <3>2, KeyFacts
  <2>5. \A n \in MediaId, q \in PhotoKeys : /\ Fits(n, q) => Fits(n, q)'
                                            /\ Chosen(n, q) => Chosen(n, q)'
                                            /\ Effect(q)' <=> Effect(q)
    <3> TAKE n \in MediaId, q \in PhotoKeys
    <3>1. Fits(n, q) => Fits(n, q)'
      BY <1>1, <2>2, <2>4 DEF Fits, Uploading
    <3>2. Chosen(n, q) => Chosen(n, q)'
      BY <2>2, <2>4, <3>1 DEF Chosen, Ordering
    <3>3. Effect(q)' <=> Effect(q)
      BY <1>1 DEF Effect
    <3> QED BY <3>1, <3>2, <3>3
  <2>6. \A n \in MediaId : /\ Enabling(n)' # "none" => Enabling(n) # "none"
                           /\ Enabling(n) # "none" => Enabling(n)' # "none"
                           /\ Hiding(n)' = "dispatched" => Hiding(n) = "dispatched"
    BY <2>2, KeyFacts DEF Enabling, Hiding
  <2>7. \A n \in MediaId : Marked(n)' /\ (Arranged(n) => Arranged(n)')
    <3> TAKE n \in MediaId
    <3>1. Marked(n)
      BY DEF MediaInv, Sets
    <3>2. Marked(n)'
      BY <1>1, <2>2, <2>4, <2>5, <2>6, <3>1 DEF Marked
    <3>3. Arranged(n) => Arranged(n)'
      BY <1>1, <2>2, <2>4 DEF Arranged
    <3> QED BY <3>2, <3>3
  <2>8. Sets'
    <3>1. \A n \in Rows(media) : Settled(n)' => Settled(n)
      BY <1>1, <2>1 DEF Settled
    <3>2. \A n \in OpenMedia : n \in MediaId
      BY OpenIsOne DEF MediaInv
    <3>3. \A n \in OpenMedia : Enabling(n)' # "none" => Arranged(n)'
      BY <2>6, <2>7, <3>2 DEF MediaInv, Sets
    <3>4. \A n \in Rows(media) : Settled(n)' => Arranged(n)'
      BY <2>1, <2>7, <3>1 DEF MediaInv, Sets
    <3> QED BY <2>1, <2>7, <3>3, <3>4 DEF Sets
  <2>9. Flights'
    <3>1. SUFFICES ASSUME NEW a \in air, Flies(a)  PROVE Flies(a)'
      BY <1>1 DEF MediaInv, Flights
    <3>2. ASSUME a.op.key \in PhotoKeys
          PROVE  msteps'[a.op.id][a.op.key] = "dispatched" /\ ~Effect(a.op.key)'
      <4> PICK n, q : n = a.op.id /\ q = a.op.key
        OBVIOUS
      <4>1. n \in MediaId /\ msteps[n][q] = "dispatched" /\ ~Effect(q) /\ q \in Keys
        BY <3>1, <3>2, <2>4, FlightIsOpen DEF MediaInv, Flies
      <4>2. ~(n = m /\ q = k)
        BY <1>2, <3>2, <4>1
      <4> QED BY <2>1, <2>5, <3>2, <4>1, <4>2
    <3> QED BY <1>1, <3>1, <3>2 DEF Flies
  <2>10. y.at = "step" /\ y.done = done \cup {k} /\ y.lit = x.lit /\ y.id = m /\ OtherLanes(l)
    BY <1>5 DEF Holds, Keep
  <2>11. Work(y, m)'
    <3>1. Passes(y, m)'
      <4> SUFFICES ASSUME NEW d \in done \cup {k}
                   PROVE  /\ msteps'[m][d] # "dispatched"
                          /\ d \in PhotoKeys => Effect(d)' /\ Chosen(m, d)'
        BY <2>10 DEF Passes
      <4>1. d \in Keys /\ (d \in PhotoKeys => Effect(d) /\ Chosen(m, d))
            /\ (d # k => msteps[m][d] # "dispatched")
        BY <1>1, <1>2 DEF Passes
      <4> QED BY <1>1, <2>1, <2>5, <4>1
    <3>2. Lit(y, m)'
      BY <1>1, <1>2, <2>6, <2>10 DEF Lit
    <3>3. y.at \notin KeySpots
      BY <2>10 DEF KeySpots
    <3> QED BY <1>2, <2>1, <2>10, <3>1, <3>2, <3>3 DEF Work
  <2>12. Works'
    <3>1. AtWork(l)' => Work(lane[l], Keep(l))'
      BY <2>10, <2>11 DEF Keep
    <3> QED BY <2>10, <3>1, OnlyLane
  <2> QED BY <2>3, <2>8, <2>9, <2>12 DEF MediaInv
<1> QED BY <1>3, <1>4, <1>5

-----------------------------------------------------------------------------
\* The gallery over every step.

LEMMA MediaTakes ==
  ASSUME ShopTyped, Data, MediaInv, NEW l \in Lanes, \A r \in Lanes \ {l} : At(r, "idle"),
         TakeMedia(l) \/ ReviewMedia(l)
  PROVE  MediaInv'
<1>1. PICK m \in Rows(media), review \in BOOLEAN :
        EnterJob(l, m, review) /\ media[m].state \notin OverStates
  <2>1. CASE TakeMedia(l)
    BY <2>1 DEF TakeMedia, OverStates
  <2>2. CASE ReviewMedia(l)
    BY <2>2, CurrentSetIs DEF ReviewMedia, ShopTyped, OverStates
  <2> QED BY <2>1, <2>2
<1>2. m \in OpenMedia
  BY <1>1 DEF OpenMedia, OverStates
<1> QED BY <1>1, <1>2, MediaEnter

LEMMA MediaInit == ShopInit => Excl /\ MediaInv
<1> SUFFICES ASSUME ShopInit  PROVE Excl /\ MediaInv
  OBVIOUS
<1>1. /\ media = [m \in MediaId |-> NoRow] /\ msteps = [m \in MediaId |-> [k \in Keys |-> "none"]]
      /\ air = {} /\ lane = [l \in Lanes |-> IdleLane]
  BY DEF ShopInit
<1>2. \A l \in Lanes : lane[l].at = "idle"
  BY <1>1 DEF IdleLane
<1>3. Rows(media) = {} /\ OpenMedia = {}
  BY <1>1 DEF Rows, OpenMedia
<1>4. \A m \in MediaId, k \in Keys : msteps[m][k] = "none"
  BY <1>1
<1>5. NoGap /\ Flights /\ Excl
  BY <1>1, <1>2, <1>3 DEF NoGap, Flights, Excl, At
<1>6. Works
  <2>1. "idle" \notin MediaSpots
    BY DEF MediaSpots
  <2> QED BY <1>2, <2>1 DEF Works, AtWork
<1>7. OneOpen
  BY <1>3, <1>4 DEF OneOpen, UnresolvedSteps
<1>8. \A m \in MediaId : Marked(m)
  BY <1>4, KeyFacts DEF Marked, Enabling
<1>9. Sets
  BY <1>3, <1>8 DEF Sets
<1> QED BY <1>5, <1>6, <1>7, <1>9 DEF MediaInv

LEMMA MediaNext ==
  ASSUME SyncInv, ShopTyped, AuthorityInv, LedgerInv, Excl, MediaInv, [ShopNext]_allVars
  PROVE  MediaInv'
<1>1. SyncInv' /\ Data /\ Data' /\ Bounds
  BY SyncShopNext DEF SyncInv, Base, IInv, Typed, AuthorityInv
<1>2. CASE NativeStep
  BY <1>2, MediaNative DEF NativeStep
<1>3. CASE Decision
  BY <1>1, <1>3, MediaDecision
<1>4. CASE Weather
  BY <1>4, MediaWeather
<1>5. ASSUME NEW l \in Lanes, Lane_(l)  PROVE MediaInv'
  <2>1. \A r \in Lanes \ {l} : At(r, "idle")
    BY <1>5, OthersIdle
  <2> QED BY <1>1, <1>5, <2>1, MediaTakes, MediaAside, MediaDecides, MediaSends, MediaMarks,
          MediaSeals, MediaEnds DEF Lane_, LaneStep, DeliverMedia
<1> QED BY <1>2, <1>3, <1>4, <1>5, ShopCases

LEMMA MediaBasis ==
  ASSUME NoLoss
  PROVE  ShopSpec => [](Excl /\ MediaInv)
<1>1. /\ SyncInv /\ ShopTyped /\ AuthorityInv /\ LedgerInv /\ Excl /\ MediaInv
         /\ [ShopNext]_allVars
      => (Excl /\ MediaInv)'
  BY ExclNext, MediaNext
<1>2. ShopSpec => []LedgerInv
  <2>1. SyncInv /\ ShopTyped /\ LedgerInv /\ [ShopNext]_allVars => LedgerInv'
    BY LedgerInvNext
  <2> QED BY <2>1, LedgerInvInit, ShopBasis, PTL DEF ShopSpec
<1> QED BY <1>1, <1>2, MediaInit, ShopBasis, AuthorityBasis, PTL DEF ShopSpec

-----------------------------------------------------------------------------
\* What the shop shows.

LEMMA SettledArranged ==
  ASSUME ShopTyped, MediaInv, NEW m, m = CurrentSet, m # 0, media[m].state = "succeeded"
  PROVE  /\ \A p \in Photos : (shop.gallery[p] = "shown") = (p \in media[m].ids)
         /\ \A p \in media[m].ids : shop.gallery[p] = "shown"
<1>1. m \in Rows(media) /\ media[m].ids \subseteq Photos /\ Settled(m)
  BY CurrentSetIs, RowTypes DEF ShopTyped, Settled, Media
<1>2. Arranged(m)
  BY <1>1 DEF MediaInv, Sets
<1>3. \A p \in Photos : shop.gallery[p] = "shown" <=> p \in media[m].ids
  BY <1>2 DEF Arranged
<1> QED BY <1>1, <1>3

\* A delivered photo set is what Magento shows, no less and no more, until the
\* next one: no late upload, ordering or removal of any job changes the
\* gallery after processJob called the set delivered, through crashes, faults,
\* reviews, archives, restores and recounts.
THEOREM GalleryShown ==
  ASSUME NoLoss
  PROVE  ShopSpec => []GalleryIsTheSet
<1>1. SyncInv /\ ShopTyped /\ Excl /\ MediaInv => GalleryIsTheSet
  <2> SUFFICES ASSUME ShopTyped, MediaInv, NEW m, m = CurrentSet, m # 0,
                      media[m].state = "succeeded"
               PROVE  \A p \in Photos : (shop.gallery[p] = "shown") = (p \in media[m].ids)
    BY DEF GalleryIsTheSet
  <2> QED BY SettledArranged
<1> QED BY <1>1, ShopBasis, MediaBasis, PTL

\* While the marker of a photo job's enabling is unresolved, what Magento is
\* about to show is what Amber has: the job is the one open job, its set is
\* arranged, and the fence of migration 065 has held every edit back since
\* the job was pinned.
THEOREM EnableHolds ==
  ASSUME NoLoss
  PROVE  ShopSpec => []EnableIsCurrent
<1>1. SyncInv /\ ShopTyped /\ PinnedInv /\ Excl /\ MediaInv => EnableIsCurrent
  <2> SUFFICES ASSUME ShopTyped, PinnedInv, MediaInv, NEW m \in Rows(media),
                      Enabling(m) = "dispatched"
               PROVE  /\ product.active /\ media[m].row = life.row
                      /\ request.desired = media[m].gen /\ acked = product.input
                      /\ \A p \in media[m].ids : shop.gallery[p] = "shown"
    BY DEF EnableIsCurrent, Enabling
  <2>1. m \in MediaId /\ media[m].ids \subseteq Photos
    BY RowTypes DEF ShopTyped, Media
  <2>2. UnresolvedSteps(m) # {} /\ Started(m)
    BY KeyFacts DEF UnresolvedSteps, Started, Enabling
  <2>3. m \in OpenMedia
    BY <2>1, <2>2 DEF MediaInv, OneOpen
  <2>4. Current(m)
    BY <2>2, <2>3 DEF PinnedInv
  <2>5. Arranged(m)
    BY <2>3 DEF MediaInv, Sets
  <2> QED BY <2>1, <2>4, <2>5 DEF Current, Good, Arranged
<1> QED BY <1>1, ShopBasis, PinnedBasis, MediaBasis, PTL

\* An intent leaves its queue only with the proofs of its own transaction.
LEMMA FullCodeProves ==
  ASSUME SyncInv, ShopTyped, MediaInv, NEW l, FullCode(l) = "ok", NeedsPhotos(Keep(l))
  PROVE  /\ NativeSynced /\ request.synced = intents[Keep(l)].gen
         /\ acked = product.input
         /\ \A p \in media[CurrentSet].ids : shop.gallery[p] = "shown"
<1> PICK i, c : i = Keep(l) /\ c = CurrentSet
  OBVIOUS
<1>1. LocalCode(i) = "ok" /\ CanEnable /\ intents[i].kind = "restore"
  BY DEF FullCode, NeedsPhotos
<1>2. gate /\ NativeSynced /\ request.synced = intents[i].gen
  BY <1>1 DEF LocalCode, NativeSynced
<1>3. acked = product.input
  BY <1>2 DEF SyncInv, DeliveryInv, Deliveries, RequestOk, NativeSynced, Good
<1>4. c # 0 /\ media[c].state = "succeeded"
  BY <1>1 DEF CanEnable
<1>5. \A p \in media[c].ids : shop.gallery[p] = "shown"
  BY <1>4, SettledArranged
<1> QED BY <1>2, <1>3, <1>5

LEMMA QueuedLeaves ==
  ASSUME SyncInv, SyncInv', ShopTyped, [ShopNext]_allVars, NEW i \in Rows(intents),
         intents[i].state = "queued", intents'[i].state \in {"dispatched", "verified"}
  PROVE  \E l \in Lanes : i = Keep(l) /\ FullCode(l) = "ok"
<1>1. /\ ShopTypeOK /\ Data /\ Data' /\ i \in IntentId
      /\ intents'[i] # intents[i]
  BY RowTypes DEF SyncInv, Base, IInv, Typed, ShopTyped
<1>2. CASE NativeStep
  BY <1>1, <1>2 DEF NativeStep, shopVars
<1>3. CASE Weather
  BY <1>1, <1>3, WeatherForm
<1>4. CASE Decision
  <2>1. \A r : Over(i, r) => r.state = "superseded"
    BY DEF Over, Rows
  <2>2. \A k, kind, target, states : NewIntent(k, kind, target, states) => k # i
    BY DEF NewIntent, Rows
  <2>3. CASE SavePhotos \/ Recount
    BY <1>1, <2>3, SavePhotosForm, RecountForm
  <2>4. CASE Archive
    <3>1. \E k \in IntentId :
            /\ NewIntent(k, "hide", Off, {"queued", "blocked"})
            /\ \A j \in IntentId \ {k} : Over(j, intents'[j])
      BY <1>1, <2>4, ArchiveForm
    <3> QED BY <1>1, <2>1, <2>2, <3>1
  <2>5. CASE Restore
    <3> PICK target : target = intents[Hide].prev
      OBVIOUS
    <3>1. \/ \A k \in IntentId : Over(k, intents'[k])
          \/ \E k \in IntentId : /\ NewIntent(k, "restore", target, {"queued"})
                                 /\ \A j \in IntentId \ {k} : intents'[j] = intents[j]
      BY <1>1, <2>5, RestoreForm
    <3> QED BY <1>1, <2>1, <2>2, <3>1
  <2> QED BY <1>4, <2>3, <2>4, <2>5 DEF Decision
<1>5. ASSUME NEW l \in Lanes, Lane_(l)
      PROVE  i = Keep(l) /\ FullCode(l) = "ok"
  <2>1. ASSUME UNCHANGED intents  PROVE FALSE
    BY <1>1, <2>1
  <2>2. CASE \/ TakeIntent(l) \/ VerifyIntent(l) \/ LookAtStatus(l) \/ CheckPhotos(l)
             \/ ReadStatus(l) \/ StatusFault(l) \/ ReviewIntent(l) \/ PutStatus(l)
    BY <2>1, <2>2, TakeIntentForm, VerifyIntentForm, LookForm, CheckPhotosForm,
       ReadForm, StatusFaultForm, ReviewIntentForm, PutForm DEF tables
  <2>3. CASE TakeMedia(l) \/ ReviewMedia(l) \/ DeliverMedia(l) \/ MediaFault(l) \/ LaneCrash(l)
    <3>1. UNCHANGED intents
      BY <2>3 DEF TakeMedia, ReviewMedia, EnterJob, DeliverMedia, DecideStep, Reopen,
         MarkStep, RecheckEnable, SendStep, CheckStep, SealStep, FinishJob, SucceedJob,
         FailJob, MediaFault, LaneCrash, mediaFrame, rowVars
    <3> QED BY <2>1, <3>1
  <2>4. ASSUME NEW s, Restates(Keep(l), s)
        PROVE  i = Keep(l) /\ s \in {"dispatched", "verified"}
    BY <1>1, <2>4 DEF Restates
  <2>5. CASE Prepare(l)
    BY <2>1, <2>4, <2>5, PrepareForm
  <2>6. CASE AcknowledgeIntent(l) \/ ConfirmIntent(l)
    BY <2>1, <2>4, <2>6, AcknowledgeForm, ConfirmForm
  <2>7. CASE FailIntent(l)
    <3> PICK k : k = Keep(l)
      OBVIOUS
    <3> PICK s : s = FailedIntent(intents[k].state)
      OBVIOUS
    <3>1. Restates(k, s)
      BY <2>1, <2>7, FailIntentForm
    <3>2. i = k /\ s \in {"dispatched", "verified"}
      BY <2>4, <3>1
    <3> QED BY <3>2 DEF FailedIntent
  <2> QED BY <1>5, <2>2, <2>3, <2>5, <2>6, <2>7 DEF Lane_, LaneStep, Visibility
<1> QED BY <1>2, <1>3, <1>4, <1>5, ShopCases

\* A visibility change enables only what was delivered as it is now: whatever
\* happened between the transactions of runIntent, the one that commits the
\* marker, or calls the intent verified, holds all the proofs.
THEOREM RestoreHolds ==
  ASSUME NoLoss
  PROVE  ShopSpec => RestoreIsCurrent
<1> DEFINE Proved ==
      \A i \in Rows(intents) :
        /\ NeedsPhotos(i) /\ intents[i].state = "queued"
        /\ intents'[i].state \in {"dispatched", "verified"}
        => /\ NativeSynced /\ request.synced = intents[i].gen
           /\ acked = product.input
           /\ \A p \in media[CurrentSet].ids : shop.gallery[p] = "shown"
<1>1. SyncInv /\ ShopTyped /\ MediaInv /\ [ShopNext]_allVars => [Proved]_allVars
  <2> SUFFICES ASSUME SyncInv, ShopTyped, MediaInv, [ShopNext]_allVars,
                      NEW i \in Rows(intents), NeedsPhotos(i), intents[i].state = "queued",
                      intents'[i].state \in {"dispatched", "verified"}
               PROVE  /\ NativeSynced /\ request.synced = intents[i].gen
                      /\ acked = product.input
                      /\ \A p \in media[CurrentSet].ids : shop.gallery[p] = "shown"
    OBVIOUS
  <2>1. SyncInv'
    BY SyncShopNext
  <2>2. \E l \in Lanes : i = Keep(l) /\ FullCode(l) = "ok"
    BY <2>1, QueuedLeaves
  <2> QED BY <2>2, FullCodeProves
<1>2. ShopSpec => [][Proved]_allVars
  BY <1>1, ShopBasis, MediaBasis, PTL DEF ShopSpec
<1> QED BY <1>2 DEF RestoreIsCurrent

-----------------------------------------------------------------------------
\* Who decides the status Magento shows, while nobody else writes it.

NoForeign == \A b \in Budgets : b["foreign"] = 0

\* Intents are numbered without a gap; one of the current row at most is open,
\* and of an archived product it is the newest of all, and hides it.
Gapless == \A i \in Rows(intents) : \A k \in 1..i : k \in Rows(intents)
OneIntent ==
  \A i, j \in OpenIntents :
    intents[i].row = life.row /\ intents[j].row = life.row => i = j
Retired ==
  ~product.active =>
    \A i \in OpenIntents : /\ intents[i].kind = "hide" /\ intents[i].row = life.row
                           /\ \A j \in Rows(intents) : j <= i

\* The fingerprint of an intent is of the past or of now; one to hide the
\* product as it is now is of an archived product.
HidesNow(i) == intents[i].kind = "hide" /\ intents[i].print.life = life
Aged(i) ==
  /\ \/ intents[i].print.life.row < life.row
     \/ /\ intents[i].print.life.row = life.row
        /\ intents[i].print.life.version <= life.version
  /\ intents[i].kind = "hide" => intents[i].target = Off
  /\ HidesNow(i) => ~product.active

\* Where a lane is with an intent.
IntentSpot(l) ==
  /\ lane[l].at \in {"put", "readback", "acknowledge"}
       => intents[Keep(l)].state = "dispatched"
  /\ lane[l].at \in {"verify", "look"} => ~lane[l].review
  /\ At(l, "photos") => NeedsPhotos(Keep(l))

\* The status a mutation asks for; an intent sends the one it was made for.
Goal(act) == IF act = "enable" THEN On ELSE Off
Asks(a) == a.op.of = "intent" => Goal(a.act) = intents[a.op.id].target

IntentInv ==
  /\ Gapless /\ OneIntent /\ Retired
  /\ \A i \in Rows(intents) : Aged(i)
  /\ \A l \in Lanes : IntentSpot(l)
  /\ \A a \in air : Asks(a)

\* An intent of an earlier row was marked and never settled: its mutation may
\* arrive at any time, and no review may confirm it any more.
Abandoned ==
  \E i \in Rows(intents) : intents[i].state = "dispatched" /\ intents[i].row # life.row

\* A status mutation on its way is unresolved and would still change something.
Pending(a) ==
  a.op.key \notin PhotoKeys => Marker(a.op) = "dispatched" /\ shop.status # Goal(a.act)

\* What a lane knows of the status: what it read before its decision, that it
\* is not as wanted before the mutation leaves, and that it is when the intent
\* is about to be verified; and so for the status steps of a photo job.
Seen(l)     == At(l, "prepare") \/ (At(l, "photos") /\ ~lane[l].review)
AsWanted(l) == lane[l].at \in {"acknowledge", "confirm"} \/ (At(l, "photos") /\ lane[l].review)
Asked(l) ==
  LET i == Keep(l)
  IN  /\ Seen(l) /\ intents[i].state = "queued" /\ intents[i].row = life.row
           => lane[l].raw = shop.status
      /\ At(l, "put") => shop.status # intents[i].target
      /\ AsWanted(l) /\ intents[i].state = "dispatched" => shop.status = intents[i].target
Stepping(l) ==
  LET k == lane[l].key
  IN  k \notin PhotoKeys =>
        /\ lane[l].at \in {"mark", "send"} => shop.status # Goal(k.act)
        /\ At(l, "seal") => \A a \in air : a.op # MediaOp(Keep(l), k)
Knows(l) == Asked(l) /\ Stepping(l)

StatusInv ==
  ~Abandoned => (\A a \in air : Pending(a)) /\ (\A l \in Lanes : Knows(l))

\* What was hidden as it is now is hidden, and is when a person says so.
HiddenInv ==
  /\ \A i \in Rows(intents) :
       HidesNow(i) /\ intents[i].state = "verified" => shop.status = Off
  /\ \A l \in Lanes : At(l, "confirm") /\ HidesNow(Keep(l)) => shop.status = Off

DecidedInv == IntentInv /\ StatusInv /\ HiddenInv

\* What the proofs below build on.
Ground == SyncInv /\ ShopTyped /\ AuthorityInv /\ LedgerInv /\ PinnedInv /\ Excl /\ MediaInv

LEMMA NoForeignStatus ==
  ASSUME NoForeign, SyncInv
  PROVE  ~ForeignStatus
<1> SUFFICES ASSUME ForeignStatus PROVE FALSE
  OBVIOUS
<1>1. PICK b \in Budgets : spent["foreign"] < b["foreign"]
  BY DEF ForeignStatus, Spend
<1>2. spent["foreign"] \in Nat /\ b["foreign"] = 0
  BY SplitType DEF SyncInv, Base, IInv, Data, Kinds, NoForeign
<1> QED BY <1>1, <1>2

\* The native side neither archives nor restores.
LEMMA ActiveCases ==
  ASSUME SyncInv, [ShopNext]_allVars
  PROVE  \/ UNCHANGED shopVars /\ product'.active = product.active
         \/ Decision \/ Weather \/ \E l \in Lanes : Lane_(l)
<1>1. Base /\ Data /\ product \in Product /\ Workers \cup Operators = Proc
  BY SplitType DEF SyncInv, Base, IInv, Data, Proc
<1>2. ASSUME NEW p \in Proc, Act(p) \/ Poll(p) \/ RunProduct(p) \/ Crash(p) \/ Recover(p)
      PROVE  UNCHANGED product
  BY <1>1, <1>2, ProcessSteady DEF Steady
<1>3. CASE UNCHANGED allVars
  BY <1>3 DEF allVars, vars, amberVars
<1>4. CASE Native
  <2>1. UNCHANGED shopVars
    BY <1>4 DEF Native
  <2>2. CASE LoseSessions \/ Publish \/ Disable \/ Deliver \/ Lose \/ ForeignWrite
    BY <2>1, <2>2 DEF LoseSessions, Publish, Disable, Deliver, Lose, ForeignWrite, amberVars
  <2>3. CASE \/ \E w \in Workers : RunProduct(w)
             \/ \E o \in Operators : Recover(o)
             \/ \E p \in Proc : Act(p) \/ Crash(p)
    BY <1>1, <1>2, <2>1, <2>3
  <2> QED BY <1>4, <2>2, <2>3 DEF Native
<1>5. CASE ShopQuiet
  BY <1>5 DEF ShopQuiet, Quiet, vars, amberVars
<1>6. CASE FencedHandoff
  BY <1>6 DEF FencedHandoff, ProcessHandoff
<1>7. CASE \E w \in Workers : PollAfterHandoffs(w)
  BY <1>1, <1>2, <1>7 DEF PollAfterHandoffs
<1>8. CASE People
  <2>1. CASE FencedEdit
    BY <1>1, <2>1 DEF FencedEdit, Edit, Product
  <2>2. CASE Touch /\ UNCHANGED shopVars
    BY <1>1, <2>2 DEF Touch, Product
  <2> QED BY <1>8, <2>1, <2>2 DEF People, Decision
<1> QED BY <1>3, <1>4, <1>5, <1>6, <1>7, <1>8 DEF ShopNext, Weather

\* An intent's mutation is about the status; a job's step is of the gallery or
\* of the status.
LEMMA OpKinds ==
  ASSUME NEW op \in Ops
  PROVE  /\ op.of = "intent" => /\ op.id \in IntentId /\ op = IntentOp(op.id)
                                /\ op.key \notin PhotoKeys
         /\ op.of # "intent" => /\ op.of = "media" /\ op.id \in MediaId /\ op.key \in Keys
                                /\ op = MediaOp(op.id, op.key)
<1>1. CASE \E i \in IntentId : op = IntentOp(i)
  <2> PICK i \in IntentId : op = IntentOp(i)
    BY <1>1
  <2>1. op.of = "intent" /\ op.id = i /\ op.key.photo = NoPhoto
    BY DEF IntentOp, StatusKey
  <2>2. op.key \notin PhotoKeys
    BY <2>1, KeyFacts, ShopAssumption
  <2> QED BY <2>1, <2>2
<1>2. CASE \E m \in MediaId, k \in Keys : op = MediaOp(m, k)
  BY <1>2 DEF MediaOp
<1> QED BY <1>1, <1>2, OpsAre

\* One authority, one intent, one job: while none is abandoned, one status
\* mutation at most is unresolved.
LEMMA OneStatus ==
  ASSUME ShopTyped, OneAuthority, MediaInv, OneIntent, ~Abandoned,
         NEW o \in Ops, NEW p \in Ops, o.key \notin PhotoKeys, p.key \notin PhotoKeys,
         Marker(o) = "dispatched", Marker(p) = "dispatched"
  PROVE  o = p
<1>1. ASSUME NEW q \in Ops, q.key \notin PhotoKeys, Marker(q) = "dispatched", q.of = "intent"
      PROVE  /\ q.id \in OpenIntents /\ q = IntentOp(q.id)
             /\ intents[q.id].row = life.row
  <2>1. q.id \in IntentId /\ q = IntentOp(q.id) /\ Marker(q) = IntentMark(q.id)
    BY <1>1, OpKinds, MarksAre
  <2>2. q.id \in Rows(intents) /\ intents[q.id].state = "dispatched"
    BY <1>1, <2>1 DEF IntentMark, Rows, ShopTyped, ShopTypeOK
  <2> QED BY <2>1, <2>2 DEF OpenIntents, Abandoned
<1>2. ASSUME NEW q \in Ops, q.key \notin PhotoKeys, Marker(q) = "dispatched", q.of # "intent"
      PROVE  /\ q.id \in OpenMedia /\ media[q.id].row = life.row
             /\ q = MediaOp(q.id, q.key) /\ msteps[q.id][q.key] = "dispatched"
             /\ q.key = StatusKey("hide") \/ q.key = StatusKey("enable")
  <2>1. /\ q.id \in MediaId /\ q.key \in Keys /\ q = MediaOp(q.id, q.key)
        /\ msteps[q.id][q.key] = "dispatched"
    BY <1>2, OpKinds, MarksAre
  <2>2. q.id \in OpenMedia /\ media[q.id].row = life.row
    BY <2>1 DEF MediaInv, OneOpen, UnresolvedSteps
  <2> QED BY <1>2, <2>1, <2>2, KeyFacts
<1>3. CASE o.of = "intent" /\ p.of = "intent"
  BY <1>1, <1>3 DEF OneIntent
<1>4. CASE o.of # "intent" /\ p.of # "intent"
  <2>1. o.id = p.id /\ o.id \in MediaId
    <3>1. o.id \in OpenMedia /\ p.id \in OpenMedia
      BY <1>2, <1>4
    <3>2. OneOpen
      BY DEF MediaInv
    <3>3. \A m, n \in OpenMedia : m = n /\ m \in MediaId
      BY <3>2, OpenIsOne
    <3> QED BY <3>1, <3>3
  <2>2. ~(Enabling(o.id) = "dispatched" /\ Hiding(o.id) = "dispatched")
    BY <2>1 DEF MediaInv, Sets, Marked
  <2> QED BY <1>2, <1>4, <2>1, <2>2 DEF Enabling, Hiding
<1>5. ~(o.of = "intent" /\ p.of # "intent") /\ ~(p.of = "intent" /\ o.of # "intent")
  BY <1>1, <1>2 DEF OneAuthority
<1> QED BY <1>3, <1>4, <1>5

\* What an archived product still has on its way hides it.
LEMMA RetiredQuiet ==
  ASSUME ShopTyped, PinnedInv, MediaInv, IntentInv, StatusInv, ~product.active
  PROVE  /\ ~Abandoned
         /\ \A a \in air : a.op.key \notin PhotoKeys => Goal(a.act) = Off
<1>1. \A i \in OpenIntents : /\ i \in Rows(intents) /\ intents[i].kind = "hide"
                             /\ intents[i].row = life.row
  BY DEF IntentInv, Retired, OpenIntents
<1>2. ~Abandoned
  BY <1>1 DEF Abandoned, OpenIntents
<1>3. ASSUME NEW a \in air, a.op.key \notin PhotoKeys
      PROVE  Goal(a.act) = Off
  <2>1. a.op \in Ops /\ Marker(a.op) = "dispatched"
    BY <1>2, <1>3 DEF ShopTyped, ShopTypeOK, StatusInv, Pending
  <2>2. CASE a.op.of = "intent"
    <3>1. a.op.id \in IntentId /\ IntentMark(a.op.id) = "dispatched"
      BY <2>1, <2>2, OpKinds, MarksAre
    <3>2. a.op.id \in OpenIntents
      BY <3>1 DEF IntentMark, OpenIntents, Rows, ShopTyped, ShopTypeOK
    <3> QED BY <1>1, <2>2, <3>2 DEF IntentInv, Aged, Asks
  <2>3. CASE a.op.of # "intent"
    <3>1. /\ a.op.id \in MediaId /\ a.op.key \in Keys
          /\ msteps[a.op.id][a.op.key] = "dispatched"
      BY <2>1, <2>3, OpKinds, MarksAre
    <3>2. a.op.id \in OpenMedia /\ Started(a.op.id)
      BY <3>1 DEF MediaInv, OneOpen, UnresolvedSteps, Started
    <3> QED BY <3>2 DEF PinnedInv, Current
  <2> QED BY <2>2, <2>3
<1> QED BY <1>2, <1>3

LEMMA DecidedNative ==
  ASSUME DecidedInv, UNCHANGED shopVars, product'.active = product.active
  PROVE  DecidedInv'
<1> USE DEF shopVars
<1>1. /\ OpenIntents' = OpenIntents /\ Rows(intents)' = Rows(intents)
      /\ Abandoned' = Abandoned
  BY DEF OpenIntents, Rows, Abandoned
<1>2. IntentInv'
  BY <1>1 DEF DecidedInv, IntentInv, Gapless, OneIntent, Retired, Aged, HidesNow, IntentSpot, Asks,
     NeedsPhotos, At, Keep
<1>3. StatusInv'
  BY <1>1 DEF DecidedInv, StatusInv, Pending, Marker, Knows, Asked, Stepping, Seen, AsWanted, At,
     Keep
<1>4. HiddenInv'
  BY <1>1 DEF DecidedInv, HiddenInv, HidesNow, At, Keep
<1> QED BY <1>2, <1>3, <1>4 DEF DecidedInv

\* A mutation on its way does what its key says.
LEMMA FlightActs ==
  ASSUME ShopTyped, Flights, NEW a \in air
  PROVE  /\ a = [op |-> a.op, act |-> a.act] /\ a.op \in Ops /\ issued[a.op] # 0
         /\ a.op.key \in PhotoKeys => a.act \in {"upload", "order", "remove"}
         /\ a.op.key \notin PhotoKeys =>
              /\ a.act \in {"hide", "enable"}
              /\ a.op.of # "intent" => a.op.key = StatusKey(a.act)
<1>1. a.op \in Ops /\ Flies(a)
  BY DEF ShopTyped, ShopTypeOK, Flights
<1>2. CASE a.op.of = "intent"
  BY <1>1, <1>2, OpKinds DEF Flies
<1>3. CASE a.op.of # "intent"
  <2>1. a.act = a.op.key.act /\ a.op.key \in Keys
    BY <1>1, <1>3, OpKinds DEF Flies
  <2>2. a.op.key \in PhotoKeys \/ a.op.key = StatusKey("hide") \/ a.op.key = StatusKey("enable")
    BY <2>1, KeyFacts
  <2>3. StatusKey("hide").act = "hide" /\ StatusKey("enable").act = "enable"
    BY DEF StatusKey
  <2>4. a.op.key \in PhotoKeys => a.op.key.act \in {"upload", "order", "remove"}
    BY KeyFacts
  <2> QED BY <1>1, <1>3, <2>1, <2>2, <2>3, <2>4 DEF Flies
<1> QED BY <1>2, <1>3

\* Without another writer the status only changes to what a mutation asks for.
LEMMA WeatherStatus ==
  ASSUME NoForeign, SyncInv, ShopTyped, Flights, Weather
  PROVE  /\ UNCHANGED <<life, intents, media, msteps, lane, product>> /\ air' \subseteq air
         /\ \/ shop'.status = shop.status
            \/ \E a \in air : /\ a.op.key \notin PhotoKeys /\ air' = air \ {a}
                              /\ shop'.status = Goal(a.act)
<1>1. ShopTypeOK /\ shop \in Shop /\ ~ForeignStatus
  BY NoForeignStatus DEF ShopTyped, ShopTypeOK
<1>2. UNCHANGED <<life, intents, media, msteps, lane, product>>
  BY <1>1, WeatherForm
<1>3. CASE Vanish
  BY <1>2, <1>3 DEF Vanish
<1>4. CASE Arrive
  <2>1. PICK a \in air : air' = air \ {a} /\ shop' = Applied(a.act, a.op.key.photo)
    BY <1>4 DEF Arrive
  <2>2. shop'.status = (IF a.act = "hide" THEN Off
                        ELSE IF a.act = "enable" THEN On ELSE shop.status)
    BY <1>1, <2>1, AppliedIs
  <2>3. /\ a.op.key \in PhotoKeys => shop'.status = shop.status
        /\ a.op.key \notin PhotoKeys => shop'.status = Goal(a.act)
    BY <2>2, FlightActs DEF Goal
  <2> QED BY <1>2, <2>1, <2>3
<1> QED BY <1>1, <1>3, <1>4 DEF Weather

\* No lane relies on the status while a status mutation is on its way.
LEMMA NobodyRelies ==
  ASSUME Ground, DecidedInv, ~Abandoned, NEW a \in air, a.op.key \notin PhotoKeys,
         NEW l \in Lanes
  PROVE  /\ Seen(l) /\ intents[Keep(l)].state = "queued" => intents[Keep(l)].row # life.row
         /\ ~At(l, "put")
         /\ ~(AsWanted(l) /\ intents[Keep(l)].state = "dispatched")
         /\ lane[l].key \notin PhotoKeys => lane[l].at \notin {"mark", "send"}
<1> PICK i, k, m : i = Keep(l) /\ k = lane[l].key /\ m = Keep(l)
  OBVIOUS
<1>1. /\ ShopTypeOK /\ a.op \in Ops /\ Marker(a.op) = "dispatched"
      /\ shop.status # Goal(a.act) /\ issued[a.op] # 0
  BY FlightActs DEF Ground, MediaInv, DecidedInv, StatusInv, Pending, ShopTyped
<1>2. /\ OneAuthority /\ OneIntent /\ OneOpen /\ ShopTyped /\ MediaInv /\ LedgerInv
  BY DEF Ground, AuthorityInv, DecidedInv, IntentInv, MediaInv
<1>3. lane[l].at \in IntentSpots => i \in Rows(intents) /\ i \in IntentId
  BY <1>1, <1>2, RowTypes DEF ShopTyped, Shaped
\* The unresolved mutation of an open intent is the one on its way.
<1>4. ASSUME i \in Rows(intents), i \in IntentId, intents[i].state = "dispatched"
      PROVE  a.op = IntentOp(i)
  <2>1. IntentOp(i) \in Ops /\ Marker(IntentOp(i)) = "dispatched"
    BY <1>4, OpsAre, MarksAre DEF IntentMark, Rows
  <2>2. IntentOp(i).key \notin PhotoKeys
    BY <2>1, OpKinds DEF IntentOp
  <2> QED BY <1>1, <1>2, <2>1, <2>2, OneStatus
<1>5. ASSUME Seen(l), intents[i].state = "queued", intents[i].row = life.row
      PROVE  FALSE
  <2>1. i \in Rows(intents) /\ i \in IntentId /\ i \in OpenIntents
    BY <1>3, <1>5 DEF Seen, At, IntentSpots, OpenIntents
  <2>2. CASE a.op.of = "intent"
    <3>1. a.op.id \in IntentId /\ IntentMark(a.op.id) = "dispatched"
      BY <1>1, <2>2, OpKinds, MarksAre
    <3>2. /\ a.op.id \in OpenIntents /\ intents[a.op.id].state = "dispatched"
          /\ intents[a.op.id].row = life.row
      BY <1>1, <3>1 DEF IntentMark, OpenIntents, Rows, ShopTypeOK, Abandoned
    <3> QED BY <1>2, <1>5, <2>1, <3>2 DEF OneIntent
  <2>3. CASE a.op.of # "intent"
    <3>1. /\ a.op.id \in MediaId /\ a.op.key \in Keys
          /\ msteps[a.op.id][a.op.key] = "dispatched"
      BY <1>1, <2>3, OpKinds, MarksAre
    <3>2. a.op.id \in OpenMedia /\ media[a.op.id].row = life.row
      BY <1>2, <3>1 DEF OneOpen, UnresolvedSteps
    <3> QED BY <1>2, <1>5, <2>1, <3>2 DEF OneAuthority
  <2> QED BY <2>2, <2>3
<1>6. ASSUME At(l, "put")  PROVE FALSE
  <2>1. i \in Rows(intents) /\ i \in IntentId /\ intents[i].state = "dispatched"
    BY <1>3, <1>6 DEF At, IntentSpots, DecidedInv, IntentInv, IntentSpot
  <2>2. issued[IntentOp(i)] = 0
    BY <1>2, <1>6 DEF LedgerInv, AboutTo, LaneOp, At
  <2> QED BY <1>1, <1>4, <2>1, <2>2
<1>7. ASSUME AsWanted(l), intents[i].state = "dispatched"  PROVE FALSE
  <2>1. i \in Rows(intents) /\ i \in IntentId
    BY <1>3, <1>7 DEF AsWanted, At, IntentSpots
  <2>2. a.op = IntentOp(i) /\ a.op.of = "intent" /\ a.op.id = i
    BY <1>4, <1>7, <2>1 DEF IntentOp
  <2>3. Goal(a.act) = intents[i].target /\ shop.status = intents[i].target
    BY <1>7, <2>2 DEF DecidedInv, IntentInv, Asks, StatusInv, Knows, Asked
  <2> QED BY <1>1, <2>3
<1>8. ASSUME k \notin PhotoKeys, lane[l].at \in {"mark", "send"}  PROVE FALSE
  <2>1. m \in MediaId /\ k \in Keys /\ Work(lane[l], m)
    BY <1>2, <1>8, MediaLane DEF MediaInv, Works, AtWork, MediaSpots, KeySpots
  <2>2. /\ m \in OpenMedia /\ media[m].row = life.row /\ Handles(lane[l], m, k)
        /\ Passes(lane[l], m) /\ Lit(lane[l], m)
    BY <1>2, <1>8, <2>1 DEF Work, OneOpen, KeySpots
  <2>3. a.op.of # "intent"
    <3> SUFFICES ASSUME a.op.of = "intent" PROVE FALSE
      OBVIOUS
    <3>1. a.op.id \in IntentId /\ IntentMark(a.op.id) = "dispatched"
      BY <1>1, OpKinds, MarksAre
    <3>2. a.op.id \in OpenIntents /\ intents[a.op.id].row = life.row
      BY <1>1, <3>1 DEF IntentMark, OpenIntents, Rows, ShopTypeOK, Abandoned
    <3> QED BY <1>2, <2>2, <3>2 DEF OneAuthority
  <2>4. /\ a.op.id \in MediaId /\ a.op.key \in Keys /\ a.op = MediaOp(a.op.id, a.op.key)
        /\ msteps[a.op.id][a.op.key] = "dispatched"
    BY <1>1, <2>3, OpKinds, MarksAre
  <2>5. a.op.id = m
    <3>1. a.op.id \in OpenMedia
      BY <1>2, <2>4 DEF OneOpen, UnresolvedSteps
    <3>2. \A x, y \in OpenMedia : x = y
      BY <1>2, OpenIsOne
    <3> QED BY <2>2, <3>1, <3>2
  \* A step that is about to be sent was never sent, and its rival is resolved.
  <2>6. a.op.key = k
    <3>1. k = StatusKey("hide") => Enabling(m) = "none"
      BY <2>2 DEF Handles
    <3>2. k = StatusKey("enable") => Hiding(m) # "dispatched"
      <4> SUFFICES ASSUME k = StatusKey("enable") PROVE Hiding(m) # "dispatched"
        OBVIOUS
      <4>1. CASE Enabling(m) # "none"
        BY <1>2, <2>1, <4>1 DEF MediaInv, Sets, Marked
      <4>2. CASE Enabling(m) = "none"
        <5>1. StatusKey("hide") \in lane[l].done
          BY <2>2, <4>2 DEF Handles, Lit
        <5> QED BY <2>2, <5>1 DEF Passes, Hiding
      <4> QED BY <4>1, <4>2
    <3>3. /\ k = StatusKey("hide") \/ k = StatusKey("enable")
          /\ a.op.key = StatusKey("hide") \/ a.op.key = StatusKey("enable")
      BY <1>8, <2>1, <2>4, KeyFacts
    <3> QED BY <2>4, <2>5, <3>1, <3>2, <3>3 DEF Enabling, Hiding
  <2>7. lane[l].at = "send"
    BY <1>8, <2>2, <2>4, <2>5, <2>6 DEF Handles
  <2>8. issued[MediaOp(m, k)] = 0
    BY <1>2, <2>7 DEF LedgerInv, AboutTo, LaneOp, At
  <2> QED BY <1>1, <2>4, <2>5, <2>6, <2>8
<1> QED BY <1>5, <1>6, <1>7, <1>8

\* What a lane knows outlasts a step that moves neither it nor the status, and
\* puts nothing new on its way.
LEMMA KnowsKept ==
  ASSUME NEW l, lane'[l] = lane[l], UNCHANGED <<life, intents>>, shop'.status = shop.status,
         air' \subseteq air, Knows(l)
  PROVE  Knows(l)'
<1>1. Seen(l)' = Seen(l) /\ AsWanted(l)' = AsWanted(l) /\ Keep(l)' = Keep(l)
      /\ \A spot : At(l, spot)' = At(l, spot)
  BY DEF Seen, AsWanted, At, Keep
<1>2. Asked(l)'
  BY <1>1 DEF Knows, Asked
<1>3. Stepping(l)'
  BY <1>1 DEF Knows, Stepping
<1> QED BY <1>2, <1>3 DEF Knows

LEMMA DecidedWeather ==
  ASSUME NoForeign, Ground, DecidedInv, Weather
  PROVE  DecidedInv'
<1>1. /\ UNCHANGED <<life, intents, media, msteps, lane, product>> /\ air' \subseteq air
      /\ \/ shop'.status = shop.status
         \/ \E a \in air : /\ a.op.key \notin PhotoKeys /\ air' = air \ {a}
                           /\ shop'.status = Goal(a.act)
  BY WeatherStatus DEF Ground, MediaInv
<1>2. /\ OpenIntents' = OpenIntents /\ Rows(intents)' = Rows(intents)
      /\ Abandoned' = Abandoned
      /\ \A i : HidesNow(i)' = HidesNow(i)
      /\ \A b : Marker(b)' = Marker(b)
  BY <1>1 DEF OpenIntents, Rows, Abandoned, HidesNow, Marker
<1>3. IntentInv'
  BY <1>1, <1>2 DEF DecidedInv, IntentInv, Gapless, OneIntent, Retired, Aged, IntentSpot, Asks,
     NeedsPhotos, At, Keep
<1>4. CASE shop'.status = shop.status
  <2>1. \A b : Pending(b) => Pending(b)'
    BY <1>2, <1>4 DEF Pending
  <2>2. \A l \in Lanes : Knows(l) => Knows(l)'
    BY <1>1, <1>4, KnowsKept
  <2>3. StatusInv'
    BY <1>1, <1>2, <2>1, <2>2 DEF DecidedInv, StatusInv
  <2>4. HiddenInv'
    BY <1>1, <1>2, <1>4 DEF DecidedInv, HiddenInv, At, Keep
  <2> QED BY <1>3, <2>3, <2>4 DEF DecidedInv
<1>5. ASSUME NEW a \in air, a.op.key \notin PhotoKeys, air' = air \ {a},
             shop'.status = Goal(a.act)
      PROVE  DecidedInv'
  <2>1. ASSUME ~Abandoned, NEW b \in air', b.op.key \notin PhotoKeys  PROVE FALSE
    <3>1. /\ b \in air /\ b # a /\ ShopTyped /\ Flights /\ OneAuthority /\ OneIntent /\ MediaInv
      BY <1>5, <2>1 DEF Ground, MediaInv, AuthorityInv, DecidedInv, IntentInv
    <3>2. /\ a = [op |-> a.op, act |-> a.act] /\ b = [op |-> b.op, act |-> b.act]
          /\ a.op \in Ops /\ b.op \in Ops
          /\ a.act \in {"hide", "enable"} /\ b.act \in {"hide", "enable"}
          /\ a.op.of # "intent" => a.op.key = StatusKey(a.act)
          /\ b.op.of # "intent" => b.op.key = StatusKey(b.act)
      BY <1>5, <2>1, <3>1, FlightActs
    <3>3. Marker(a.op) = "dispatched" /\ Marker(b.op) = "dispatched"
      BY <1>5, <2>1, <3>1 DEF DecidedInv, StatusInv, Pending
    <3>4. a.op = b.op
      BY <1>5, <2>1, <3>1, <3>2, <3>3, OneStatus
    <3>5. Goal(a.act) = Goal(b.act) => a.act = b.act
      BY <3>2 DEF Goal, On, Off
    <3>6. a.act = b.act
      <4>1. CASE a.op.of = "intent"
        BY <3>1, <3>4, <3>5, <4>1 DEF DecidedInv, IntentInv, Asks
      <4>2. CASE a.op.of # "intent"
        BY <3>2, <3>4, <4>2 DEF StatusKey
      <4> QED BY <4>1, <4>2
    <3> QED BY <3>1, <3>2, <3>4, <3>6
  <2>2. ASSUME ~Abandoned, NEW l \in Lanes  PROVE Knows(l)'
    <3>1. /\ Seen(l) /\ intents[Keep(l)].state = "queued" => intents[Keep(l)].row # life.row
          /\ ~At(l, "put")
          /\ ~(AsWanted(l) /\ intents[Keep(l)].state = "dispatched")
          /\ lane[l].key \notin PhotoKeys => lane[l].at \notin {"mark", "send"}
      BY <1>5, <2>2, NobodyRelies
    <3>2. /\ Seen(l)' = Seen(l) /\ AsWanted(l)' = AsWanted(l) /\ Keep(l)' = Keep(l)
          /\ \A spot : At(l, spot)' = At(l, spot)
      BY <1>1 DEF Seen, AsWanted, At, Keep
    <3>3. Asked(l)'
      BY <1>1, <3>1, <3>2 DEF Asked
    <3>4. Stepping(l)'
      BY <1>1, <2>2, <3>1, <3>2 DEF DecidedInv, StatusInv, Knows, Stepping
    <3> QED BY <3>3, <3>4 DEF Knows
  <2>3. StatusInv'
    BY <1>2, <2>1, <2>2 DEF StatusInv, Pending
  <2>4. ~product.active => shop'.status = Off
    BY <1>5, RetiredQuiet DEF Ground, DecidedInv
  <2>5. \A i \in Rows(intents) : HidesNow(i) => ~product.active
    BY DEF DecidedInv, IntentInv, Aged
  <2>6. \A l \in Lanes : At(l, "confirm") => Keep(l) \in Rows(intents)
    BY DEF Ground, ShopTyped, Shaped, At, IntentSpots
  <2>7. HiddenInv'
    BY <1>1, <1>2, <2>4, <2>5, <2>6 DEF HiddenInv, At, Keep
  <2> QED BY <1>3, <2>3, <2>7 DEF DecidedInv
<1> QED BY <1>1, <1>4, <1>5

\* A decision ages every fingerprint, closes queued intents and adds new ones.
Ages == /\ life' \in Life
        /\ \/ life'.row = life.row + 1
           \/ life'.row = life.row /\ life'.version = life.version + 1
SameWish(k) ==
  /\ intents'[k].kind = intents[k].kind /\ intents'[k].row = intents[k].row
  /\ intents'[k].print = intents[k].print /\ intents'[k].target = intents[k].target
  /\ \/ intents'[k].state = intents[k].state
     \/ intents[k].state = "queued" /\ intents'[k].state = "superseded"

LEMMA PrintsAge ==
  ASSUME ShopTypeOK, Ages, NEW i \in Rows(intents), Aged(i), SameWish(i)
  PROVE  Aged(i)' /\ ~HidesNow(i)'
<1>1. /\ life.row \in Nat /\ life.version \in Nat
      /\ intents[i].print.life.row \in Nat /\ intents[i].print.life.version \in Nat
      /\ life'.row \in Nat /\ life'.version \in Nat
  BY RowTypes DEF ShopTypeOK, Ages, Life, Intent, Fingerprint
<1>2. ~HidesNow(i)'
  BY <1>1 DEF HidesNow, SameWish, Aged, Ages
<1>3. \/ intents[i].print.life.row < life'.row
      \/ /\ intents[i].print.life.row = life'.row
         /\ intents[i].print.life.version <= life'.version
  BY <1>1 DEF Aged, Ages
<1> QED BY <1>2, <1>3 DEF Aged, SameWish

LEMMA DecidedAges ==
  ASSUME Ground, DecidedInv, Ages, UNCHANGED <<msteps, shop, air, lane>>,
         Gapless', OneIntent', Retired',
         \A k \in Rows(intents) : k \in Rows(intents)' /\ SameWish(k),
         \A k \in Rows(intents)' \ Rows(intents) :
           Aged(k)' /\ intents'[k].state \in {"queued", "blocked"}
  PROVE  DecidedInv'
<1>1. /\ ShopTypeOK /\ Bounds /\ LedgerInv /\ Rows(intents) \subseteq IntentId
      /\ life.row \in Nat /\ life'.row \in Nat
      /\ \A i \in Rows(intents) : intents[i].row \in Nat
  BY RowTypes DEF Ground, ShopTyped, AuthorityInv, ShopTypeOK, Ages, Life, Intent
<1>2. ASSUME NEW i \in Rows(intents)
      PROVE  /\ Aged(i)' /\ ~HidesNow(i)'
             /\ intents'[i].state = "dispatched" <=> intents[i].state = "dispatched"
  <2>1. Aged(i) /\ SameWish(i)
    BY DEF DecidedInv, IntentInv
  <2> QED BY <1>1, <2>1, PrintsAge DEF SameWish
<1>3. ASSUME NEW l \in Lanes, lane[l].at \in IntentSpots
      PROVE  Keep(l) \in Rows(intents) /\ SameWish(Keep(l)) /\ Keep(l)' = Keep(l)
  BY <1>3 DEF Ground, ShopTyped, Shaped, Keep
<1>4. ASSUME NEW a \in air
      PROVE  a.op.of = "intent" => a.op.id \in Rows(intents)
  <2>1. a.op \in Ops /\ issued[a.op] # 0
    BY FlightActs DEF Ground, MediaInv
  <2>2. Marker(a.op) # "none"
    BY <1>1, <2>1 DEF LedgerInv
  <2>3. a.op.of = "intent" => a.op.id \in IntentId /\ Marker(a.op) = IntentMark(a.op.id)
    BY <2>1, OpKinds, MarksAre
  <2> QED BY <1>1, <2>2, <2>3 DEF IntentMark, Rows, ShopTypeOK
<1>5. \A l : Seen(l)' = Seen(l) /\ AsWanted(l)' = AsWanted(l) /\ Keep(l)' = Keep(l)
             /\ \A spot : At(l, spot)' = At(l, spot)
  BY DEF Seen, AsWanted, At, Keep
<1>6. IntentInv'
  <2>1. \A i \in Rows(intents)' : Aged(i)'
    BY <1>2
  <2>2. ASSUME NEW l \in Lanes  PROVE IntentSpot(l)'
    <3>1. IntentSpot(l)
      BY DEF DecidedInv, IntentInv
    <3>2. lane[l].at \in {"put", "readback", "acknowledge"} => intents'[Keep(l)].state = "dispatched"
      BY <1>2, <1>3, <3>1 DEF IntentSpot, IntentSpots
    <3>3. At(l, "photos") => NeedsPhotos(Keep(l))'
      BY <1>3, <1>5, <3>1 DEF IntentSpot, IntentSpots, At, NeedsPhotos, SameWish
    <3> QED BY <1>5, <3>1, <3>2, <3>3 DEF IntentSpot
  <2>3. ASSUME NEW a \in air'  PROVE Asks(a)'
    BY <1>4, <2>3 DEF DecidedInv, IntentInv, Asks, SameWish
  <2> QED BY <2>1, <2>2, <2>3 DEF IntentInv
<1>7. ~Abandoned' => ~Abandoned
  <2> SUFFICES ASSUME NEW i \in Rows(intents), intents[i].state = "dispatched",
                      intents[i].row # life.row
               PROVE  Abandoned'
    BY DEF Abandoned
  <2>1. intents[i].row < life'.row
    BY <1>1 DEF Bounds, Ages
  <2> QED BY <1>1, <1>2, <2>1 DEF Abandoned, SameWish
<1>8. StatusInv'
  <2> SUFFICES ASSUME ~Abandoned
               PROVE  (\A a \in air : Pending(a)') /\ \A l \in Lanes : Knows(l)'
    BY <1>7 DEF StatusInv
  <2>1. ASSUME NEW a \in air  PROVE Pending(a)'
    <3>1. Pending(a) /\ a.op \in Ops
      BY DEF DecidedInv, StatusInv, Ground, ShopTyped, ShopTypeOK
    <3>2. ASSUME Marker(a.op) = "dispatched"  PROVE Marker(a.op)' = "dispatched"
      <4>1. CASE a.op.of = "intent"
        BY <1>2, <1>4, <3>2, <4>1 DEF Marker, Rows
      <4>2. CASE a.op.of # "intent"
        BY <3>1, <3>2, <4>2, OpKinds DEF Marker
      <4> QED BY <4>1, <4>2
    <3> QED BY <3>1, <3>2 DEF Pending
  <2>2. ASSUME NEW l \in Lanes  PROVE Knows(l)'
    <3> PICK i : i = Keep(l)
      OBVIOUS
    <3>1. Asked(l) /\ Stepping(l)
      BY DEF DecidedInv, StatusInv, Knows
    <3>2. Seen(l) \/ AsWanted(l) \/ At(l, "put") => i \in Rows(intents) /\ SameWish(i)
      BY <1>3 DEF Seen, AsWanted, At, IntentSpots
    <3>3. /\ Seen(l) /\ intents'[i].state = "queued" /\ intents'[i].row = life'.row
             => lane[l].raw = shop.status
          /\ At(l, "put") => shop.status # intents'[i].target
          /\ AsWanted(l) /\ intents'[i].state = "dispatched" => shop.status = intents'[i].target
      BY <1>1, <3>1, <3>2 DEF Asked, SameWish, Bounds, Ages
    <3>4. Asked(l)'
      BY <1>5, <3>3 DEF Asked
    <3>5. Stepping(l)'
      BY <1>5, <3>1 DEF Stepping
    <3> QED BY <3>4, <3>5 DEF Knows
  <2> QED BY <2>1, <2>2
<1>9. HiddenInv'
  <2>1. \A i \in Rows(intents)' : HidesNow(i)' => intents'[i].state # "verified"
    BY <1>2
  <2>2. \A l \in Lanes : At(l, "confirm") => ~HidesNow(Keep(l))'
    <3> TAKE l \in Lanes
    <3> PICK i : i = Keep(l)
      OBVIOUS
    <3>1. At(l, "confirm") => i \in Rows(intents)
      BY <1>3 DEF At, IntentSpots
    <3>2. At(l, "confirm") => ~HidesNow(i)'
      BY <1>2, <3>1
    <3> QED BY <1>5, <3>2 DEF HidesNow
  <2> QED BY <1>5, <2>1, <2>2 DEF HiddenInv
<1> QED BY <1>6, <1>8, <1>9 DEF DecidedInv

\* The next number is above all others.
LEMMA NextIntent ==
  ASSUME ShopTypeOK, Gapless, NEW i \in IntentId, IsNext(intents, i)
  PROVE  \A j \in Rows(intents) : j < i
<1> TAKE j \in Rows(intents)
<1>1. j \in Nat /\ i \in Nat /\ i >= 1 /\ i \notin Rows(intents)
  BY RowTypes DEF IntentId, IsNext, Rows
<1>2. i <= j => i \in 1..j
  BY <1>1
<1> QED BY <1>1, <1>2 DEF Gapless

LEMMA GrownGapless ==
  ASSUME ShopTypeOK, Gapless, NEW i \in IntentId, IsNext(intents, i),
         Rows(intents)' = Rows(intents) \cup {i}
  PROVE  Gapless'
<1>1. \A k \in 1..i - 1 : k \in IntentId
  BY ShopAssumption DEF IntentId
<1>2. \A k \in 1..i - 1 : k \in Rows(intents)
  BY <1>1 DEF IsNext, Rows, ShopTypeOK
<1>3. ASSUME NEW j \in Rows(intents) \cup {i}, NEW k \in 1..j
      PROVE  k \in Rows(intents) \cup {i}
  <2>1. CASE j = i
    <3>1. k = i \/ k \in 1..i - 1
      BY <1>3, <2>1 DEF IntentId
    <3> QED BY <1>2, <3>1
  <2>2. CASE j \in Rows(intents)
    BY <1>3, <2>2 DEF Gapless
  <2> QED BY <1>3, <2>1, <2>2
<1> QED BY <1>3 DEF Gapless

\* What a superseding decision leaves of the intents.
LEMMA OverIs ==
  ASSUME ShopTypeOK, intents' \in [IntentId -> Intent \cup {NoRow}], NEW k \in IntentId,
         Over(k, intents'[k])
  PROVE  /\ k \in Rows(intents)' <=> k \in Rows(intents)
         /\ k \in Rows(intents) => SameWish(k) /\ intents'[k].state # "queued"
<1>1. NoRow \notin Intent
  BY RowTypes
<1> QED BY <1>1 DEF Over, SameWish, Rows, ShopTypeOK

\* A new intent, made for the product as it is from now on.
LEMMA NewAged ==
  ASSUME ShopTypeOK, life' \in Life, NEW i, NEW kind, NEW target, NEW states,
         NewIntent(i, kind, target, states),
         kind = "hide" => target = Off /\ ~product'.active
  PROVE  Aged(i)' /\ intents'[i] # NoRow
<1>1. /\ intents'[i].print.life = life' /\ intents'[i].kind = kind /\ intents'[i].target = target
      /\ intents'[i] # NoRow
  BY RowTypes DEF NewIntent, FingerprintNow
<1>2. life'.row \in Nat /\ life'.version \in Nat
  BY DEF Life
<1> QED BY <1>1, <1>2 DEF Aged, HidesNow

LEMMA DecidedArchive ==
  ASSUME Ground, Data, DecidedInv, Archive
  PROVE  DecidedInv'
<1>1. ShopTypeOK /\ Gapless /\ Rows(intents) \subseteq IntentId
  BY RowTypes DEF Ground, ShopTyped, DecidedInv, IntentInv
<1>2. /\ UNCHANGED <<msteps, shop, air, lane>> /\ ArchiveAllowed /\ ~product'.active
      /\ life' \in Life /\ life'.row = life.row /\ life'.version = life.version + 1
      /\ intents' \in [IntentId -> Intent \cup {NoRow}]
  BY <1>1, ArchiveForm
<1>3. PICK i \in IntentId : /\ NewIntent(i, "hide", Off, {"queued", "blocked"})
                            /\ \A k \in IntentId \ {i} : Over(k, intents'[k])
  BY <1>1, ArchiveForm
<1>4. /\ IsNext(intents, i) /\ i \notin Rows(intents) /\ Aged(i)' /\ intents'[i] # NoRow
      /\ intents'[i].state \in {"queued", "blocked"} /\ intents'[i].kind = "hide"
      /\ intents'[i].row = life.row
  BY <1>1, <1>2, <1>3, NewAged DEF NewIntent, Rows
<1>5. \A k \in IntentId \ {i} : /\ k \in Rows(intents)' <=> k \in Rows(intents)
                                /\ k \in Rows(intents) => SameWish(k) /\ intents'[k].state # "queued"
  BY <1>1, <1>2, <1>3, OverIs
<1>6. Rows(intents)' = Rows(intents) \cup {i}
  BY <1>1, <1>2, <1>4, <1>5 DEF Rows
<1>7. Gapless' /\ \A j \in Rows(intents)' : j <= i
  BY <1>1, <1>4, <1>6, NextIntent, GrownGapless DEF IntentId
<1>8. OpenIntents' \subseteq {i}
  BY <1>1, <1>2, <1>4, <1>5, <1>6 DEF OpenIntents, ArchiveAllowed, SameWish
<1>9. OneIntent' /\ Retired'
  BY <1>2, <1>4, <1>7, <1>8 DEF OneIntent, Retired
<1>10. Ages /\ \A k \in Rows(intents) : k \in Rows(intents)' /\ SameWish(k)
  BY <1>1, <1>2, <1>4, <1>5 DEF Ages
<1> QED BY <1>2, <1>4, <1>6, <1>7, <1>9, <1>10, DecidedAges

LEMMA DecidedRestore ==
  ASSUME Ground, Data, Data', DecidedInv, Restore
  PROVE  DecidedInv'
<1>1. /\ ShopTypeOK /\ Gapless /\ Rows(intents) \subseteq IntentId
      /\ \A k \in Rows(intents) : intents[k] \in Intent
  BY RowTypes DEF Ground, ShopTyped, DecidedInv, IntentInv
<1>2. /\ UNCHANGED <<msteps, shop, air, lane>> /\ Restorable /\ product'.active
      /\ life' \in Life /\ life'.row = life.row /\ life'.version = life.version + 1
      /\ intents' \in [IntentId -> Intent \cup {NoRow}]
  BY <1>1, RestoreForm
<1>3. Ages /\ Retired'
  BY <1>2 DEF Ages, Retired
<1>4. \A k \in Rows(intents) : intents[k].state # "dispatched"
  BY <1>2 DEF Restorable
<1>5. CASE \A k \in IntentId : Over(k, intents'[k])
  <2>1. \A k \in IntentId : /\ k \in Rows(intents)' <=> k \in Rows(intents)
                            /\ k \in Rows(intents) => SameWish(k) /\ intents'[k].state # "queued"
    BY <1>1, <1>2, <1>5, OverIs
  <2>2. Rows(intents)' = Rows(intents)
    BY <1>1, <1>2, <2>1 DEF Rows
  <2>3. OpenIntents' = {}
    BY <1>1, <1>4, <2>1, <2>2 DEF OpenIntents, SameWish
  <2>4. Gapless' /\ OneIntent'
    BY <1>1, <2>2, <2>3 DEF Gapless, OneIntent
  <2> QED BY <1>1, <1>2, <1>3, <2>1, <2>2, <2>4, DecidedAges
<1>6. ASSUME NEW i \in IntentId, intents[Hide].state = "verified",
             NewIntent(i, "restore", intents[Hide].prev, {"queued"}),
             \A k \in IntentId \ {i} : intents'[k] = intents[k]
      PROVE  DecidedInv'
  <2>1. /\ IsNext(intents, i) /\ i \notin Rows(intents) /\ intents'[i].state = "queued"
        /\ intents'[i] # NoRow /\ Aged(i)'
    <3> PICK target : target = intents[Hide].prev
      OBVIOUS
    <3>1. NewIntent(i, "restore", target, {"queued"})
      BY <1>6
    <3>2. Aged(i)' /\ intents'[i] # NoRow
      BY <1>1, <1>2, <3>1, NewAged
    <3> QED BY <3>1, <3>2 DEF NewIntent, Rows
  <2>2. Rows(intents)' = Rows(intents) \cup {i}
    <3>1. DOMAIN intents = IntentId /\ DOMAIN intents' = IntentId
      BY <1>1, <1>2 DEF ShopTypeOK
    <3>2. \A k \in IntentId : intents'[k] # NoRow <=> intents[k] # NoRow \/ k = i
      BY <1>6, <2>1
    <3> QED BY <3>1, <3>2 DEF Rows
  <2>3. \A k \in Rows(intents) : intents'[k] = intents[k] /\ k \in Rows(intents)' /\ SameWish(k)
    BY <1>1, <1>6, <2>1, <2>2 DEF SameWish
  \* Of an archived product only the newest intent is open, and that was verified.
  <2>4. OpenIntents = {}
    <3> SUFFICES ASSUME NEW j \in OpenIntents PROVE FALSE
      OBVIOUS
    <3> PICK h : h = Hide
      OBVIOUS
    <3>1. /\ j \in Rows(intents) /\ intents[j].kind = "hide" /\ intents[j].row = life.row
          /\ intents[j].state = "queued" /\ \A k \in Rows(intents) : k <= j
      BY <1>2, <1>4 DEF Restorable, DecidedInv, IntentInv, Retired, OpenIntents
    <3> DEFINE hides == {k \in Rows(intents) : intents[k].kind = "hide" /\ intents[k].row = life.row}
    <3>2. hides \subseteq 1..MaxIntents /\ j \in hides /\ MaxIntents \in Nat
      BY <1>1, <3>1, ShopAssumption DEF IntentId
    <3>3. h = Newest(hides)
      BY <3>2 DEF Hide
    <3> HIDE DEF hides
    <3>4. Newest(hides) \in hides /\ \A k \in hides : k <= Newest(hides)
      BY <3>2, NewestOf
    <3>5. h \in Rows(intents) /\ j <= h /\ h \in Nat /\ j \in Nat
      BY <1>1, <3>2, <3>3, <3>4 DEF hides, IntentId
    <3>6. h = j
      BY <3>1, <3>5
    <3> QED BY <1>6, <3>1, <3>6
  <2>5. OpenIntents' \subseteq {i}
    BY <2>2, <2>3, <2>4 DEF OpenIntents
  <2>6. Gapless' /\ OneIntent'
    BY <1>1, <2>1, <2>2, <2>5, GrownGapless DEF OneIntent
  <2> QED BY <1>2, <1>3, <2>1, <2>2, <2>3, <2>6, DecidedAges
<1> QED BY <1>1, <1>5, <1>6, RestoreForm

LEMMA DecidedRecount ==
  ASSUME Ground, Data, Data', DecidedInv, Recount
  PROVE  DecidedInv'
<1>1. ShopTypeOK /\ Bounds /\ Rows(intents) \subseteq IntentId
      /\ life.row \in Nat /\ \A i \in Rows(intents) : intents[i].row \in Nat
  BY RowTypes DEF Ground, ShopTyped, AuthorityInv, ShopTypeOK, Life, Intent
<1>2. /\ UNCHANGED <<intents, msteps, shop, air, lane>> /\ product'.active
      /\ life' \in Life /\ life'.row = life.row + 1
  BY <1>1, RecountForm
<1>3. Rows(intents)' = Rows(intents) /\ OpenIntents' = OpenIntents
  BY <1>2 DEF Rows, OpenIntents
<1>4. \A i \in Rows(intents) : intents[i].row # life'.row /\ SameWish(i)
  BY <1>1, <1>2 DEF Bounds, SameWish
<1>5. Gapless' /\ OneIntent' /\ Retired' /\ Ages
  BY <1>2, <1>3, <1>4 DEF DecidedInv, IntentInv, Gapless, OneIntent, Retired, OpenIntents, Ages
<1> QED BY <1>2, <1>3, <1>4, <1>5, DecidedAges

LEMMA DecidedDecision ==
  ASSUME Ground, Data, Data', DecidedInv, Decision
  PROVE  DecidedInv'
<1>1. CASE SavePhotos
  <2>1. UNCHANGED <<life, intents, msteps, shop, air, lane, product>>
    BY <1>1, SavePhotosForm DEF Ground, ShopTyped
  <2>2. /\ Rows(intents)' = Rows(intents) /\ OpenIntents' = OpenIntents /\ Abandoned' = Abandoned
        /\ \A b : Marker(b)' = Marker(b)
        /\ \A i : HidesNow(i)' = HidesNow(i)
    BY <2>1 DEF Rows, OpenIntents, Abandoned, Marker, HidesNow
  <2>3. IntentInv'
    BY <2>1, <2>2 DEF DecidedInv, IntentInv, Gapless, OneIntent, Retired, Aged, IntentSpot, Asks,
       NeedsPhotos, At, Keep
  <2>4. \A l \in Lanes : Knows(l) => Knows(l)'
    BY <2>1, KnowsKept
  <2>5. StatusInv'
    BY <2>1, <2>2, <2>4 DEF DecidedInv, StatusInv, Pending
  <2>6. HiddenInv'
    BY <2>1, <2>2 DEF DecidedInv, HiddenInv, At, Keep
  <2> QED BY <2>3, <2>5, <2>6 DEF DecidedInv
<1> QED BY <1>1, DecidedArchive, DecidedRestore, DecidedRecount DEF Decision

-----------------------------------------------------------------------------
\* The status under the lanes.

\* Intent i gets the state s: none is opened, one that was marked is settled
\* only while its row is current, and a hide of now is verified only if it shows.
Settles(i, s) ==
  /\ s \in OpenStates => intents[i].state \in OpenStates
  /\ intents[i].state = "dispatched" /\ s # "dispatched" => intents[i].row = life.row
  /\ s = "verified" /\ HidesNow(i) => shop.status = Off
Marching(l) == OtherLanes(l) /\ \A r \in Lanes \ {l} : At(r, "idle")

LEMMA DecidedLane ==
  ASSUME Ground, DecidedInv, NEW l \in Lanes, Marching(l), UNCHANGED <<life, shop, product>>,
         UNCHANGED intents \/ \E i, s : Restates(i, s) /\ Settles(i, s),
         ~Abandoned => \A a \in air : a.op.key \notin PhotoKeys => Marker(a.op)' = "dispatched",
         \A a \in air' : a \in air \/ (Asks(a)' /\ (~Abandoned => Pending(a)')),
         IntentSpot(l)', ~Abandoned => Knows(l)',
         At(l, "confirm")' /\ HidesNow(Keep(l))' => shop.status = Off
  PROVE  DecidedInv'
<1>1. ShopTypeOK /\ ShopTyped /\ LedgerInv /\ IntentsMove
  BY DEF Ground, ShopTyped, IntentsMove, Settles
<1>2. /\ Rows(intents)' = Rows(intents) /\ OpenIntents' \subseteq OpenIntents
      /\ \A i \in Rows(intents) :
           /\ intents'[i].row = intents[i].row /\ intents'[i].kind = intents[i].kind
           /\ intents'[i].print = intents[i].print /\ intents'[i].target = intents[i].target
           /\ \/ intents'[i].state = intents[i].state \/ Settles(i, intents'[i].state)
  <2>1. /\ Rows(intents)' = Rows(intents) /\ OpenIntents' \subseteq OpenIntents
        /\ Rows(intents) \subseteq IntentId
    BY <1>1, IntentsMoveIs, RowTypes
  <2>2. CASE UNCHANGED intents
    BY <2>1, <2>2
  <2>3. ASSUME NEW i, NEW s, Restates(i, s), Settles(i, s)
        PROVE  \A k \in Rows(intents) :
                 /\ intents'[k].row = intents[k].row /\ intents'[k].kind = intents[k].kind
                 /\ intents'[k].print = intents[k].print /\ intents'[k].target = intents[k].target
                 /\ \/ intents'[k].state = intents[k].state \/ Settles(k, intents'[k].state)
    BY <2>1, <2>3 DEF Restates
  <2> QED BY <2>1, <2>2, <2>3
<1>3. \A i \in Rows(intents) : HidesNow(i)' = HidesNow(i)
  BY <1>2 DEF HidesNow
<1>4. ASSUME NEW r \in Lanes, r # l
      PROVE  /\ IntentSpot(r)' /\ Knows(r)' /\ ~At(r, "confirm")'
  <2>1. lane'[r].at = "idle"
    BY <1>4 DEF Marching, OtherLanes, At
  <2> QED BY <2>1 DEF IntentSpot, Knows, Asked, Stepping, Seen, AsWanted, At
<1>5. IntentInv'
  <2>1. Gapless' /\ OneIntent' /\ Retired'
    <3>1. Gapless'
      BY <1>2 DEF DecidedInv, IntentInv, Gapless
    <3>2. OneIntent'
      BY <1>2 DEF DecidedInv, IntentInv, OneIntent, OpenIntents
    <3>3. Retired'
      BY <1>2 DEF DecidedInv, IntentInv, Retired, OpenIntents
    <3> QED BY <3>1, <3>2, <3>3
  <2>2. \A i \in Rows(intents)' : Aged(i)'
    BY <1>2, <1>3 DEF DecidedInv, IntentInv, Aged
  <2>3. ASSUME NEW a \in air'  PROVE Asks(a)'
    <3>1. CASE a \in air
      <4>1. a.op \in Ops /\ Marker(a.op) # "none"
        BY <1>1, <3>1, FlightActs DEF Ground, MediaInv, LedgerInv
      <4>2. a.op.of = "intent" => a.op.id \in IntentId /\ Marker(a.op) = IntentMark(a.op.id)
        BY <4>1, OpKinds, MarksAre
      <4>3. a.op.of = "intent" => a.op.id \in Rows(intents)
        BY <1>1, <4>1, <4>2 DEF IntentMark, Rows, ShopTypeOK
      <4> QED BY <1>2, <3>1, <4>3 DEF DecidedInv, IntentInv, Asks
    <3> QED BY <2>3, <3>1
  <2>4. \A r \in Lanes : IntentSpot(r)'
    BY <1>4
  <2> QED BY <2>1, <2>2, <2>3, <2>4 DEF IntentInv
<1>6. StatusInv'
  <2>1. ~Abandoned' => ~Abandoned
    BY <1>2 DEF Abandoned, Settles
  <2>2. ASSUME ~Abandoned, NEW a \in air'  PROVE Pending(a)'
    <3>1. CASE a \in air
      BY <2>2, <3>1 DEF DecidedInv, StatusInv, Pending
    <3> QED BY <2>2, <3>1
  <2>3. ~Abandoned => \A r \in Lanes : Knows(r)'
    BY <1>4
  <2> QED BY <2>1, <2>2, <2>3 DEF StatusInv
<1>7. HiddenInv'
  <2>1. ASSUME NEW i \in Rows(intents), HidesNow(i), intents'[i].state = "verified"
        PROVE  shop.status = Off
    BY <1>2, <2>1 DEF DecidedInv, HiddenInv, Settles
  <2>2. \A r \in Lanes : At(r, "confirm")' /\ HidesNow(Keep(r))' => shop.status = Off
    BY <1>4
  <2> QED BY <1>2, <1>3, <2>1, <2>2 DEF HiddenInv
<1> QED BY <1>5, <1>6, <1>7 DEF DecidedInv

\* A mutation on its way outlasts a step that settles no intent but one whose
\* status shows.
LEMMA IntentSettles ==
  ASSUME Ground, DecidedInv, ~Abandoned, NEW i, NEW s, Restates(i, s), UNCHANGED msteps,
         intents[i].state = "dispatched" /\ s # "dispatched" => shop.status = intents[i].target
  PROVE  \A a \in air : a.op.key \notin PhotoKeys => Marker(a.op)' = "dispatched"
<1> SUFFICES ASSUME NEW a \in air, a.op.key \notin PhotoKeys
             PROVE  Marker(a.op)' = "dispatched"
  OBVIOUS
<1>1. /\ ShopTypeOK /\ a.op \in Ops /\ Marker(a.op) = "dispatched"
      /\ shop.status # Goal(a.act) /\ Asks(a)
  BY DEF Ground, ShopTyped, ShopTypeOK, DecidedInv, IntentInv, StatusInv, Pending
<1>2. /\ i \in IntentId /\ intents[i] # NoRow
      /\ IntentMark(i)' = (IF s \in {"dispatched", "verified"} THEN s ELSE "none")
      /\ \A k \in IntentId \ {i} : IntentMark(k)' = IntentMark(k)
  BY <1>1, RestateMarks
<1>3. /\ \A op \in Ops \ {IntentOp(i)} : Marker(op)' = Marker(op)
      /\ Marker(IntentOp(i))' = IntentMark(i)' /\ Marker(IntentOp(i)) = IntentMark(i)
  BY <1>1, <1>2, IntentMarks
<1>4. CASE a.op = IntentOp(i)
  <2>1. a.op.of = "intent" /\ a.op.id = i /\ IntentMark(i) = "dispatched"
    BY <1>1, <1>3, <1>4 DEF IntentOp
  <2>2. intents[i].state = "dispatched" /\ shop.status # intents[i].target
    BY <1>1, <1>2, <2>1 DEF IntentMark, Asks
  <2> QED BY <1>2, <1>3, <1>4, <2>2
<1> QED BY <1>1, <1>3, <1>4

LEMMA StillMarked ==
  ASSUME DecidedInv, UNCHANGED <<intents, msteps>>
  PROVE  ~Abandoned => \A a \in air : a.op.key \notin PhotoKeys => Marker(a.op)' = "dispatched"
BY DEF DecidedInv, StatusInv, Pending, Marker

\* A lane that only moves on.
LEMMA DecidedGoesOn ==
  ASSUME Ground, DecidedInv, NEW l \in Lanes, Marching(l), UNCHANGED <<life, shop, product>>,
         UNCHANGED <<intents, msteps, air>>,
         IntentSpot(l)', ~Abandoned => Knows(l)',
         At(l, "confirm")' /\ HidesNow(Keep(l))' => shop.status = Off
  PROVE  DecidedInv'
BY DecidedLane, StillMarked

\* A lane that comes to rest, or to a spot where it relies on nothing.
LEMMA RestingLane ==
  ASSUME NEW l, lane'[l].at \in {"idle", "failed", "verify", "step", "reopen", "recheck",
                                 "check", "succeed", "broken"},
         lane'[l].at = "verify" => ~lane'[l].review
  PROVE  IntentSpot(l)' /\ Knows(l)' /\ ~At(l, "confirm")'
BY DEF IntentSpot, Knows, Asked, Stepping, Seen, AsWanted, At

\* Where the lane goes.
LEMMA LaneMarches ==
  ASSUME NEW l, \A r \in Lanes \ {l} : At(r, "idle")
  PROVE  /\ \A r : Turns(l, r) => Marching(l) /\ lane'[l] = r
         /\ \A spot : Stays(l, spot) =>
              /\ Marching(l) /\ lane'[l].at = spot /\ Keep(l)' = Keep(l)
              /\ lane'[l].review = lane[l].review /\ lane'[l].raw = lane[l].raw
              /\ lane'[l].key = lane[l].key
         /\ \A spot, k, d : Holds(l, spot, k, d) =>
              Marching(l) /\ lane'[l].at = spot /\ Keep(l)' = Keep(l) /\ lane'[l].key = k
BY DEF Turns, Stays, SameHold, Holds, Marching, Keep

\* The transactions' proof is of the current row, and of the product as it is.
LEMMA CodeIsCurrent ==
  ASSUME NEW l, NEW i, i = Keep(l), FullCode(l) = "ok"
  PROVE  /\ intents[i].row = life.row /\ intents[i].print = FingerprintNow
BY CodeValues DEF LocalCode

LEMMA DecidedRests ==
  ASSUME Ground, DecidedInv, NEW l \in Lanes, \A r \in Lanes \ {l} : At(r, "idle"),
         UNCHANGED product,
         \/ TakeIntent(l) \/ VerifyIntent(l) \/ FailIntent(l) \/ StatusFault(l) \/ LaneCrash(l)
  PROVE  DecidedInv'
<1> DEFINE Rest == {"idle", "failed", "verify", "step", "reopen", "recheck", "check",
                    "succeed", "broken"}
<1>1. ShopTyped /\ ShopTypeOK /\ IdleLane.at = "idle" /\ IntentSpot(l)
  BY IdleAt DEF Ground, ShopTyped, DecidedInv, IntentInv
<1>2. CASE TakeIntent(l)
  <2>1. /\ Marching(l) /\ UNCHANGED tables /\ lane'[l].at = "verify" /\ ~lane'[l].review
    BY <1>1, <1>2, TakeIntentForm, LaneMarches
  <2>2. IntentSpot(l)' /\ Knows(l)' /\ ~At(l, "confirm")'
    BY <2>1, RestingLane
  <2> QED BY <2>1, <2>2, DecidedGoesOn DEF tables
<1>3. CASE VerifyIntent(l)
  <2>1. At(l, "verify") /\ UNCHANGED tables
    BY <1>1, <1>3, VerifyIntentForm
  <2>2. CASE Turns(l, IdleLane) \/ Stays(l, "failed")
    <3>1. Marching(l) /\ lane'[l].at \in {"idle", "failed"}
      BY <1>1, <2>2, LaneMarches
    <3>2. IntentSpot(l)' /\ Knows(l)' /\ ~At(l, "confirm")'
      BY <3>1, RestingLane
    <3> QED BY <2>1, <3>1, <3>2, DecidedGoesOn DEF tables
  <2>3. CASE Stays(l, "look")
    <3>1. Marching(l) /\ lane'[l].at = "look" /\ ~lane'[l].review
      BY <1>1, <2>1, <2>3, LaneMarches DEF IntentSpot, At
    <3>2. IntentSpot(l)' /\ Knows(l)' /\ ~At(l, "confirm")'
      BY <3>1 DEF IntentSpot, Knows, Asked, Stepping, Seen, AsWanted, At
    <3> QED BY <2>1, <3>1, <3>2, DecidedGoesOn DEF tables
  <2> QED BY <1>1, <1>3, <2>2, <2>3, VerifyIntentForm
<1>4. CASE FailIntent(l)
  <2>1. /\ UNCHANGED <<life, media, msteps, shop, air, issued>> /\ Marching(l)
        /\ lane'[l].at = "idle"
    BY <1>1, <1>4, FailIntentForm, LaneMarches
  <2>2. IntentSpot(l)' /\ Knows(l)' /\ ~At(l, "confirm")'
    BY <2>1, RestingLane
  <2>3. CASE UNCHANGED intents
    BY <2>1, <2>2, <2>3, DecidedGoesOn
  <2>4. CASE ~UNCHANGED intents
    <3> PICK i, s : i = Keep(l) /\ s = FailedIntent(intents[i].state)
      OBVIOUS
    <3>1. Restates(i, s) /\ i \in Rows(intents)
      BY <1>1, <1>4, <2>4, FailIntentForm DEF Restates
    <3>2. s = IF intents[i].state = "queued" THEN "blocked" ELSE intents[i].state
      BY DEF FailedIntent
    <3>3. Settles(i, s)
      BY <3>1, <3>2 DEF Settles, OpenStates, DecidedInv, HiddenInv
    <3>4. ~Abandoned => \A a \in air : a.op.key \notin PhotoKeys => Marker(a.op)' = "dispatched"
      BY <2>1, <3>1, <3>2, IntentSettles
    <3> QED BY <2>1, <2>2, <3>1, <3>3, <3>4, DecidedLane
  <2> QED BY <2>3, <2>4
<1>5. CASE StatusFault(l) \/ LaneCrash(l)
  <2>1. Marching(l) /\ lane'[l].at \in {"idle", "failed"} /\ UNCHANGED tables
    BY <1>1, <1>5, StatusFaultForm, CrashForm, LaneMarches
  <2>2. IntentSpot(l)' /\ Knows(l)' /\ ~At(l, "confirm")'
    BY <2>1, RestingLane
  <2> QED BY <2>1, <2>2, DecidedGoesOn DEF tables
<1> QED BY <1>2, <1>3, <1>4, <1>5

\* What a lane reads of the status.
LEMMA DecidedReads ==
  ASSUME Ground, DecidedInv, NEW l \in Lanes, \A r \in Lanes \ {l} : At(r, "idle"),
         UNCHANGED product,
         \/ LookAtStatus(l) \/ CheckPhotos(l) \/ ReadStatus(l) \/ ReviewIntent(l)
  PROVE  DecidedInv'
<1>1. /\ ShopTyped /\ ShopTypeOK /\ IntentSpot(l)
      /\ ~Abandoned => Knows(l)
  BY DEF Ground, ShopTyped, DecidedInv, IntentInv, StatusInv
<1>2. CASE LookAtStatus(l)
  <2>1. PICK r \in Lane :
          /\ Turns(l, r) /\ r.id = Keep(l) /\ r.raw = shop.status
          /\ r.review = lane[l].review /\ r.at \in {"failed", "photos", "prepare"}
          /\ r.at = "photos" => NeedsPhotos(Keep(l))
    BY <1>1, <1>2, LookForm
  <2>2. /\ UNCHANGED tables /\ Marching(l) /\ lane'[l] = r /\ Keep(l)' = Keep(l)
        /\ ~lane'[l].review
    BY <1>1, <1>2, <2>1, LookForm, LaneMarches DEF Keep, IntentSpot, At
  <2>3. IntentSpot(l)' /\ Knows(l)' /\ ~At(l, "confirm")'
    BY <2>1, <2>2 DEF IntentSpot, Knows, Asked, Stepping, Seen, AsWanted, At, tables, NeedsPhotos
  <2> QED BY <2>2, <2>3, DecidedGoesOn DEF tables
<1>3. CASE CheckPhotos(l)
  <2>1. PICK r \in Lane :
          /\ Turns(l, r) /\ r.id = Keep(l) /\ r.raw = lane[l].raw
          /\ r.review = lane[l].review
          /\ \/ r.at = "failed" \/ (r.at = "confirm" /\ lane[l].review)
             \/ (r.at = "prepare" /\ ~lane[l].review)
    BY <1>1, <1>3, CheckPhotosForm
  <2>2. /\ At(l, "photos") /\ UNCHANGED tables /\ Marching(l) /\ lane'[l] = r
        /\ Keep(l)' = Keep(l)
    BY <1>1, <1>3, <2>1, CheckPhotosForm, LaneMarches DEF Keep
  <2>3. NeedsPhotos(Keep(l)) /\ UNCHANGED <<intents, life, shop>>
    BY <1>1, <2>2 DEF IntentSpot, tables
  <2>4. IntentSpot(l)'
    BY <2>1, <2>2 DEF IntentSpot, At
  <2>5. ~Abandoned => Knows(l)'
    BY <1>1, <2>1, <2>2, <2>3 DEF Knows, Asked, Stepping, Seen, AsWanted, At
  <2>6. ~HidesNow(Keep(l))'
    BY <2>2, <2>3 DEF HidesNow, NeedsPhotos
  <2> QED BY <2>2, <2>4, <2>5, <2>6, DecidedGoesOn DEF tables
<1>4. CASE ReadStatus(l)
  <2>1. /\ At(l, "readback") /\ UNCHANGED tables /\ Marching(l) /\ Keep(l)' = Keep(l)
        /\ \/ lane'[l].at = "acknowledge" /\ shop.status = intents[Keep(l)].target
           \/ lane'[l].at = "failed"
    BY <1>1, <1>4, ReadForm, LaneMarches
  <2>2. intents[Keep(l)].state = "dispatched"
    BY <1>1, <2>1 DEF IntentSpot, At
  <2>3. IntentSpot(l)' /\ Knows(l)' /\ ~At(l, "confirm")'
    BY <2>1, <2>2 DEF IntentSpot, Knows, Asked, Stepping, Seen, AsWanted, At, tables
  <2> QED BY <2>1, <2>3, DecidedGoesOn DEF tables
<1>5. CASE ReviewIntent(l)
  <2>1. PICK i \in Rows(intents), r \in Lane :
          /\ shop.status = intents[i].target
          /\ Turns(l, r) /\ UNCHANGED tables /\ r.id = i /\ r.review
          /\ r.at = IF NeedsPhotos(i) THEN "photos" ELSE "confirm"
    BY <1>1, <1>5, ReviewIntentForm
  <2>2. Marching(l) /\ lane'[l] = r /\ Keep(l)' = i
    BY <2>1, LaneMarches DEF Keep
  <2>3. IntentSpot(l)' /\ Knows(l)'
    BY <2>1, <2>2 DEF IntentSpot, Knows, Asked, Stepping, Seen, AsWanted, At, tables, NeedsPhotos
  <2>4. HidesNow(Keep(l))' => shop.status = Off
    BY <2>1, <2>2 DEF HidesNow, tables, DecidedInv, IntentInv, Aged
  <2> QED BY <2>1, <2>2, <2>3, <2>4, DecidedGoesOn DEF tables
<1> QED BY <1>2, <1>3, <1>4, <1>5

\* An intent verified by its own transaction, or by a review, shows.
LEMMA DecidedVerifies ==
  ASSUME Ground, DecidedInv, NEW l \in Lanes, \A r \in Lanes \ {l} : At(r, "idle"),
         UNCHANGED product, AcknowledgeIntent(l) \/ ConfirmIntent(l)
  PROVE  DecidedInv'
<1> PICK i : i = Keep(l)
  OBVIOUS
<1>1. /\ ShopTyped /\ ShopTypeOK /\ IntentSpot(l) /\ IdleLane.at = "idle"
      /\ ~Abandoned => Knows(l)
  BY IdleAt DEF Ground, ShopTyped, DecidedInv, IntentInv, StatusInv
<1>2. /\ At(l, "acknowledge") \/ At(l, "confirm")
      /\ UNCHANGED <<life, media, msteps, shop, air, issued>>
      /\ \/ UNCHANGED intents /\ Stays(l, "failed")
         \/ UNCHANGED intents /\ Turns(l, IdleLane)
         \/ Restates(i, "verified") /\ FullCode(l) = "ok" /\ Turns(l, IdleLane)
  BY <1>1, AcknowledgeForm, ConfirmForm
<1>3. Marching(l) /\ lane'[l].at \in {"idle", "failed"}
  BY <1>1, <1>2, LaneMarches
<1>4. IntentSpot(l)' /\ Knows(l)' /\ ~At(l, "confirm")'
  BY <1>3, RestingLane
<1>5. CASE UNCHANGED intents
  BY <1>2, <1>3, <1>4, <1>5, DecidedGoesOn
<1>6. CASE Restates(i, "verified") /\ FullCode(l) = "ok"
  <2>1. intents[i].row = life.row /\ i \in Rows(intents) /\ Aged(i)
    BY <1>6, CodeIsCurrent DEF Restates, DecidedInv, IntentInv
  <2>2. ~Abandoned /\ intents[i].state = "dispatched" => shop.status = intents[i].target
    BY <1>1, <1>2 DEF Knows, Asked, AsWanted, At
  <2>3. HidesNow(i) => shop.status = Off
    <3>1. CASE At(l, "confirm")
      BY <3>1 DEF DecidedInv, HiddenInv
    <3>2. CASE At(l, "acknowledge")
      <4>1. HidesNow(i) => ~Abandoned
        BY <2>1, RetiredQuiet DEF Aged, Ground, DecidedInv
      <4>2. intents[i].state = "dispatched"
        BY <1>1, <3>2 DEF IntentSpot, At
      <4> QED BY <2>1, <2>2, <4>1, <4>2 DEF Aged, HidesNow
    <3> QED BY <1>2, <3>1, <3>2
  <2>4. Settles(i, "verified")
    BY <2>1, <2>3 DEF Settles, OpenStates
  <2>5. ~Abandoned => \A a \in air : a.op.key \notin PhotoKeys => Marker(a.op)' = "dispatched"
    BY <1>2, <1>6, <2>2, IntentSettles
  <2> QED BY <1>2, <1>3, <1>4, <1>6, <2>4, <2>5, DecidedLane
<1> QED BY <1>2, <1>5, <1>6

\* The second transaction decides on what the lane read: no mutation was on
\* its way then, and none came since.
LEMMA DecidedPrepares ==
  ASSUME Ground, DecidedInv, NEW l \in Lanes, \A r \in Lanes \ {l} : At(r, "idle"),
         UNCHANGED product, Prepare(l)
  PROVE  DecidedInv'
<1> PICK i : i = Keep(l)
  OBVIOUS
<1>1. /\ ShopTyped /\ ShopTypeOK /\ IdleLane.at = "idle"
      /\ ~Abandoned => Knows(l)
  BY IdleAt DEF Ground, ShopTyped, DecidedInv, StatusInv
<1>2. /\ At(l, "prepare") /\ UNCHANGED <<life, media, msteps, shop, air, issued>>
      /\ \/ UNCHANGED intents /\ (Turns(l, IdleLane) \/ Stays(l, "failed"))
         \/ /\ intents[i].state = "queued" /\ FullCode(l) = "ok"
            /\ lane[l].raw = intents[i].target /\ Restates(i, "verified")
            /\ Turns(l, IdleLane) \/ Stays(l, "failed")
         \/ /\ intents[i].state = "queued" /\ FullCode(l) = "ok"
            /\ lane[l].raw # intents[i].target /\ Restates(i, "dispatched")
            /\ Stays(l, "put") \/ Stays(l, "failed")
  BY <1>1, PrepareForm
<1>3. /\ Marching(l) /\ ~At(l, "confirm")' /\ lane'[l].at \in {"idle", "failed", "put"}
      /\ lane'[l].at = "put" => Keep(l)' = i
  BY <1>1, <1>2, LaneMarches DEF At
<1>4. lane'[l].at # "put" => IntentSpot(l)' /\ Knows(l)'
  BY <1>3, RestingLane
<1>5. CASE UNCHANGED intents /\ lane'[l].at # "put"
  BY <1>2, <1>3, <1>4, <1>5, DecidedGoesOn
<1>6. ASSUME NEW s \in {"verified", "dispatched"}, Restates(i, s), intents[i].state = "queued",
             FullCode(l) = "ok", s = "verified" <=> lane[l].raw = intents[i].target,
             lane'[l].at = "put" => s = "dispatched"
      PROVE  DecidedInv'
  <2>1. intents[i].row = life.row /\ i \in Rows(intents) /\ Aged(i)
    BY <1>6, CodeIsCurrent DEF Restates, DecidedInv, IntentInv
  <2>2. ~Abandoned => lane[l].raw = shop.status
    BY <1>1, <1>2, <1>6, <2>1 DEF Knows, Asked, Seen
  <2>3. s = "verified" /\ HidesNow(i) => shop.status = Off
    <3>1. HidesNow(i) => ~Abandoned
      BY <2>1, RetiredQuiet DEF Aged, Ground, DecidedInv
    <3> QED BY <1>6, <2>1, <2>2, <3>1 DEF Aged, HidesNow
  <2>4. Settles(i, s)
    BY <1>6, <2>1, <2>3 DEF Settles, OpenStates
  <2>5. ~Abandoned => \A a \in air : a.op.key \notin PhotoKeys => Marker(a.op)' = "dispatched"
    BY <1>2, <1>6, IntentSettles
  <2>6. IntentSpot(l)' /\ (~Abandoned => Knows(l)')
    <3>1. CASE lane'[l].at = "put"
      <4>1. intents'[i].state = "dispatched" /\ intents'[i].target = intents[i].target
        BY <1>6, <3>1 DEF Restates
      <4>2. ~Abandoned => shop'.status # intents'[i].target
        BY <1>2, <1>6, <2>2, <3>1, <4>1
      <4>3. Keep(l)' = i /\ lane'[l].at = "put"
        BY <1>3, <3>1
      <4>4. IntentSpot(l)'
        BY <4>1, <4>3 DEF IntentSpot, At
      <4>5. ~Abandoned => Knows(l)'
        BY <4>2, <4>3 DEF Knows, Asked, Stepping, Seen, AsWanted, At
      <4> QED BY <4>4, <4>5
    <3> QED BY <1>4, <3>1
  <2> QED BY <1>2, <1>3, <1>6, <2>4, <2>5, <2>6, DecidedLane
<1>7. CASE UNCHANGED intents /\ lane'[l].at = "put"
  BY <1>1, <1>2, <1>7, LaneMarches DEF Restates
<1>8. /\ Turns(l, IdleLane) => lane'[l].at # "put"
      /\ Stays(l, "failed") => lane'[l].at # "put"
  BY <1>1, LaneMarches
<1> QED BY <1>2, <1>5, <1>6, <1>7, <1>8

LEMMA DecidedPuts ==
  ASSUME Ground, DecidedInv, NEW l \in Lanes, \A r \in Lanes \ {l} : At(r, "idle"),
         UNCHANGED product, PutStatus(l)
  PROVE  DecidedInv'
<1> PICK i, act : i = Keep(l) /\ act = IF intents[i].target = On THEN "enable" ELSE "hide"
  OBVIOUS
<1>1. /\ ShopTyped /\ ShopTypeOK /\ IntentSpot(l)
      /\ ~Abandoned => Knows(l)
  BY DEF Ground, ShopTyped, DecidedInv, IntentInv, StatusInv
<1>2. /\ At(l, "put") /\ UNCHANGED <<life, intents, media, msteps, shop>>
      /\ Stays(l, "readback") /\ Emit(IntentOp(i), act)
  BY <1>1, PutForm
<1>3. /\ Marching(l) /\ lane'[l].at = "readback" /\ Keep(l)' = i
  BY <1>2, LaneMarches
<1>4. /\ i \in Rows(intents) /\ i \in IntentId /\ intents[i].state = "dispatched"
      /\ intents[i].target \in {On, Off}
  <2>1. i \in Rows(intents) /\ intents[i].state = "dispatched"
    BY <1>1, <1>2 DEF ShopTyped, Shaped, IntentSpots, IntentSpot, At
  <2>2. i \in IntentId /\ intents[i] \in Intent
    BY <1>1, <2>1, RowTypes
  <2> QED BY <2>1, <2>2 DEF Intent
<1>5. IntentSpot(l)' /\ Knows(l)' /\ ~At(l, "confirm")'
  BY <1>2, <1>3, <1>4 DEF IntentSpot, Knows, Asked, Stepping, Seen, AsWanted, At
<1>6. Goal(act) = intents[i].target
  BY <1>4 DEF Goal
<1>7. ASSUME NEW a \in air', a \notin air  PROVE Asks(a)' /\ (~Abandoned => Pending(a)')
  <2>1. a = [op |-> IntentOp(i), act |-> act]
    BY <1>2, <1>7 DEF Emit
  <2>2. a.op = IntentOp(i) /\ a.act = act /\ a.op.id = i
    BY <2>1 DEF IntentOp
  <2>3. Marker(a.op)' = "dispatched"
    BY <1>2, <1>4, <2>2 DEF Marker, IntentOp, Rows
  <2>4. ~Abandoned => shop.status # intents[i].target
    BY <1>1, <1>2 DEF Knows, Asked
  <2> QED BY <1>2, <1>6, <2>2, <2>3, <2>4 DEF Asks, Pending
<1>8. ~Abandoned => \A a \in air : a.op.key \notin PhotoKeys => Marker(a.op)' = "dispatched"
  BY <1>2, StillMarked
<1> QED BY <1>2, <1>3, <1>5, <1>7, <1>8, DecidedLane

\* A status step is done when the status is what it asks for.
LEMMA StatusEffect ==
  ASSUME shop \in Shop, NEW k \in Keys, k \notin PhotoKeys
  PROVE  /\ Effect(k) <=> shop.status = Goal(k.act)
         /\ k = StatusKey(k.act)
<1>1. k = StatusKey("hide") \/ k = StatusKey("enable")
  BY KeyFacts
<1> QED BY <1>1 DEF Effect, StatusKey, Goal

\* A step of a photo job that shows its effect has nothing on its way.
LEMMA DoneIsLanded ==
  ASSUME Ground, DecidedInv, ~Abandoned, NEW m \in MediaId, NEW k \in Keys,
         k \notin PhotoKeys, Effect(k)
  PROVE  \A a \in air : a.op # MediaOp(m, k)
<1> SUFFICES ASSUME NEW a \in air, a.op = MediaOp(m, k) PROVE FALSE
  OBVIOUS
<1>1. a.op.key = k /\ a.op.of = "media" /\ shop \in Shop
  BY DEF MediaOp, Ground, ShopTyped, ShopTypeOK
<1>2. k = StatusKey(a.act) /\ shop.status # Goal(a.act)
  BY <1>1, FlightActs DEF Ground, MediaInv, DecidedInv, StatusInv, Pending
<1>3. k.act = a.act
  BY <1>2 DEF StatusKey
<1> QED BY <1>1, <1>2, <1>3, StatusEffect

\* The steps of a photo lane that leave the steps of the job alone.
LEMMA DecidedMediaRests ==
  ASSUME Ground, Data, DecidedInv, NEW l \in Lanes, \A r \in Lanes \ {l} : At(r, "idle"),
         UNCHANGED product,
         \/ TakeMedia(l) \/ ReviewMedia(l) \/ Reopen(l) \/ FinishJob(l) \/ SucceedJob(l)
         \/ FailJob(l) \/ MediaFault(l)
  PROVE  DecidedInv'
<1>1. ShopTyped /\ ShopTypeOK /\ IdleLane.at = "idle"
  BY IdleAt DEF Ground, ShopTyped
<1>2. /\ UNCHANGED <<life, intents, msteps, shop, air>> /\ Marching(l)
      /\ lane'[l].at \in {"idle", "step", "succeed", "broken"}
  <2>1. ASSUME NEW m \in Rows(media), NEW review \in BOOLEAN, EnterJob(l, m, review)
        PROVE  /\ UNCHANGED <<life, intents, msteps, shop, air>> /\ Marching(l)
               /\ lane'[l].at \in {"step", "broken"}
    BY <1>1, <2>1, EnterForm, LaneMarches
  <2>2. CASE TakeMedia(l)
    BY <2>1, <2>2 DEF TakeMedia
  <2>3. CASE ReviewMedia(l)
    <3> PICK m : m = CurrentSet
      OBVIOUS
    <3>1. m \in Rows(media) /\ EnterJob(l, m, TRUE)
      BY <1>1, <2>3, CurrentSetIs DEF ReviewMedia
    <3> QED BY <2>1, <3>1
  <2>4. CASE Reopen(l) \/ SucceedJob(l) \/ FailJob(l)
    BY <1>1, <2>4, ReopenForm, SucceedForm, FailJobForm, LaneMarches
  <2>5. CASE FinishJob(l) \/ MediaFault(l)
    BY <1>1, <2>5, FinishForm, MediaFaultForm, LaneMarches DEF tables
  <2> QED BY <2>2, <2>3, <2>4, <2>5
<1>3. IntentSpot(l)' /\ Knows(l)' /\ ~At(l, "confirm")'
  BY <1>2, RestingLane
<1> QED BY <1>2, <1>3, DecidedGoesOn

\* The decisions about a step, on the status it shows.
LEMMA DecidedSteps ==
  ASSUME Ground, DecidedInv, NEW l \in Lanes, \A r \in Lanes \ {l} : At(r, "idle"),
         UNCHANGED product, DecideStep(l) \/ RecheckEnable(l) \/ CheckStep(l)
  PROVE  DecidedInv'
<1> PICK m, k : m = Keep(l) /\ k = lane'[l].key
  OBVIOUS
<1>1. ShopTyped /\ ShopTypeOK /\ shop \in Shop
  BY DEF Ground, ShopTyped, ShopTypeOK
<1>2. /\ m \in MediaId /\ UNCHANGED tables /\ Marching(l)
      /\ \/ lane'[l].at \in {"step", "reopen", "check", "broken"}
         \/ /\ k \in Keys /\ Keep(l)' = m
            /\ \/ lane'[l].at = "seal" /\ Effect(k)
               \/ lane'[l].at = "mark" /\ ~Effect(k)
               \/ lane'[l].at = "send" /\ k = StatusKey("enable") /\ shop.status = Off
  <2>1. CASE DecideStep(l)
    <3>1. m \in MediaId /\ UNCHANGED tables
      BY <1>1, <2>1, DecideForm, MediaLane DEF At, MediaSpots
    <3>2. PICK q \in Keys :
            \/ Stays(l, "broken")
            \/ Effect(q) /\ Holds(l, "seal", q, lane[l].done)
            \/ Holds(l, "step", NoPhoto, lane[l].done \cup {q})
            \/ ~Effect(q) /\ Holds(l, "reopen", q, lane[l].done)
            \/ ~Effect(q) /\ Holds(l, "mark", q, lane[l].done)
      BY <1>1, <2>1, DecideForm
    <3> QED BY <3>1, <3>2, LaneMarches
  <2>2. CASE RecheckEnable(l)
    <3>1. /\ m \in MediaId /\ UNCHANGED tables /\ lane[l].key = StatusKey("enable")
          /\ lane[l].key \in Keys
      BY <1>1, <2>2, RecheckForm, MediaLane DEF At, MediaSpots, KeySpots, ShopTyped, Shaped
    <3> QED BY <1>1, <2>2, <3>1, RecheckForm, LaneMarches
  <2>3. CASE CheckStep(l)
    <3>1. m \in MediaId /\ UNCHANGED tables /\ lane[l].key \in Keys
      BY <1>1, <2>3, CheckForm, MediaLane DEF At, MediaSpots, KeySpots
    <3> QED BY <1>1, <2>3, <3>1, CheckForm, LaneMarches
  <2> QED BY <2>1, <2>2, <2>3
<1>3. CASE lane'[l].at \in {"step", "reopen", "check", "broken"}
  <2>1. IntentSpot(l)' /\ Knows(l)' /\ ~At(l, "confirm")'
    BY <1>3, RestingLane
  <2> QED BY <1>2, <2>1, DecidedGoesOn DEF tables
<1>4. CASE /\ k \in Keys /\ Keep(l)' = m
           /\ \/ lane'[l].at = "seal" /\ Effect(k)
              \/ lane'[l].at = "mark" /\ ~Effect(k)
              \/ lane'[l].at = "send" /\ k = StatusKey("enable") /\ shop.status = Off
  <2>1. ASSUME ~Abandoned, k \notin PhotoKeys
        PROVE  /\ lane'[l].at \in {"mark", "send"} => shop.status # Goal(k.act)
               /\ lane'[l].at = "seal" => \A a \in air : a.op # MediaOp(m, k)
    <3>1. StatusKey("enable").act = "enable" /\ Goal("enable") # Off
      BY DEF StatusKey, Goal, On, Off
    <3>2. Effect(k) <=> shop.status = Goal(k.act)
      BY <1>1, <1>4, <2>1, StatusEffect
    <3>3. Effect(k) => \A a \in air : a.op # MediaOp(m, k)
      BY <1>2, <1>4, <2>1, DoneIsLanded
    <3> QED BY <1>4, <3>1, <3>2, <3>3
  <2>2. /\ IntentSpot(l)' /\ ~At(l, "confirm")' /\ ~Seen(l)' /\ ~AsWanted(l)' /\ ~At(l, "put")'
    BY <1>4 DEF IntentSpot, Seen, AsWanted, At
  <2>3. ~Abandoned => Knows(l)'
    <3> SUFFICES ASSUME ~Abandoned PROVE Asked(l)' /\ Stepping(l)'
      BY DEF Knows
    <3>1. Asked(l)'
      BY <2>2 DEF Asked
    <3>2. UNCHANGED <<shop, air>>
      BY <1>2 DEF tables
    <3>3. Stepping(l)'
      BY <1>4, <2>1, <3>2 DEF Stepping, At
    <3> QED BY <3>1, <3>3
  <2> QED BY <1>2, <2>2, <2>3, DecidedGoesOn DEF tables
<1> QED BY <1>2, <1>3, <1>4

\* A step of the open job gets its marker, or is verified.
LEMMA DecidedMarks ==
  ASSUME Ground, DecidedInv, NEW l \in Lanes, \A r \in Lanes \ {l} : At(r, "idle"),
         UNCHANGED product, MarkStep(l) \/ SealStep(l)
  PROVE  DecidedInv'
<1> PICK m, k : m = Keep(l) /\ k = lane[l].key
  OBVIOUS
<1>1. /\ ShopTyped /\ ShopTypeOK /\ LedgerInv
      /\ ~Abandoned => Knows(l) /\ \A a \in air : Pending(a) /\ issued[a.op] # 0 /\ a.op \in Ops
  BY FlightActs DEF Ground, ShopTyped, DecidedInv, StatusInv, MediaInv
<1>2. /\ m \in MediaId /\ k \in Keys /\ (At(l, "mark") \/ At(l, "seal"))
      /\ UNCHANGED <<life, intents, media, shop, air, issued>>
  <2>1. At(l, "mark") \/ At(l, "seal")
    BY <1>1, MarkForm, SealForm
  <2>2. m \in MediaId /\ k \in Keys
    BY <1>1, <2>1, MediaLane DEF At, MediaSpots, KeySpots
  <2> QED BY <1>1, <2>1, <2>2, MarkForm, SealForm
<1>3. /\ Marching(l) /\ (UNCHANGED msteps \/ \E v : Steps(m, k, v))
      /\ \/ lane'[l].at \in {"broken", "step", "recheck"}
         \/ At(l, "mark") /\ lane'[l].at = "send" /\ Keep(l)' = m /\ lane'[l].key = k
  <2>1. CASE MarkStep(l)
    <3>1. /\ At(l, "mark") /\ (UNCHANGED msteps \/ \E v : Steps(m, k, v))
          /\ Stays(l, "broken") \/ Stays(l, "recheck") \/ Stays(l, "send")
      BY <1>1, <2>1, MarkForm
    <3> QED BY <3>1, LaneMarches
  <2>2. CASE SealStep(l)
    <3>1. /\ UNCHANGED msteps \/ \E v : Steps(m, k, v)
          /\ Stays(l, "broken") \/ Holds(l, "step", NoPhoto, lane[l].done \cup {k})
      BY <1>1, <2>2, SealForm
    <3> QED BY <3>1, LaneMarches
  <2> QED BY <2>1, <2>2
\* Nothing of this step is on its way: it was not marked, or it was seen done.
<1>4. ASSUME ~Abandoned, NEW a \in air, a.op.key \notin PhotoKeys
      PROVE  Marker(a.op)' = "dispatched"
  <2>1. Marker(a.op) = "dispatched" /\ a.op \in Ops
    BY <1>1, <1>4 DEF Pending
  <2>2. CASE UNCHANGED msteps
    BY <1>2, <2>1, <2>2 DEF Marker
  <2>3. ASSUME NEW v, Steps(m, k, v)  PROVE Marker(a.op)' = "dispatched"
    <3>1. CASE a.op # MediaOp(m, k)
      BY <1>1, <1>2, <2>1, <2>3, <3>1, StepMarks
    <3>2. CASE a.op = MediaOp(m, k)
      <4>1. a.op.key = k /\ msteps[m][k] = "dispatched"
        BY <2>1, <3>2, MarksAre DEF MediaOp
      <4>2. CASE SealStep(l)
        BY <1>1, <1>4, <3>2, <4>1, <4>2, SealForm DEF Knows, Stepping
      <4>3. CASE MarkStep(l)
        <5>1. UNCHANGED msteps
          BY <1>1, <4>1, <4>3, MarkForm
        <5> QED BY <2>2, <5>1
      <4> QED BY <4>2, <4>3
    <3> QED BY <3>1, <3>2
  <2> QED BY <1>3, <2>2, <2>3
<1>5. IntentSpot(l)' /\ ~At(l, "confirm")' /\ (~Abandoned => Knows(l)')
  <2>1. CASE lane'[l].at \in {"broken", "step", "recheck"}
    BY <2>1, RestingLane
  <2>2. CASE At(l, "mark") /\ lane'[l].at = "send" /\ Keep(l)' = m /\ lane'[l].key = k
    BY <1>1, <1>2, <2>2 DEF IntentSpot, Knows, Asked, Stepping, Seen, AsWanted, At
  <2> QED BY <1>3, <2>1, <2>2
<1> QED BY <1>2, <1>3, <1>4, <1>5, DecidedLane

\* A step that leaves for Magento would change what it shows.
LEMMA DecidedSends ==
  ASSUME Ground, DecidedInv, NEW l \in Lanes, \A r \in Lanes \ {l} : At(r, "idle"),
         UNCHANGED product, SendStep(l)
  PROVE  DecidedInv'
<1> PICK m, k : m = Keep(l) /\ k = lane[l].key
  OBVIOUS
<1>1. /\ ShopTyped /\ ShopTypeOK /\ MediaInv
      /\ ~Abandoned => Knows(l)
  BY DEF Ground, ShopTyped, DecidedInv, StatusInv
<1>2. /\ At(l, "send") /\ UNCHANGED <<life, intents, media, msteps, shop>>
      /\ Emit(MediaOp(m, k), k.act) /\ Stays(l, "check")
  BY <1>1, SendForm
<1>3. m \in MediaId /\ k \in Keys /\ msteps[m][k] = "dispatched"
  <2>1. m \in MediaId /\ k \in Keys /\ Work(lane[l], m)
    BY <1>1, <1>2, MediaLane DEF At, MediaSpots, KeySpots, MediaInv, Works, AtWork
  <2>2. Handles(lane[l], m, k) /\ lane[l].at = "send"
    BY <1>2, <2>1 DEF Work, KeySpots, At
  <2> QED BY <2>1, <2>2 DEF Handles
<1>4. Marching(l) /\ lane'[l].at = "check"
  BY <1>2, LaneMarches
<1>5. IntentSpot(l)' /\ Knows(l)' /\ ~At(l, "confirm")'
  BY <1>4, RestingLane
<1>6. ASSUME NEW a \in air', a \notin air  PROVE Asks(a)' /\ (~Abandoned => Pending(a)')
  <2>1. a = [op |-> MediaOp(m, k), act |-> k.act]
    BY <1>2, <1>6 DEF Emit
  <2>2. a.op = MediaOp(m, k) /\ a.act = k.act /\ a.op.of = "media" /\ a.op.key = k
    BY <2>1 DEF MediaOp
  <2>3. Marker(a.op)' = "dispatched"
    BY <1>2, <1>3, <2>2 DEF Marker, MediaOp
  <2>4. ~Abandoned /\ k \notin PhotoKeys => shop.status # Goal(k.act)
    BY <1>1, <1>2 DEF Knows, Stepping, At
  <2> QED BY <1>2, <2>2, <2>3, <2>4 DEF Asks, Pending
<1>7. ~Abandoned => \A a \in air : a.op.key \notin PhotoKeys => Marker(a.op)' = "dispatched"
  BY <1>2, StillMarked
<1> QED BY <1>2, <1>4, <1>5, <1>6, <1>7, DecidedLane

-----------------------------------------------------------------------------
\* The status over every step.

LEMMA DecidedInit == ShopInit => DecidedInv
<1> SUFFICES ASSUME ShopInit PROVE DecidedInv
  OBVIOUS
<1>1. /\ Rows(intents) = {} /\ air = {} /\ product.active
      /\ \A l \in Lanes : lane[l].at = "idle"
  BY DEF ShopInit, Rows, IdleLane, InitialProduct
<1>2. IntentInv
  BY <1>1 DEF IntentInv, Gapless, OneIntent, Retired, OpenIntents, IntentSpot, At
<1>3. StatusInv
  BY <1>1 DEF StatusInv, Knows, Asked, Stepping, Seen, AsWanted, At
<1>4. HiddenInv
  BY <1>1 DEF HiddenInv, At
<1> QED BY <1>2, <1>3, <1>4 DEF DecidedInv

LEMMA DecidedNext ==
  ASSUME NoForeign, Ground, DecidedInv, [ShopNext]_allVars
  PROVE  DecidedInv'
<1>1. /\ SyncInv /\ SyncInv' /\ ShopTyped /\ Excl /\ Data /\ Data'
  BY SyncShopNext DEF Ground, SyncInv, Base, IInv, Typed
<1>2. CASE UNCHANGED shopVars /\ product'.active = product.active
  BY <1>2, DecidedNative
<1>3. CASE Decision
  BY <1>1, <1>3, DecidedDecision
<1>4. CASE Weather
  BY <1>4, DecidedWeather
<1>5. ASSUME NEW l \in Lanes, Lane_(l)  PROVE DecidedInv'
  <2>1. \A r \in Lanes \ {l} : At(r, "idle")
    BY <1>1, <1>5, OthersIdle
  <2>2. UNCHANGED product
    BY <1>1, <1>5, LaneBeside DEF Aside, Cancels, nativeVars
  <2>3. CASE \/ TakeIntent(l) \/ Visibility(l) \/ ReviewIntent(l) \/ StatusFault(l)
             \/ LaneCrash(l)
    BY <2>1, <2>2, <2>3, DecidedRests, DecidedReads, DecidedVerifies, DecidedPrepares,
       DecidedPuts DEF Visibility
  <2>4. CASE TakeMedia(l) \/ ReviewMedia(l) \/ DeliverMedia(l) \/ MediaFault(l)
    BY <1>1, <2>1, <2>2, <2>4, DecidedMediaRests, DecidedSteps, DecidedMarks, DecidedSends
       DEF DeliverMedia
  <2> QED BY <1>5, <2>3, <2>4 DEF Lane_, LaneStep
<1> QED BY <1>1, <1>2, <1>3, <1>4, <1>5, ActiveCases

LEMMA DecidedBasis ==
  ASSUME NoLoss, NoForeign
  PROVE  ShopSpec => [](Ground /\ DecidedInv)
<1>1. Ground /\ DecidedInv /\ [ShopNext]_allVars => DecidedInv'
  BY DecidedNext
<1>2. ShopSpec => []LedgerInv
  <2>1. SyncInv /\ ShopTyped /\ LedgerInv /\ [ShopNext]_allVars => LedgerInv'
    BY LedgerInvNext
  <2> QED BY <2>1, LedgerInvInit, ShopBasis, PTL DEF ShopSpec
<1>3. SyncInv /\ ShopTyped /\ AuthorityInv /\ LedgerInv /\ PinnedInv /\ Excl /\ MediaInv
        <=> Ground
  BY DEF Ground
<1>4. ShopSpec => []Ground
  BY <1>2, <1>3, ShopBasis, AuthorityBasis, PinnedBasis, MediaBasis, PTL
<1> QED BY <1>1, <1>4, DecidedInit, PTL DEF ShopSpec

\* Nothing of the shop is called verified while its mutation may still arrive:
\* no PUT of an intent and no step of a photo job outlives the transaction
\* that says it was done, through faults, crashes, archives, restores and
\* reviews, unless a recount left a visibility change of the earlier row open.
THEOREM InFlightUnresolved ==
  ASSUME NoLoss, NoForeign
  PROVE  ShopSpec => []InFlightIsUnresolved
<1>1. Ground /\ DecidedInv => InFlightIsUnresolved
  <2> SUFFICES ASSUME Ground, DecidedInv, ~Orphan, NEW a \in air
               PROVE  Marker(a.op) = "dispatched"
    BY DEF InFlightIsUnresolved
  <2>1. ~Abandoned
    BY DEF Orphan, Abandoned, OpenIntents
  <2>2. a.op \in Ops /\ Flies(a) /\ Pending(a)
    BY <2>1, FlightActs DEF Ground, MediaInv, Flights, DecidedInv, StatusInv
  <2>3. CASE a.op.key \in PhotoKeys
    BY <2>2, <2>3, OpKinds DEF Flies, Marker
  <2>4. CASE a.op.key \notin PhotoKeys
    BY <2>2, <2>4 DEF Pending
  <2> QED BY <2>3, <2>4
<1> QED BY <1>1, DecidedBasis, PTL

\* An archived product whose hiding was confirmed stays hidden: while nothing
\* newer is decided, neither the PUT of an earlier restore nor the enabling of
\* a photo job arrives late, or is still on its way.
THEOREM ArchivedStaysHidden ==
  ASSUME NoLoss, NoForeign
  PROVE  ShopSpec => []HiddenWhileArchived
<1>1. Ground /\ DecidedInv => HiddenWhileArchived
  <2> SUFFICES ASSUME Ground, DecidedInv, ~product.active, NEW h, h = Hide, h # 0,
                      intents[h].state = "verified", intents[h].print = FingerprintNow
               PROVE  shop.status = Off /\ \A a \in air : a.act # "enable"
    BY DEF HiddenWhileArchived
  <2> DEFINE hides == {i \in Rows(intents) : intents[i].kind = "hide" /\ intents[i].row = life.row}
  <2>1. h = (IF hides = {} THEN 0 ELSE Newest(hides)) /\ hides # {}
    BY DEF Hide
  <2>2. hides \subseteq 1..MaxIntents /\ MaxIntents \in Nat
    BY RowTypes, ShopAssumption DEF Ground, ShopTyped, IntentId
  <2> HIDE DEF hides
  <2>3. Newest(hides) \in hides
    BY <2>1, <2>2, NewestOf
  <2>4. h \in Rows(intents) /\ HidesNow(h)
    BY <2>1, <2>3 DEF hides, HidesNow, FingerprintNow
  <2>5. shop.status = Off
    BY <2>4 DEF DecidedInv, HiddenInv
  <2>6. ASSUME NEW a \in air  PROVE a.act # "enable"
    <3>1. CASE a.op.key \in PhotoKeys
      BY <3>1, FlightActs DEF Ground, MediaInv
    <3>2. CASE a.op.key \notin PhotoKeys
      <4>1. Goal(a.act) = Off
        BY <3>2, RetiredQuiet DEF Ground, DecidedInv
      <4> QED BY <4>1 DEF Goal, On, Off
    <3> QED BY <3>1, <3>2
  <2> QED BY <2>5, <2>6
<1> QED BY <1>1, DecidedBasis, PTL
=============================================================================
