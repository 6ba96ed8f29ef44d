----------------------------- MODULE ShopProofs ------------------------------
(***************************************************************************)
(* Proofs about ProductShop, for any number of workers, people, lanes,     *)
(* photographs, intents, media jobs and events, lost sessions included:    *)
(* what MagentoSync proves of the native side goes on holding beside the   *)
(* shop, every variable has its type, no status or gallery mutation leaves *)
(* twice, and a visibility change and a photo set of one row are never     *)
(* under way together.                                                     *)
(***************************************************************************)
EXTENDS ProductShop, SyncDeliveryProofs

-----------------------------------------------------------------------------
\* The native side beside the shop.

SyncInv == Base /\ DeliveryInv

\* The steps of ShopNext by what they do to the native side: a step of
\* MagentoSync, a person's decision, a lane, or Magento.
NativeStep == [Next]_vars /\ UNCHANGED shopVars
Decision   == SavePhotos \/ Archive \/ Restore \/ Recount
Weather    == Arrive \/ Vanish \/ ForeignStatus

LEMMA ShopCases ==
  ASSUME [ShopNext]_allVars
  PROVE  NativeStep \/ Decision \/ Weather \/ \E l \in Lanes : Lane_(l)
<1>1. CASE UNCHANGED allVars
  BY <1>1 DEF allVars, NativeStep
<1>2. CASE Native \/ FencedHandoff \/ ShopQuiet \/ \E w \in Workers : PollAfterHandoffs(w)
  BY <1>2 DEF Native, FencedHandoff, ShopQuiet, PollAfterHandoffs, NativeStep, Next,
     Environment
<1>3. CASE People
  BY <1>3 DEF People, FencedEdit, NativeStep, Next, Environment, Decision
<1> QED BY <1>1, <1>2, <1>3 DEF ShopNext, Weather

\* Steps that leave the native side alone but for its locks and budgets.
Aside == /\ UNCHANGED <<nativeVars, jobs, request>>
         /\ UNCHANGED spent \/ \E kind \in Kinds : Spend(kind)

LEMMA AsideKeeps ==
  ASSUME SyncInv, Aside
  PROVE  SyncInv'
<1>1. Data /\ UNCHANGED <<pc, loc, jobs, steps, request, gate, product, acked>>
  BY SplitType DEF SyncInv, Base, IInv, Aside, nativeVars, historyVars
<1>2. spent' \in [Kinds -> Nat]
  BY <1>1, SpendType DEF Aside, Data
<1>3. Data' /\ Grown /\ UNCHANGED sent
  BY <1>1, <1>2, DataSame DEF Aside, nativeVars, amberVars, ledgerVars
<1>4. IInv'
  BY <1>1, <1>3, OutsideStep DEF SyncInv, Base
<1>5. RequestInv'
  BY <1>1 DEF SyncInv, Base, RequestInv, RequestChecks, GensKnown
<1>6. StepRows' /\ RowsKept /\ StepsGrow
  BY <1>1, RowsMoved DEF SyncInv, Base, StepInv
<1>7. StepInv'
  BY <1>1, <1>6, ProgressKept DEF SyncInv, Base, StepInv
<1>8. DeliveryInv'
  BY <1>1, CalmStep DEF SyncInv
<1> QED BY <1>4, <1>5, <1>7, <1>8 DEF SyncInv, Base

\* A person changes the product: the trigger asks for a new generation.
Changed == /\ product' \in Product /\ RequestSync
           /\ gate' => product'.input = product.input \/ request' = Bump(request)
           /\ UNCHANGED <<published, gate, handoff, ledgerVars, magentoVars, pc,
                          loc, historyVars>>
           /\ UNCHANGED spent \/ \E kind \in Kinds : Spend(kind)

LEMMA ChangedKeeps ==
  ASSUME SyncInv, Changed
  PROVE  SyncInv'
<1>1. /\ Data /\ Control /\ IInv /\ RowChecked(request) /\ request \in Request
      /\ request.desired \in Nat /\ request.desired <= request.desired
      /\ UNCHANGED <<pc, loc, jobs, steps, gate, acked, sent>>
  BY SplitType, RowChecks DEF SyncInv, Base, IInv, Data, Request, Changed,
     historyVars, ledgerVars, magentoVars
<1>2. "none" \in Reasons /\ 1 \in JobId \cup {1}
  BY DEF Reasons
<1>3. /\ Bump(request) \in Request /\ Bump(request).active = request.active
      /\ RowChecked(Bump(request)) /\ request.desired <= Bump(request).desired
  <2>1. Bump(request) \in Request /\ Bump(request).active = request.active
    <3> DEFINE d == request.desired + 1
               s == request.reason = "reconciliation_required"
    <3>1. d \in Nat
      BY <1>1
    <3>2. Bump(request) = [request EXCEPT !.desired = d,
                             !.state = IF s THEN "needs_attention" ELSE "pending",
                             !.reason = IF s THEN request.reason ELSE "none"]
      BY DEF Bump
    <3> HIDE DEF d, s
    <3> QED BY <1>1, <3>1, <3>2 DEF Request, Reasons
  <2> QED BY <1>1, <2>1, StatementsChecked
<1>4. /\ request' \in Request /\ request'.active = request.active
      /\ RowChecked(request') /\ request.desired <= request'.desired
  BY <1>1, <1>3 DEF Changed, RequestSync
<1>5. spent' \in [Kinds -> Nat]
  BY <1>1, SpendType DEF Changed, Data
<1>6. Data' /\ Grown
  BY <1>1, <1>4, <1>5 DEF Changed, Data, Grown, Exists, ledgerVars, magentoVars,
     historyVars
<1>7. IInv'
  BY <1>1, <1>6, OutsideStep
<1>8. RequestInv'
  <2>1. \A p \in Proc : loc[p].gen \in Nat /\ loc[p].activeGen \in Nat
    BY <1>1 DEF Control, Local
  <2>2. request'.desired \in Nat
    BY <1>4 DEF Request
  <2>3. GensKnown'
    BY <1>1, <1>4, <2>1, <2>2 DEF SyncInv, Base, RequestInv, GensKnown
  <2> QED BY <1>4, <2>3 DEF RequestInv, RequestChecks, RowChecked
<1>9. StepInv'
  <2>1. StepRows' /\ RowsKept /\ StepsGrow
    BY <1>1, RowsMoved DEF SyncInv, Base, StepInv
  <2> QED BY <1>1, <2>1, ProgressKept DEF SyncInv, Base, StepInv
<1>10. DeliveryInv'
  <2>1. CASE request' = Bump(request)
    BY <1>1, <2>1, NewGeneration DEF SyncInv
  <2>2. CASE request' # Bump(request)
    <3>1. UNCHANGED request /\ ~gate
      BY <2>2 DEF Changed, RequestSync
    <3> QED BY <1>1, <3>1, CalmStep DEF SyncInv
  <2> QED BY <2>1, <2>2
<1> QED BY <1>7, <1>8, <1>9, <1>10 DEF SyncInv, Base

LEMMA DecisionSteps ==
  ASSUME SyncInv, Decision
  PROVE  Aside \/ Changed
<1>1. product \in Product /\ "edit" \in Kinds
  BY SplitType DEF SyncInv, Base, IInv, Data, Kinds
<1>2. CASE SavePhotos
  BY <1>2 DEF SavePhotos, Aside, nativeVars, amberFrame, ledgerVars
<1>3. CASE Archive
  <2>1. product' = [product EXCEPT !.active = FALSE]
    BY <1>3 DEF Archive
  <2>2. product' \in Product /\ product'.input = product.input
    BY <1>1, <2>1 DEF Product
  <2> QED BY <1>3, <2>2 DEF Archive, Changed, amberFrame
<1>4. CASE Restore
  <2>1. product' = [product EXCEPT !.active = TRUE]
    BY <1>4 DEF Restore
  <2>2. product' \in Product /\ product'.input = product.input
    BY <1>1, <2>1 DEF Product
  <2> QED BY <1>4, <2>2 DEF Restore, Changed, amberFrame
<1>5. CASE Recount
  <2>1. PICK i \in Inputs : product' = [product EXCEPT !.input = i]
    BY <1>5 DEF Recount
  <2>2. product' \in Product
    BY <1>1, <2>1 DEF Product
  <2>3. UNCHANGED gate /\ (gate => request' = Bump(request))
    BY <1>5 DEF Recount, RequestSync, amberFrame
  <2> QED BY <1>1, <1>5, <2>2, <2>3 DEF Recount, Changed, amberFrame
<1> QED BY <1>2, <1>3, <1>4, <1>5 DEF Decision

-----------------------------------------------------------------------------
\* Lanes.

\* A verified hide supersedes the jobs of the row that left no trace.
Cancels == /\ UNCHANGED nativeVars /\ \E i \in Rows(intents) : CancelNative(i)
           /\ UNCHANGED spent \/ \E kind \in Kinds : Spend(kind)

LEMMA CancelKeeps ==
  ASSUME SyncInv, Cancels
  PROVE  SyncInv'
<1>1. /\ Data /\ Control /\ IInv /\ RowChecked(request) /\ request \in Request
      /\ jobs \in [JobId -> Job \cup {NoRow}] /\ OneLane /\ StepRows
      /\ UNCHANGED <<pc, loc, steps, gate, acked, sent, product>>
  BY SplitType, RowChecks DEF SyncInv, Base, IInv, Data, Cancels, StepInv, StepRows,
     nativeVars, historyVars, magentoVars
<1>2. CASE UNCHANGED <<jobs, request>>
  BY <1>2, AsideKeeps DEF Cancels, Aside
<1>3. CASE ~UNCHANGED <<jobs, request>>
  <2>1. /\ Cancelable # {}
        /\ jobs' = [k \in JobId |->
             IF k \in Cancelable THEN [jobs[k] EXCEPT !.state = "superseded"]
             ELSE jobs[k]]
        /\ \/ UNCHANGED request
           \/ request' = [request EXCEPT !.active = NoJob, !.activeGen = 0,
                            !.state = "needs_attention", !.reason = "product_retired"]
    BY <1>3 DEF Cancels, CancelNative
  <2>2. PICK j \in Cancelable : TRUE
    BY <2>1
  <2>3. j \in Unfinished /\ j \in JobId /\ jobs[j] \in Job /\ Cancelable = {j}
        /\ Exists(j) /\ jobs[j].state \notin Finished
    BY <1>1, <2>2 DEF Cancelable, Unfinished, Created, Exists, OneLane
  <2>4. PICK r \in Job : /\ r = [jobs[j] EXCEPT !.state = "superseded"]
                         /\ r.state = "superseded" /\ r.auto = jobs[j].auto
                         /\ r.amber = jobs[j].amber /\ r.ops = jobs[j].ops
                         /\ r.base = jobs[j].base
    <3> DEFINE b == jobs[j]
               r == [b EXCEPT !.state = "superseded"]
    <3>1. b \in Job
      BY <2>3
    <3> HIDE DEF b
    <3>2. /\ r \in Job /\ r.state = "superseded" /\ r.auto = b.auto
          /\ r.amber = b.amber /\ r.ops = b.ops /\ r.base = b.base
      BY <3>1 DEF Job, JobStates
    <3> QED BY <3>2 DEF b
  <2>5. \A k \in JobId : jobs'[k] = IF k = j THEN r ELSE jobs[k]
    BY <2>1, <2>3, <2>4
  <2>6. Rewrites(j, "superseded")
    BY <2>3, <2>4, <2>5, JobIsNoRow DEF Rewrites
  <2>7. jobs' \in [JobId -> Job \cup {NoRow}]
    BY <1>1, <2>1, <2>4, <2>5
  <2>8. /\ request' \in Request /\ RowChecked(request')
        /\ request'.active \in {request.active, NoJob}
        /\ request'.desired = request.desired
        /\ UNCHANGED request \/ Quieter(request')
    <3> DEFINE dropped == [request EXCEPT !.active = NoJob, !.activeGen = 0,
                             !.state = "needs_attention", !.reason = "product_retired"]
    <3>1. /\ dropped \in Request /\ dropped.active = NoJob /\ dropped.activeGen = 0
          /\ dropped.desired = request.desired /\ dropped.synced = request.synced
          /\ dropped.state = "needs_attention"
      BY <1>1 DEF Request, Reasons
    <3>2. request' = request \/ request' = dropped
      BY <2>1
    <3> HIDE DEF dropped
    <3>3. RowChecked(dropped) /\ Quieter(dropped)
      BY <1>1, <3>1 DEF RowChecked, Request, Quieter
    <3> QED BY <1>1, <3>1, <3>2, <3>3
  <2>9. spent' \in [Kinds -> Nat]
    BY <1>1, SpendType DEF Cancels, Data
  <2>10. Data'
    BY <1>1, <2>7, <2>8, <2>9 DEF Data, Cancels, nativeVars, magentoVars, historyVars
  <2>11. \A k \in JobId : Exists(k) => Exists(k)'
    BY <2>6 DEF Rewrites, Exists
  <2>12. Grown
    BY <1>1, <2>8, <2>11 DEF Grown, Cancels, nativeVars, magentoVars
  <2>13. IInv'
    BY <1>1, <2>10, <2>12, OutsideStep
  <2>14. RequestInv'
    BY <1>1, <2>8 DEF SyncInv, Base, RequestInv, RequestChecks, GensKnown, RowChecked
  <2>15. StepInv'
    <3>1. StepRows' /\ RowsKept /\ StepsGrow
      BY <1>1, <2>3, <2>6, RowsMoved
    <3> QED BY <1>1, <3>1, ProgressKept DEF SyncInv, Base, StepInv
  <2>16. DeliveryInv'
    <3>1. RowsMove(NoProc) /\ Steady /\ Others(NoProc) /\ NoProc \notin Workers
      BY <1>1, <2>3, <2>6, <2>8, ProcAssumption DEF RowsMove, Steady, Others, Proc
    <3>2. Kept /\ AutoKnown' /\ (RowsOk => RowsOk')
      BY <3>1, RowsKeep DEF SyncInv
    <3>3. RequestOk => RequestOk'
      BY <2>8, <3>1, <3>2, RequestKept DEF SyncInv
    <3>4. (\A q \in Workers : WorkerOk(q)) => \A q \in Workers : WorkerOk(q)'
      BY <3>1, <3>2, OtherWorkers DEF SyncInv
    <3> QED BY <1>1, <3>2, <3>3, <3>4 DEF SyncInv, DeliveryInv, Deliveries
  <2> QED BY <2>13, <2>14, <2>15, <2>16 DEF SyncInv, Base
<1> QED BY <1>2, <1>3

\* What a lane does to the native side.
LEMMA LaneSteps ==
  ASSUME NEW l \in Lanes, Lane_(l),
         \A r \in Lanes : lane[r].at \in {"verify", "prepare", "acknowledge", "confirm"}
                            => Keep(r) \in Rows(intents)
  PROVE  Aside \/ Cancels
<1>1. {"fault", "crash", "command"} \subseteq Kinds
  BY DEF Kinds
<1>2. UNCHANGED <<nativeVars>> /\ (UNCHANGED spent \/ \E kind \in Kinds : Spend(kind))
  BY <1>1 DEF Lane_, TakeIntent, TakeMedia, LaneStep, ReviewIntent, ReviewMedia,
     StatusFault, MediaFault, LaneCrash, Visibility, DeliverMedia, VerifyIntent,
     LookAtStatus, CheckPhotos, Prepare, PutStatus, ReadStatus, AcknowledgeIntent,
     FailIntent, ConfirmIntent, DecideStep, Reopen, MarkStep, RecheckEnable,
     SendStep, CheckStep, SealStep, FinishJob, SucceedJob, FailJob, EnterJob,
     visFrame, mediaFrame, rowVars
<1>3. UNCHANGED <<jobs, request>> \/ \E i \in Rows(intents) : CancelNative(i)
  <2>1. CASE VerifyIntent(l) \/ Prepare(l) \/ AcknowledgeIntent(l) \/ ConfirmIntent(l)
    BY <2>1 DEF VerifyIntent, Prepare, AcknowledgeIntent, ConfirmIntent, At
  <2>2. CASE ~(VerifyIntent(l) \/ Prepare(l) \/ AcknowledgeIntent(l) \/ ConfirmIntent(l))
    BY <2>2 DEF Lane_, TakeIntent, TakeMedia, LaneStep, ReviewIntent, ReviewMedia,
     StatusFault, MediaFault, LaneCrash, Visibility, DeliverMedia,
     LookAtStatus, CheckPhotos, PutStatus, ReadStatus,
     FailIntent, DecideStep, Reopen, MarkStep, RecheckEnable,
     SendStep, CheckStep, SealStep, FinishJob, SucceedJob, FailJob, EnterJob,
     visFrame, mediaFrame, rowVars
  <2> QED BY <2>1, <2>2
<1> QED BY <1>2, <1>3 DEF Aside, Cancels

LEMMA WeatherSteps ==
  ASSUME Weather
  PROVE  Aside
BY DEF Weather, Arrive, Vanish, ForeignStatus, Aside, vars, nativeVars, amberVars,
   ledgerVars, historyVars, Kinds

LEMMA NativeKeeps ==
  ASSUME SyncInv, [Next]_vars
  PROVE  SyncInv'
BY NextLemma, RequestNext, StepNext, DeliveryNext DEF SyncInv, Base

-----------------------------------------------------------------------------
\* Types of the shop's rows and lanes.

\* Where a lane works on a media job, on one of its steps, or on an intent.
MediaSpots  == {"step", "reopen", "mark", "recheck", "send", "check", "seal",
                "succeed", "broken"}
KeySpots    == {"reopen", "mark", "recheck", "send", "check", "seal"}
IntentSpots == {"verify", "look", "photos", "prepare", "put", "readback",
                "confirm", "acknowledge", "failed"}

\* What a lane works on exists.
Shaped(l) ==
  /\ lane[l].at \in {"idle"} \cup MediaSpots \cup IntentSpots
  /\ lane[l].at = "idle" => lane[l] = IdleLane
  /\ lane[l].at \in MediaSpots => Keep(l) \in Rows(media)
  /\ lane[l].at \in IntentSpots => Keep(l) \in Rows(intents)
  /\ lane[l].at \in KeySpots => lane[l].key \in Keys
  /\ lane[l].at = "recheck" => lane[l].key = StatusKey("enable")

ShopTyped == ShopTypeOK /\ \A l \in Lanes : Shaped(l)

LEMMA RowTypes ==
  ASSUME ShopTypeOK
  PROVE  /\ Rows(intents) \subseteq IntentId /\ Rows(media) \subseteq MediaId
         /\ \A i \in Rows(intents) : intents[i] \in Intent
         /\ \A m \in Rows(media) : media[m] \in Media
         /\ IntentId \subseteq Nat \ {0} /\ MediaId \subseteq Nat \ {0}
         /\ NoRow \notin Intent /\ NoRow \notin Media
<1>1. NoRow \notin Intent /\ NoRow \notin Media
  BY DEF NoRow, Intent, Media
<1>2. DOMAIN intents = IntentId /\ DOMAIN media = MediaId
  BY DEF ShopTypeOK
<1> QED BY <1>1, <1>2 DEF ShopTypeOK, Rows, IntentId, MediaId

\* The newest row of a set of rows.
LEMMA NewestOf ==
  ASSUME NEW n \in Nat, NEW S, S \subseteq 1..n, S # {}
  PROVE  Newest(S) \in S /\ \A k \in S : k <= Newest(S)
<1>1. IsFiniteSet(1..n)
  <2>1. 1 \in Int /\ n \in Int
    OBVIOUS
  <2> QED BY <2>1, FS_Interval
<1>2. IsFiniteSet(S) /\ S \subseteq Nat
  <2>1. 1..n \subseteq Nat
    OBVIOUS
  <2> QED BY <1>1, <2>1, FS_Subset
<1>3. \E x \in S : \A y \in S : y <= x
  BY <1>2, GreatestExists
<1> QED BY <1>3 DEF Newest

LEMMA CurrentSetIs ==
  ASSUME ShopTypeOK
  PROVE  /\ CurrentSet \in Nat
         /\ CurrentSet # 0 =>
              /\ CurrentSet \in Rows(media) /\ media[CurrentSet].row = life.row
              /\ \A m \in Rows(media) : media[m].row = life.row => m <= CurrentSet
         /\ CurrentSet = 0 => \A m \in Rows(media) : media[m].row # life.row
<1> DEFINE mine == {m \in Rows(media) : media[m].row = life.row}
<1>1. mine \subseteq 1..MaxMedia /\ MaxMedia \in Nat
  BY RowTypes, ShopAssumption DEF MediaId
<1>2. CASE mine = {}
  BY <1>2 DEF CurrentSet
<1>3. CASE mine # {}
  <2>1. Newest(mine) \in mine /\ \A k \in mine : k <= Newest(mine)
    BY <1>1, <1>3, NewestOf
  <2>2. CurrentSet = Newest(mine)
    BY <1>3 DEF CurrentSet
  <2> QED BY <1>1, <2>1, <2>2
<1> QED BY <1>2, <1>3

-----------------------------------------------------------------------------
\* How a lane moves.

OtherLanes(l) == \A r \in Lanes \ {l} : lane'[r] = lane[r]

\* x is y but for the spot.
SameHold(x, y) ==
  /\ x.id = y.id /\ x.raw = y.raw /\ x.proof = y.proof /\ x.was = y.was
  /\ x.review = y.review /\ x.done = y.done /\ x.key = y.key /\ x.lit = y.lit
  /\ x.code = y.code

Turns(l, r) == lane' \in [Lanes -> Lane] /\ lane'[l] = r /\ OtherLanes(l)
Stays(l, spot) ==
  /\ lane' \in [Lanes -> Lane] /\ OtherLanes(l)
  /\ lane'[l].at = spot /\ SameHold(lane'[l], lane[l])

LEMMA LaneTurns ==
  ASSUME ShopTypeOK, NEW l \in Lanes, NEW r \in Lane, lane' = [lane EXCEPT ![l] = r]
  PROVE  Turns(l, r)
BY DEF ShopTypeOK, Turns, OtherLanes

LEMMA IdleLaneType == IdleLane \in Lane
BY DEF IdleLane, Lane, Spots

LEMMA LaneRecord ==
  ASSUME NEW x \in Lane, NEW at \in Spots, NEW r, r = [x EXCEPT !.at = at]
  PROVE  r \in Lane /\ r.at = at /\ SameHold(r, x)
BY DEF Lane, SameHold

LEMMA LaneToStays ==
  ASSUME ShopTypeOK, NEW l \in Lanes, NEW spot \in Spots, LaneTo(l, spot)
  PROVE  Stays(l, spot)
<1> DEFINE x == lane[l]
           r == [x EXCEPT !.at = spot]
<1>1. x \in Lane
  BY DEF ShopTypeOK
<1>2. lane' = [lane EXCEPT ![l] = r]
  BY DEF LaneTo
<1>3. r \in Lane /\ r.at = spot /\ SameHold(r, x)
  BY <1>1, LaneRecord
<1> HIDE DEF r
<1>4. Turns(l, r)
  BY <1>2, <1>3, LaneTurns
<1> QED BY <1>3, <1>4 DEF Turns, Stays

LEMMA LaneEndsIdle ==
  ASSUME ShopTypeOK, NEW l \in Lanes, LaneEnds(l)
  PROVE  Turns(l, IdleLane)
BY IdleLaneType, LaneTurns DEF LaneEnds

-----------------------------------------------------------------------------
\* What each step of a visibility lane does to the lane and to the intents.

tables == <<life, intents, media, msteps, shop, air, issued>>

\* Intent i gets the state s; what it was asked for stays.
Restates(i, s) ==
  /\ i \in Rows(intents) /\ intents' \in [IntentId -> Intent \cup {NoRow}]
  /\ intents'[i] \in Intent /\ intents'[i].state = s
  /\ intents'[i].kind = intents[i].kind /\ intents'[i].row = intents[i].row
  /\ intents'[i].print = intents[i].print /\ intents'[i].target = intents[i].target
  /\ intents'[i].gen = intents[i].gen
  /\ \A k \in IntentId \ {i} : intents'[k] = intents[k]

LEMMA IntentUpdate ==
  ASSUME ShopTypeOK, NEW i \in Rows(intents), NEW r \in Intent,
         intents' = [intents EXCEPT ![i] = r],
         r.kind = intents[i].kind, r.row = intents[i].row,
         r.print = intents[i].print, r.target = intents[i].target,
         r.gen = intents[i].gen
  PROVE  Restates(i, r.state)
<1>1. i \in IntentId /\ NoRow \notin Intent
  BY RowTypes
<1> QED BY <1>1 DEF Restates, ShopTypeOK

LEMMA SetStateRestates ==
  ASSUME ShopTypeOK, NEW i \in Rows(intents),
         NEW s \in {"queued", "blocked", "dispatched", "verified", "superseded"},
         SetState(i, s)
  PROVE  Restates(i, s)
<1> DEFINE b == intents[i]
           r == [b EXCEPT !.state = s]
<1>1. b \in Intent
  BY RowTypes
<1>2. intents' = [intents EXCEPT ![i] = r]
  BY DEF SetState
<1> HIDE DEF b
<1>3. /\ r \in Intent /\ r.state = s /\ r.kind = b.kind /\ r.row = b.row
      /\ r.print = b.print /\ r.target = b.target /\ r.gen = b.gen
  BY <1>1 DEF Intent
<1> HIDE DEF r
<1> QED BY <1>2, <1>3, IntentUpdate DEF b

LEMMA TakeIntentForm ==
  ASSUME ShopTyped, NEW l \in Lanes, TakeIntent(l)
  PROVE  \E i \in Rows(intents), r \in Lane :
           /\ intents[i].state = "queued" /\ Turns(l, r) /\ UNCHANGED tables
           /\ r.at = "verify" /\ r.id = i /\ ~r.review
<1>1. lane[l] = IdleLane /\ lane[l] \in Lane
  BY DEF ShopTyped, Shaped, TakeIntent, At, ShopTypeOK
<1>2. PICK i \in Rows(intents) :
        /\ intents[i].state = "queued"
        /\ lane' = [lane EXCEPT ![l] = [lane[l] EXCEPT !.at = "verify", !.id = i]]
  BY DEF TakeIntent
<1> DEFINE x == lane[l]
           r == [x EXCEPT !.at = "verify", !.id = i]
<1>3. /\ r \in Lane /\ r.at = "verify" /\ r.id = i /\ r.review = FALSE
  <2>1. "verify" \in Spots /\ i \in Nat
    BY RowTypes DEF Spots, ShopTyped
  <2>2. x \in Lane /\ x.review = FALSE
    BY <1>1 DEF IdleLane
  <2> HIDE DEF x
  <2> QED BY <2>1, <2>2 DEF Lane
<1>4. lane' = [lane EXCEPT ![l] = r]
  BY <1>2
<1> HIDE DEF r
<1>5. Turns(l, r) /\ UNCHANGED tables
  BY <1>3, <1>4, LaneTurns DEF ShopTyped, TakeIntent, visFrame, tables
<1> QED BY <1>2, <1>3, <1>5

LEMMA VerifyIntentForm ==
  ASSUME ShopTyped, NEW l \in Lanes, VerifyIntent(l)
  PROVE  /\ At(l, "verify") /\ UNCHANGED tables
         /\ \/ Turns(l, IdleLane)
            \/ Stays(l, "look") /\ LocalCode(Keep(l)) = "ok"
            \/ Stays(l, "failed")
<1>1. ShopTypeOK /\ "look" \in Spots /\ "failed" \in Spots
  BY DEF ShopTyped, Spots
<1> QED BY <1>1, LaneToStays, LaneEndsIdle DEF VerifyIntent, visFrame, tables

LEMMA LookForm ==
  ASSUME ShopTyped, NEW l \in Lanes, LookAtStatus(l)
  PROVE  /\ At(l, "look") /\ UNCHANGED tables
         /\ \E r \in Lane :
              /\ Turns(l, r) /\ r.id = Keep(l) /\ r.raw = shop.status
              /\ r.review = lane[l].review /\ r.was = lane[l].was
              /\ r.at \in {"failed", "photos", "prepare"}
              /\ r.at = "photos" => NeedsPhotos(Keep(l))
              /\ r.at = "prepare" => ~NeedsPhotos(Keep(l))
<1> DEFINE x == lane[l]
           v == shop.status
           intent == intents[Keep(l)]
           at == IF intent.kind = "restore" /\ shop.status \notin {Off, intent.target}
                 THEN "failed"
                 ELSE IF NeedsPhotos(Keep(l)) THEN "photos" ELSE "prepare"
           r == [x EXCEPT !.raw = v, !.at = at]
<1>1. x \in Lane /\ v \in {0, On, Off} /\ at \in {"failed", "photos", "prepare"}
  BY DEF ShopTyped, ShopTypeOK, Shop
<1>2. lane' = [lane EXCEPT ![l] = r]
  BY DEF LookAtStatus
<1>3. /\ at = "photos" => NeedsPhotos(Keep(l))
      /\ at = "prepare" => ~NeedsPhotos(Keep(l))
  OBVIOUS
<1>4. at \in Spots
  BY <1>1 DEF Spots
<1> HIDE DEF at, v
<1>5. /\ r \in Lane /\ r.at = at /\ r.raw = v /\ r.id = x.id
      /\ r.review = x.review /\ r.was = x.was
  <2> HIDE DEF x
  <2> QED BY <1>1, <1>4 DEF Lane
<1> HIDE DEF r
<1>6. Turns(l, r)
  BY <1>2, <1>5, LaneTurns DEF ShopTyped
<1>7. At(l, "look") /\ UNCHANGED tables
  BY DEF LookAtStatus, visFrame, tables
<1> QED BY <1>1, <1>3, <1>5, <1>6, <1>7 DEF v, Keep

LEMMA CheckPhotosForm ==
  ASSUME ShopTyped, NEW l \in Lanes, CheckPhotos(l)
  PROVE  /\ At(l, "photos") /\ UNCHANGED tables
         /\ \E r \in Lane :
              /\ Turns(l, r) /\ r.id = Keep(l) /\ r.raw = lane[l].raw
              /\ r.review = lane[l].review /\ r.was = lane[l].was
              /\ r.proof = CurrentSet
              /\ r.at = (IF ~/\ CanEnable /\ request.synced = intents[Keep(l)].gen
                             /\ \A p \in media[CurrentSet].ids : shop.gallery[p] = "shown"
                         THEN "failed"
                         ELSE IF lane[l].review THEN "confirm" ELSE "prepare")
<1> DEFINE x == lane[l]
           v == CurrentSet
           at == IF ~/\ CanEnable /\ request.synced = intents[Keep(l)].gen
                     /\ \A p \in media[CurrentSet].ids : shop.gallery[p] = "shown"
                 THEN "failed"
                 ELSE IF lane[l].review THEN "confirm" ELSE "prepare"
           r == [x EXCEPT !.proof = v, !.at = at]
<1>1. x \in Lane /\ v \in Nat /\ at \in {"failed", "confirm", "prepare"}
  BY CurrentSetIs DEF ShopTyped, ShopTypeOK
<1>2. lane' = [lane EXCEPT ![l] = r]
  BY DEF CheckPhotos
<1>3. at \in Spots
  BY <1>1 DEF Spots
<1>4. At(l, "photos") /\ UNCHANGED tables
  BY DEF CheckPhotos, visFrame, tables
<1> SUFFICES \E s \in Lane : /\ Turns(l, s) /\ s.id = x.id /\ s.raw = x.raw
                             /\ s.review = x.review /\ s.was = x.was /\ s.proof = v
                             /\ s.at = at
  BY <1>4 DEF Keep
<1> HIDE DEF at, v
<1>5. /\ r \in Lane /\ r.at = at /\ r.proof = v /\ r.id = x.id
      /\ r.raw = x.raw /\ r.review = x.review /\ r.was = x.was
  <2> HIDE DEF x
  <2> QED BY <1>1, <1>3 DEF Lane
<1> HIDE DEF r
<1>6. Turns(l, r)
  BY <1>2, <1>5, LaneTurns DEF ShopTyped
<1> QED BY <1>5, <1>6

LEMMA CodeValues ==
  ASSUME NEW l
  PROVE  FullCode(l) \in {"ok", "wait", "fail"} /\ (FullCode(l) = "ok" => LocalCode(Keep(l)) = "ok")
BY DEF FullCode, LocalCode

LEMMA PrepareForm ==
  ASSUME ShopTyped, NEW l \in Lanes, Prepare(l)
  PROVE  LET i == Keep(l)
         IN  /\ At(l, "prepare") /\ UNCHANGED <<life, media, msteps, shop, air, issued>>
             /\ \/ /\ UNCHANGED intents
                   /\ Turns(l, IdleLane) \/ Stays(l, "failed")
                \/ /\ intents[i].state = "queued" /\ FullCode(l) = "ok"
                   /\ lane[l].raw = intents[i].target /\ Restates(i, "verified")
                   /\ Turns(l, IdleLane) \/ Stays(l, "failed")
                \/ /\ intents[i].state = "queued" /\ FullCode(l) = "ok"
                   /\ lane[l].raw # intents[i].target /\ Restates(i, "dispatched")
                   /\ Stays(l, "put") \/ Stays(l, "failed")
<1> DEFINE i == Keep(l)
           seen == lane[l].raw
           b == intents[i]
           prev == IF b.kind = "hide" /\ b.prev = 0 THEN seen ELSE b.prev
           state == IF seen = b.target THEN "verified" ELSE "dispatched"
           row == [b EXCEPT !.prev = prev, !.state = state]
<1>1. /\ ShopTypeOK /\ At(l, "prepare") /\ UNCHANGED <<life, media, msteps, shop, air, issued>>
      /\ i \in Rows(intents) /\ seen \in {0, On, Off}
  BY DEF ShopTyped, ShopTypeOK, Shaped, Prepare, visFrame, At, IntentSpots, Lane
<1>2. b \in Intent
  BY <1>1, RowTypes
<1>3. prev \in {0, On, Off} /\ state \in {"verified", "dispatched"}
  BY <1>1, <1>2 DEF Intent
<1>4. \/ UNCHANGED intents /\ (LaneEnds(l) \/ LaneTo(l, "failed"))
      \/ /\ b.state = "queued" /\ FullCode(l) \notin {"wait", "fail"}
         /\ intents' = [intents EXCEPT ![i] = row]
         /\ \/ state = "verified" /\ LaneEnds(l)
            \/ state = "dispatched" /\ LaneTo(l, "put")
            \/ LaneTo(l, "failed")
  BY DEF Prepare, Queued
<1>5. state = "verified" <=> seen = b.target
  OBVIOUS
<1> HIDE DEF prev, state, b
<1>6. /\ row \in Intent /\ row.state = state /\ row.kind = b.kind /\ row.row = b.row
      /\ row.print = b.print /\ row.target = b.target /\ row.gen = b.gen
  BY <1>2, <1>3 DEF Intent
<1> HIDE DEF row
<1>7. {"failed", "put"} \subseteq Spots
  BY DEF Spots
<1>8. intents' = [intents EXCEPT ![i] = row] => Restates(i, state)
  BY <1>1, <1>6, IntentUpdate DEF b
<1>9. /\ LaneEnds(l) => Turns(l, IdleLane)
      /\ LaneTo(l, "failed") => Stays(l, "failed")
      /\ LaneTo(l, "put") => Stays(l, "put")
  BY <1>1, <1>7, LaneToStays, LaneEndsIdle
<1>10. FullCode(l) \notin {"wait", "fail"} => FullCode(l) = "ok"
  BY CodeValues
<1> QED BY <1>1, <1>3, <1>4, <1>5, <1>8, <1>9, <1>10 DEF b

LEMMA PutForm ==
  ASSUME ShopTyped, NEW l \in Lanes, PutStatus(l)
  PROVE  LET i == Keep(l)
         IN  /\ At(l, "put") /\ UNCHANGED <<life, intents, media, msteps, shop>>
             /\ IntentOp(i) \in Ops /\ Stays(l, "readback")
             /\ Emit(IntentOp(i), IF intents[i].target = On THEN "enable" ELSE "hide")
<1>1. ShopTypeOK /\ "readback" \in Spots /\ Keep(l) \in IntentId
  BY RowTypes DEF ShopTyped, Spots, Shaped, PutStatus, At, IntentSpots
<1> QED BY <1>1, LaneToStays DEF PutStatus, visFrame, Ops

LEMMA ReadForm ==
  ASSUME ShopTyped, NEW l \in Lanes, ReadStatus(l)
  PROVE  /\ At(l, "readback") /\ UNCHANGED tables
         /\ \/ shop.status = intents[Keep(l)].target /\ Stays(l, "acknowledge")
            \/ Stays(l, "failed")
<1>1. ShopTypeOK /\ {"acknowledge", "failed"} \subseteq Spots
  BY DEF ShopTyped, Spots
<1> QED BY <1>1, LaneToStays DEF ReadStatus, visFrame, tables, ReadsAsWanted

LEMMA AcknowledgeForm ==
  ASSUME ShopTyped, NEW l \in Lanes, AcknowledgeIntent(l)
  PROVE  /\ At(l, "acknowledge") /\ UNCHANGED <<life, media, msteps, shop, air, issued>>
         /\ \/ UNCHANGED intents /\ Stays(l, "failed")
            \/ /\ FullCode(l) = "ok" /\ Restates(Keep(l), "verified")
               /\ Turns(l, IdleLane)
<1>1. ShopTypeOK /\ "failed" \in Spots /\ Keep(l) \in Rows(intents)
  BY DEF ShopTyped, Spots, Shaped, AcknowledgeIntent, At, IntentSpots
<1> QED BY <1>1, LaneToStays, LaneEndsIdle, SetStateRestates
     DEF AcknowledgeIntent, visFrame

LEMMA FailIntentForm ==
  ASSUME ShopTyped, NEW l \in Lanes, FailIntent(l)
  PROVE  /\ At(l, "failed") /\ UNCHANGED <<life, media, msteps, shop, air, issued>>
         /\ Turns(l, IdleLane)
         /\ \/ UNCHANGED intents
            \/ /\ ~lane[l].review
               /\ Restates(Keep(l), FailedIntent(intents[Keep(l)].state))
<1>1. ShopTypeOK /\ Keep(l) \in Rows(intents)
  BY DEF ShopTyped, Shaped, FailIntent, At, IntentSpots
<1>2. FailedIntent(intents[Keep(l)].state) \in
        {"queued", "blocked", "dispatched", "verified", "superseded"}
  BY <1>1, RowTypes DEF FailedIntent, Intent
<1> QED BY <1>1, <1>2, LaneEndsIdle, SetStateRestates DEF FailIntent, visFrame

LEMMA StatusFaultForm ==
  ASSUME ShopTyped, NEW l \in Lanes, StatusFault(l)
  PROVE  /\ lane[l].at \in {"look", "photos", "readback"} /\ UNCHANGED tables
         /\ Stays(l, "failed")
<1>1. ShopTypeOK /\ "failed" \in Spots
  BY DEF ShopTyped, Spots
<1> QED BY <1>1, LaneToStays DEF StatusFault, visFrame, tables

LEMMA ReviewIntentForm ==
  ASSUME ShopTyped, NEW l \in Lanes, ReviewIntent(l)
  PROVE  \E i \in Rows(intents), r \in Lane :
           /\ intents[i].state \in {"blocked", "dispatched"}
           /\ shop.status = intents[i].target
           /\ Turns(l, r) /\ UNCHANGED tables
           /\ r.id = i /\ r.was = intents[i] /\ r.review
           /\ r.at = IF NeedsPhotos(i) THEN "photos" ELSE "confirm"
<1>1. PICK i \in Rows(intents) :
        /\ intents[i].state \in {"blocked", "dispatched"}
        /\ shop.status = intents[i].target
        /\ lane' = [lane EXCEPT ![l] = [lane[l] EXCEPT !.id = i, !.was = intents[i],
             !.review = TRUE, !.at = IF NeedsPhotos(i) THEN "photos" ELSE "confirm"]]
  BY DEF ReviewIntent
<1> DEFINE x == lane[l]
           w == intents[i]
           at == IF NeedsPhotos(i) THEN "photos" ELSE "confirm"
           r == [x EXCEPT !.id = i, !.was = w, !.review = TRUE, !.at = at]
<1>2. x \in Lane /\ i \in Nat /\ w \in Intent /\ at \in Spots
  BY RowTypes DEF ShopTyped, ShopTypeOK, Spots
<1>3. lane' = [lane EXCEPT ![l] = r]
  BY <1>1
<1>4. r \in Lane /\ r.id = i /\ r.was = w /\ r.review = TRUE /\ r.at = at
  <2> HIDE DEF x, w, at
  <2> QED BY <1>2 DEF Lane
<1>5. UNCHANGED tables
  BY DEF ReviewIntent, visFrame, tables
<1>6. Turns(l, r)
  <2> HIDE DEF r
  <2> QED BY <1>3, <1>4, LaneTurns DEF ShopTyped
<1> HIDE DEF r
<1> QED BY <1>1, <1>4, <1>5, <1>6

LEMMA ConfirmForm ==
  ASSUME ShopTyped, NEW l \in Lanes, ConfirmIntent(l)
  PROVE  /\ At(l, "confirm") /\ UNCHANGED <<life, media, msteps, shop, air, issued>>
         /\ Turns(l, IdleLane)
         /\ \/ UNCHANGED intents
            \/ /\ intents[Keep(l)] = lane[l].was /\ FullCode(l) = "ok"
               /\ Restates(Keep(l), "verified")
<1>1. ShopTypeOK /\ Keep(l) \in Rows(intents)
  BY DEF ShopTyped, Shaped, ConfirmIntent, At, IntentSpots
<1> QED BY <1>1, LaneEndsIdle, SetStateRestates DEF ConfirmIntent, visFrame

-----------------------------------------------------------------------------
\* What each step of a media lane does to the lane, the jobs and the steps.

\* Job m gets the state s and is pinned to generation g; its set stays.
Remakes(m, s, g) ==
  /\ m \in Rows(media) /\ media' \in [MediaId -> Media \cup {NoRow}]
  /\ media'[m] \in Media /\ media'[m].state = s /\ media'[m].gen = g
  /\ media'[m].row = media[m].row /\ media'[m].ids = media[m].ids
  /\ media'[m].enable = media[m].enable
  /\ \A n \in MediaId \ {m} : media'[n] = media[n]

\* Step k of job m becomes v.
Steps(m, k, v) ==
  /\ m \in MediaId /\ k \in Keys /\ msteps' \in [MediaId -> [Keys -> StepStates]]
  /\ \A n \in MediaId, q \in Keys :
       msteps'[n][q] = IF n = m /\ q = k THEN v ELSE msteps[n][q]

LEMMA MediaUpdate ==
  ASSUME ShopTypeOK, NEW m \in Rows(media), NEW r \in Media,
         media' = [media EXCEPT ![m] = r],
         r.row = media[m].row, r.ids = media[m].ids, r.enable = media[m].enable
  PROVE  Remakes(m, r.state, r.gen)
<1>1. m \in MediaId
  BY RowTypes
<1> QED BY <1>1 DEF Remakes, ShopTypeOK

MediaStates == {"pending", "running", "uncertain", "blocked", "succeeded", "superseded"}

LEMMA MediaStateSet ==
  ASSUME ShopTypeOK, NEW m \in Rows(media), NEW s \in MediaStates,
         media' = [media EXCEPT ![m].state = s]
  PROVE  Remakes(m, s, media[m].gen)
<1> DEFINE b == media[m]
           r == [b EXCEPT !.state = s]
<1>1. b \in Media
  BY RowTypes
<1>2. media' = [media EXCEPT ![m] = r]
  OBVIOUS
<1> HIDE DEF b
<1>3. /\ r \in Media /\ r.state = s /\ r.gen = b.gen /\ r.row = b.row
      /\ r.ids = b.ids /\ r.enable = b.enable
  BY <1>1 DEF Media, MediaStates
<1> HIDE DEF r
<1> QED BY <1>2, <1>3, MediaUpdate DEF b

LEMMA StepsUpdate ==
  ASSUME ShopTypeOK, NEW m \in MediaId, NEW k \in Keys,
         NEW v \in {"dispatched", "verified"}, msteps' = [msteps EXCEPT ![m][k] = v]
  PROVE  Steps(m, k, v)
BY DEF ShopTypeOK, Steps, StepStates

\* Where a media lane works, it works on a job, and on a step.
LEMMA MediaLane ==
  ASSUME ShopTyped, NEW l \in Lanes
  PROVE  /\ lane[l] \in Lane /\ ShopTypeOK
         /\ lane[l].at \in MediaSpots =>
              /\ Keep(l) \in Rows(media) /\ Keep(l) \in MediaId
              /\ media[Keep(l)] \in Media
         /\ lane[l].at \in KeySpots => lane[l].key \in Keys
         /\ {"idle", "verify", "look", "photos", "prepare", "put", "readback",
             "confirm", "acknowledge", "failed"} \cap MediaSpots = {}
         /\ KeySpots \subseteq MediaSpots
<1>1. lane[l] \in Lane /\ ShopTypeOK /\ Shaped(l)
  BY DEF ShopTyped, ShopTypeOK
<1> QED BY <1>1, RowTypes DEF Shaped, MediaSpots, KeySpots

LEMMA NextKeysType ==
  ASSUME ShopTyped, NEW l \in Lanes, At(l, "step"), NEW k \in NextKeys(l)
  PROVE  k \in Keys
<1>1. PhotoJob(l).ids \subseteq Photos
  BY MediaLane DEF PhotoJob, At, Keep, MediaSpots, Media
<1>2. \A act \in {"upload", "order", "remove"} : \A p \in Photos :
        [act |-> act, photo |-> p] \in Keys
  BY DEF Keys
<1>3. \A p \in Photos : PhotoKey(l, p) \in Keys
  <2> TAKE p \in Photos
  <2>1. PICK act \in {"upload", "order"} : PhotoKey(l, p) = [photo |-> p, act |-> act]
    BY DEF PhotoKey
  <2>2. [photo |-> p, act |-> act] = [act |-> act, photo |-> p]
    OBVIOUS
  <2> QED BY <1>2, <2>1, <2>2
<1>4. StatusKey("hide") \in Keys /\ StatusKey("enable") \in Keys
  BY DEF Keys
<1>5. \/ k \in {StatusKey("hide"), StatusKey("enable")}
      \/ \E p \in PhotoJob(l).ids : k = PhotoKey(l, p)
      \/ \E p \in Photos : k = [act |-> "remove", photo |-> p]
  <2> HIDE DEF StatusKey, PhotoKey, PhotoJob
  <2> QED BY DEF NextKeys
<1> QED BY <1>1, <1>2, <1>3, <1>4, <1>5

LEMMA EnterForm ==
  ASSUME ShopTyped, Data, NEW l \in Lanes, NEW m \in Rows(media),
         NEW review \in BOOLEAN, EnterJob(l, m, review)
  PROVE  /\ At(l, "idle") /\ UNCHANGED <<life, intents, msteps, shop, air, issued>>
         /\ LocksFree /\ TakeLocks(l)
         /\ IF Authorised(m) /\ media[m].gen = 0
            THEN Remakes(m, "running", request.synced) ELSE UNCHANGED media
         /\ \E r \in Lane :
              /\ Turns(l, r) /\ r.id = m /\ r.review = review /\ r.done = {}
              /\ r.at = IF Authorised(m) THEN "step" ELSE "broken"
              /\ r.lit <=> msteps[m][StatusKey("enable")] # "none"
<1> DEFINE x == lane[l]
           at == IF Authorised(m) THEN "step" ELSE "broken"
           code == IF AwaitsNative(m) THEN "native" ELSE "other"
           lit == msteps[m][StatusKey("enable")] # "none"
           r == [x EXCEPT !.id = m, !.review = review, !.at = at, !.code = code,
                          !.lit = lit]
           b == media[m]
           g == request.synced
           p == published
           s == [b EXCEPT !.gen = g, !.binding = p, !.state = "running"]
<1>1. /\ ShopTypeOK /\ At(l, "idle") /\ LocksFree /\ TakeLocks(l) /\ x = IdleLane
      /\ UNCHANGED <<life, intents, msteps, shop, air, issued>>
  BY DEF ShopTyped, Shaped, EnterJob, At, mediaFrame
<1>2. lane' = [lane EXCEPT ![l] = r]
  BY DEF EnterJob
<1>3. /\ r \in Lane /\ r.id = m /\ r.review = review /\ r.done = {} /\ r.at = at
      /\ r.lit = lit
  <2>1. /\ x \in Lane /\ m \in Nat /\ at \in Spots /\ code \in {"native", "other"}
        /\ lit \in BOOLEAN /\ x.done = {}
    BY <1>1, IdleLaneType, RowTypes DEF Spots, IdleLane
  <2> HIDE DEF x, at, code, lit
  <2> QED BY <2>1 DEF Lane
<1>4. Turns(l, r)
  <2> HIDE DEF r
  <2> QED BY <1>1, <1>2, <1>3, LaneTurns
<1>5. IF Authorised(m) /\ b.gen = 0
      THEN media' = [media EXCEPT ![m] = s] ELSE UNCHANGED media
  BY DEF EnterJob
<1>6. media' = [media EXCEPT ![m] = s] => Remakes(m, "running", g)
  <2>1. b \in Media /\ g \in Nat /\ p \in Nat
    BY <1>1, RowTypes DEF Data, Request
  <2>2. /\ s \in Media /\ s.state = "running" /\ s.gen = g /\ s.row = b.row
        /\ s.ids = b.ids /\ s.enable = b.enable
    <3> HIDE DEF b, g, p
    <3> QED BY <2>1 DEF Media
  <2> HIDE DEF s
  <2> QED BY <1>1, <2>2, MediaUpdate DEF b
<1> HIDE DEF r, s
<1> QED BY <1>1, <1>3, <1>4, <1>5, <1>6

\* The lane goes on with its job: to a spot, a step and the steps done.
Holds(l, spot, k, done) ==
  /\ lane' \in [Lanes -> Lane] /\ OtherLanes(l)
  /\ lane'[l].at = spot /\ lane'[l].key = k /\ lane'[l].done = done
  /\ lane'[l].id = lane[l].id /\ lane'[l].review = lane[l].review
  /\ lane'[l].was = lane[l].was /\ lane'[l].lit = lane[l].lit

LEMMA LaneKeyHolds ==
  ASSUME ShopTypeOK, NEW l \in Lanes, NEW spot \in Spots, NEW k \in Keys \cup {NoPhoto},
         NEW done \in SUBSET Keys,
         \/ lane' = [lane EXCEPT ![l].at = spot, ![l].key = k] /\ done = lane[l].done
         \/ lane' = [lane EXCEPT ![l].at = spot, ![l].done = done, ![l].key = k]
  PROVE  Holds(l, spot, k, done)
<1> DEFINE x == lane[l]
           z == [x EXCEPT !.at = spot, !.done = done, !.key = k]
           r == [x EXCEPT !.at = spot, !.key = k]
<1>1. x \in Lane
  BY DEF ShopTypeOK
<1>2. /\ r \in Lane /\ r.at = spot /\ r.key = k /\ r.done = x.done /\ r.id = x.id
      /\ r.review = x.review /\ r.was = x.was /\ r.lit = x.lit
      /\ z \in Lane /\ z.at = spot /\ z.key = k /\ z.done = done /\ z.id = x.id
      /\ z.review = x.review /\ z.was = x.was /\ z.lit = x.lit
  <2> HIDE DEF x
  <2> QED BY <1>1 DEF Lane
<1>3. \/ lane' = [lane EXCEPT ![l] = r] /\ done = x.done
      \/ lane' = [lane EXCEPT ![l] = z]
  OBVIOUS
<1> HIDE DEF r, z
<1>4. (Turns(l, r) /\ done = x.done) \/ Turns(l, z)
  BY <1>2, <1>3, LaneTurns
<1> QED BY <1>2, <1>4 DEF Turns, Holds

LEMMA StaysHolds ==
  ASSUME NEW l, NEW spot, Stays(l, spot)
  PROVE  Holds(l, spot, lane[l].key, lane[l].done)
BY DEF Stays, Holds, SameHold

\* step(): which step it is, and what becomes of it.
LEMMA DecideForm ==
  ASSUME ShopTyped, NEW l \in Lanes, DecideStep(l)
  PROVE  /\ At(l, "step") /\ UNCHANGED tables
         /\ \E k \in NextKeys(l) :
              LET receipt == msteps[Keep(l)][k]
              IN  /\ k \in Keys
                  /\ \/ Stays(l, "broken")
                     \/ /\ Authorised(Keep(l)) /\ Allowed(l, k)
                        /\ \/ /\ Effect(k) /\ receipt = "dispatched"
                              /\ Holds(l, "seal", k, lane[l].done)
                           \/ /\ Effect(k) /\ receipt # "dispatched"
                              /\ Holds(l, "step", NoPhoto, lane[l].done \cup {k})
                           \/ /\ ~Effect(k) /\ receipt = "none"
                              /\ Holds(l, IF lane[l].review THEN "reopen" ELSE "mark",
                                       k, lane[l].done)
<1>1. ShopTypeOK /\ At(l, "step") /\ UNCHANGED tables
  BY DEF ShopTyped, DecideStep, mediaFrame, tables
<1> DEFINE m == Keep(l)
<1>2. PICK k \in NextKeys(l) :
        IF \/ ~Authorised(m) \/ ~Allowed(l, k)
           \/ (~Effect(k) /\ msteps[m][k] # "none")
        THEN Broken(l)
        ELSE IF Effect(k)
        THEN IF msteps[m][k] = "dispatched"
             THEN lane' = [lane EXCEPT ![l].at = "seal", ![l].key = k]
             ELSE Passed(l, k)
        ELSE lane' = [lane EXCEPT ![l].key = k,
                        ![l].at = IF lane[l].review THEN "reopen" ELSE "mark"]
  BY DEF DecideStep, StepsOf, Keep
<1>3. k \in Keys
  BY <1>1, NextKeysType
<1>4. /\ {"broken", "seal", "step", "reopen", "mark"} \subseteq Spots
      /\ lane[l].done \in SUBSET Keys /\ lane[l].done \cup {k} \in SUBSET Keys
      /\ lane \in [Lanes -> Lane]
  BY <1>1, <1>3 DEF Spots, ShopTypeOK, Lane
<1>5. CASE ~Authorised(m) \/ ~Allowed(l, k) \/ (~Effect(k) /\ msteps[m][k] # "none")
  BY <1>1, <1>2, <1>3, <1>4, <1>5, LaneToStays DEF Broken
<1>6. CASE Authorised(m) /\ Allowed(l, k) /\ Effect(k) /\ msteps[m][k] = "dispatched"
  BY <1>1, <1>2, <1>3, <1>4, <1>6, LaneKeyHolds
<1>7. CASE Authorised(m) /\ Allowed(l, k) /\ Effect(k) /\ msteps[m][k] # "dispatched"
  <2>1. Passed(l, k)
    BY <1>2, <1>7
  <2>2. lane' = [lane EXCEPT ![l].at = "step", ![l].done = lane[l].done \cup {k},
                   ![l].key = NoPhoto]
    BY <2>1 DEF Passed
  <2> QED BY <1>1, <1>3, <1>4, <1>7, <2>2, LaneKeyHolds
<1>8. CASE Authorised(m) /\ Allowed(l, k) /\ ~Effect(k) /\ msteps[m][k] = "none"
  <2> DEFINE spot == IF lane[l].review THEN "reopen" ELSE "mark"
  <2>1. lane' = [lane EXCEPT ![l].key = k, ![l].at = spot] /\ spot \in Spots
    BY <1>2, <1>4, <1>8
  <2> HIDE DEF spot
  <2>2. lane' = [lane EXCEPT ![l].at = spot, ![l].key = k]
    <3>1. lane[l] \in Lane
      BY <1>4
    <3>2. [lane[l] EXCEPT !.key = k, !.at = spot] = [lane[l] EXCEPT !.at = spot, !.key = k]
      <4> DEFINE x == lane[l]
      <4> HIDE DEF x
      <4>1. x \in Lane => [x EXCEPT !.key = k, !.at = spot] = [x EXCEPT !.at = spot, !.key = k]
        BY DEF Lane
      <4> QED BY <3>1, <4>1 DEF x
    <3> QED BY <2>1, <3>2
  <2>3. Holds(l, spot, k, lane[l].done)
    BY <1>1, <1>3, <1>4, <2>1, <2>2, LaneKeyHolds
  <2> QED BY <1>1, <1>3, <1>8, <2>3 DEF spot
<1> QED BY <1>5, <1>6, <1>7, <1>8

\* A reviewer stops at the first step that is missing.
LEMMA ReopenForm ==
  ASSUME ShopTyped, NEW l \in Lanes, Reopen(l)
  PROVE  LET m == Keep(l)
         IN  /\ At(l, "reopen") /\ UNCHANGED <<life, intents, msteps, shop, air, issued>>
             /\ \/ UNCHANGED media /\ Turns(l, IdleLane)
                \/ UNCHANGED media /\ Stays(l, "broken")
                \/ /\ Authorised(m) /\ UnresolvedSteps(m) = {}
                   /\ Remakes(m, "pending", media[m].gen) /\ Turns(l, IdleLane)
<1>1. /\ ShopTypeOK /\ At(l, "reopen") /\ Keep(l) \in Rows(media)
      /\ "broken" \in Spots /\ "pending" \in MediaStates
  BY MediaLane DEF Reopen, At, MediaSpots, Spots, MediaStates
<1>2. UNCHANGED <<life, intents, msteps, shop, air, issued>>
  BY DEF Reopen, mediaFrame
<1>3. /\ LaneEnds(l) => Turns(l, IdleLane)
      /\ Broken(l) => Stays(l, "broken")
  BY <1>1, LaneEndsIdle, LaneToStays DEF Broken
<1>4. media' = [media EXCEPT ![Keep(l)].state = "pending"]
        => Remakes(Keep(l), "pending", media[Keep(l)].gen)
  BY <1>1, MediaStateSet
<1> QED BY <1>1, <1>2, <1>3, <1>4 DEF Reopen

LEMMA MarkForm ==
  ASSUME ShopTyped, NEW l \in Lanes, MarkStep(l)
  PROVE  LET m == Keep(l) k == lane[l].key
         IN  /\ At(l, "mark") /\ UNCHANGED <<life, intents, media, shop, air, issued>>
             /\ \/ UNCHANGED msteps /\ Stays(l, "broken")
                \/ /\ Authorised(m) /\ msteps[m][k] = "none"
                   /\ Steps(m, k, "dispatched")
                   /\ \/ Stays(l, "recheck") /\ k.act = "enable"
                      \/ Stays(l, "send") /\ k.act # "enable"
                      \/ Stays(l, "broken")
<1>1. /\ ShopTypeOK /\ At(l, "mark") /\ Keep(l) \in MediaId /\ lane[l].key \in Keys
      /\ {"broken", "recheck", "send"} \subseteq Spots
  BY MediaLane DEF MarkStep, At, MediaSpots, KeySpots, Spots
<1>2. UNCHANGED <<life, intents, media, shop, air, issued>>
  BY DEF MarkStep, mediaFrame
<1>3. \A spot \in {"broken", "recheck", "send"} : LaneTo(l, spot) => Stays(l, spot)
  BY <1>1, LaneToStays
<1>4. msteps' = [msteps EXCEPT ![Keep(l)][lane[l].key] = "dispatched"]
        => Steps(Keep(l), lane[l].key, "dispatched")
  BY <1>1, StepsUpdate
<1> QED BY <1>1, <1>2, <1>3, <1>4 DEF MarkStep, MarkerFree, StepsOf, Broken, Keep

LEMMA RecheckForm ==
  ASSUME ShopTyped, NEW l \in Lanes, RecheckEnable(l)
  PROVE  /\ At(l, "recheck") /\ UNCHANGED tables
         /\ \/ Stays(l, "check")
            \/ /\ Stays(l, "send") /\ AllShown(l) /\ shop.status = Off
               /\ Authorised(Keep(l))
<1>1. ShopTypeOK /\ {"check", "send"} \subseteq Spots
  BY MediaLane DEF Spots
<1>2. \A spot \in {"check", "send"} : LaneTo(l, spot) => Stays(l, spot)
  BY <1>1, LaneToStays
<1> QED BY <1>2 DEF RecheckEnable, mediaFrame, tables

LEMMA SendForm ==
  ASSUME ShopTyped, NEW l \in Lanes, SendStep(l)
  PROVE  LET op == MediaOp(Keep(l), lane[l].key)
         IN  /\ At(l, "send") /\ UNCHANGED <<life, intents, media, msteps, shop>>
             /\ op \in Ops /\ Emit(op, lane[l].key.act) /\ Stays(l, "check")
<1>1. /\ ShopTypeOK /\ "check" \in Spots /\ Keep(l) \in MediaId /\ lane[l].key \in Keys
  BY MediaLane DEF SendStep, At, MediaSpots, KeySpots, Spots
<1> QED BY <1>1, LaneToStays DEF SendStep, mediaFrame, Ops

LEMMA CheckForm ==
  ASSUME ShopTyped, NEW l \in Lanes, CheckStep(l)
  PROVE  /\ At(l, "check") /\ UNCHANGED tables
         /\ \/ Stays(l, "broken")
            \/ Stays(l, "seal") /\ Authorised(Keep(l)) /\ Effect(lane[l].key)
<1>1. ShopTypeOK /\ {"broken", "seal"} \subseteq Spots
  BY MediaLane DEF Spots
<1>2. \A spot \in {"broken", "seal"} : LaneTo(l, spot) => Stays(l, spot)
  BY <1>1, LaneToStays
<1> QED BY <1>2 DEF CheckStep, mediaFrame, tables

LEMMA SealForm ==
  ASSUME ShopTyped, NEW l \in Lanes, SealStep(l)
  PROVE  LET m == Keep(l) k == lane[l].key
         IN  /\ At(l, "seal") /\ UNCHANGED <<life, intents, media, shop, air, issued>>
             /\ \/ UNCHANGED msteps /\ Stays(l, "broken")
                \/ /\ Authorised(m) /\ Steps(m, k, "verified")
                   /\ Holds(l, "step", NoPhoto, lane[l].done \cup {k})
<1>1. /\ ShopTypeOK /\ At(l, "seal") /\ Keep(l) \in MediaId /\ lane[l].key \in Keys
      /\ {"broken", "step"} \subseteq Spots /\ lane[l].done \in SUBSET Keys
  BY MediaLane DEF SealStep, At, MediaSpots, KeySpots, Spots, Lane
<1>2. UNCHANGED <<life, intents, media, shop, air, issued>>
  BY DEF SealStep, mediaFrame
<1>3. Broken(l) => Stays(l, "broken")
  BY <1>1, LaneToStays DEF Broken
<1>4. Passed(l, lane[l].key) => Holds(l, "step", NoPhoto, lane[l].done \cup {lane[l].key})
  <2> SUFFICES ASSUME Passed(l, lane[l].key)
               PROVE  Holds(l, "step", NoPhoto, lane[l].done \cup {lane[l].key})
    OBVIOUS
  <2>1. lane' = [lane EXCEPT ![l].at = "step",
                   ![l].done = lane[l].done \cup {lane[l].key}, ![l].key = NoPhoto]
    BY DEF Passed
  <2>2. lane[l].done \cup {lane[l].key} \in SUBSET Keys
    BY <1>1
  <2> QED BY <1>1, <2>1, <2>2, LaneKeyHolds
<1>5. msteps' = [msteps EXCEPT ![Keep(l)][lane[l].key] = "verified"]
        => Steps(Keep(l), lane[l].key, "verified")
  BY <1>1, StepsUpdate
<1> QED BY <1>1, <1>2, <1>3, <1>4, <1>5 DEF SealStep

LEMMA FinishForm ==
  ASSUME ShopTyped, NEW l \in Lanes, FinishJob(l)
  PROVE  /\ At(l, "step") /\ UNCHANGED tables /\ NextKeys(l) = {}
         /\ \/ Stays(l, "broken")
            \/ /\ Stays(l, "succeed") /\ Authorised(Keep(l)) /\ AllShown(l)
               /\ shop.status = IF Enables(l) THEN On ELSE Off
<1>1. ShopTypeOK /\ {"broken", "succeed"} \subseteq Spots
  BY MediaLane DEF Spots
<1>2. \A spot \in {"broken", "succeed"} : LaneTo(l, spot) => Stays(l, spot)
  BY <1>1, LaneToStays
<1> QED BY <1>2 DEF FinishJob, mediaFrame, tables

LEMMA SucceedForm ==
  ASSUME ShopTyped, NEW l \in Lanes, SucceedJob(l)
  PROVE  LET m == Keep(l)
         IN  /\ At(l, "succeed") /\ UNCHANGED <<life, intents, msteps, shop, air, issued>>
             /\ \/ UNCHANGED media /\ Stays(l, "broken")
                \/ /\ Authorised(m) /\ Remakes(m, "succeeded", media[m].gen)
                   /\ Turns(l, IdleLane)
<1>1. /\ ShopTypeOK /\ At(l, "succeed") /\ Keep(l) \in Rows(media)
      /\ "broken" \in Spots /\ "succeeded" \in MediaStates
  BY MediaLane DEF SucceedJob, At, MediaSpots, Spots, MediaStates
<1>2. /\ LaneEnds(l) => Turns(l, IdleLane)
      /\ Broken(l) => Stays(l, "broken")
  BY <1>1, LaneEndsIdle, LaneToStays DEF Broken
<1>3. media' = [media EXCEPT ![Keep(l)].state = "succeeded"]
        => Remakes(Keep(l), "succeeded", media[Keep(l)].gen)
  BY <1>1, MediaStateSet
<1> QED BY <1>1, <1>2, <1>3 DEF SucceedJob, mediaFrame

LEMMA FailJobForm ==
  ASSUME ShopTyped, NEW l \in Lanes, FailJob(l)
  PROVE  LET m == Keep(l)
         IN  /\ At(l, "broken") /\ UNCHANGED <<life, intents, msteps, shop, air, issued>>
             /\ Turns(l, IdleLane)
             /\ \/ UNCHANGED media
                \/ /\ m \in OpenMedia
                   /\ Remakes(m, BrokenState(m), media[m].gen)
<1>1. /\ ShopTypeOK /\ At(l, "broken") /\ Keep(l) \in Rows(media)
      /\ BrokenState(Keep(l)) \in MediaStates
  BY MediaLane DEF FailJob, At, MediaSpots, MediaStates, BrokenState
<1>2. LaneEnds(l) => Turns(l, IdleLane)
  BY <1>1, LaneEndsIdle
<1>3. media' = [media EXCEPT ![Keep(l)].state = BrokenState(Keep(l))]
        => Remakes(Keep(l), BrokenState(Keep(l)), media[Keep(l)].gen)
  BY <1>1, MediaStateSet
<1>4. UNCHANGED media \/ Keep(l) \in OpenMedia
  BY <1>1 DEF FailJob, OpenMedia
<1> QED BY <1>1, <1>2, <1>3, <1>4 DEF FailJob, mediaFrame

LEMMA MediaFaultForm ==
  ASSUME ShopTyped, NEW l \in Lanes, MediaFault(l)
  PROVE  /\ lane[l].at \in {"step", "check"} /\ UNCHANGED tables
         /\ Stays(l, "broken")
<1>1. ShopTypeOK /\ "broken" \in Spots
  BY MediaLane DEF Spots
<1> QED BY <1>1, LaneToStays DEF MediaFault, Broken, mediaFrame, tables

LEMMA CrashForm ==
  ASSUME ShopTyped, NEW l \in Lanes, LaneCrash(l)
  PROVE  ~At(l, "idle") /\ UNCHANGED tables /\ Turns(l, IdleLane)
BY LaneEndsIdle DEF ShopTyped, LaneCrash, rowVars, tables

-----------------------------------------------------------------------------
\* Every variable has its type.

\* What a lane's step may write of the shop's tables.
Written ==
  /\ UNCHANGED <<life, shop>>
  /\ UNCHANGED intents \/ \E i, s : Restates(i, s)
  /\ UNCHANGED media \/ \E m, s, g : Remakes(m, s, g)
  /\ UNCHANGED msteps \/ \E m, k : \E v \in {"dispatched", "verified"} : Steps(m, k, v)
  /\ UNCHANGED <<air, issued>> \/ \E op \in Ops : \E act : Emit(op, act)

LEMMA LaneWrites ==
  ASSUME ShopTyped, Data, NEW l \in Lanes, Lane_(l)
  PROVE  Written
<1>1. UNCHANGED tables => Written
  BY DEF tables, Written
<1>2. CASE \/ TakeIntent(l) \/ VerifyIntent(l) \/ LookAtStatus(l) \/ CheckPhotos(l)
           \/ ReadStatus(l) \/ StatusFault(l) \/ ReviewIntent(l)
  BY <1>1, <1>2, TakeIntentForm, VerifyIntentForm, LookForm, CheckPhotosForm,
     ReadForm, StatusFaultForm, ReviewIntentForm
<1>3. CASE \/ DecideStep(l) \/ RecheckEnable(l) \/ CheckStep(l) \/ FinishJob(l)
           \/ MediaFault(l) \/ LaneCrash(l)
  BY <1>1, <1>3, DecideForm, RecheckForm, CheckForm, FinishForm, MediaFaultForm,
     CrashForm
<1>4. CASE Prepare(l) \/ AcknowledgeIntent(l) \/ FailIntent(l) \/ ConfirmIntent(l)
  BY <1>4, PrepareForm, AcknowledgeForm, FailIntentForm, ConfirmForm DEF Written
<1>5. CASE PutStatus(l) \/ SendStep(l)
  BY <1>5, PutForm, SendForm DEF Written
<1>6. CASE MarkStep(l) \/ SealStep(l)
  BY <1>6, MarkForm, SealForm DEF Written
<1>7. CASE Reopen(l) \/ SucceedJob(l) \/ FailJob(l)
  BY <1>7, ReopenForm, SucceedForm, FailJobForm DEF Written
<1>8. CASE TakeMedia(l) \/ ReviewMedia(l)
  <2>1. PICK m \in Rows(media), review \in BOOLEAN : EnterJob(l, m, review)
    BY <1>8, CurrentSetIs DEF TakeMedia, ReviewMedia, ShopTyped
  <2> QED BY <2>1, EnterForm DEF Written
<1> QED BY <1>2, <1>3, <1>4, <1>5, <1>6, <1>7, <1>8
     DEF Lane_, LaneStep, Visibility, DeliverMedia

\* No row is lost, and none is added.
RowsStay == /\ \A i \in Rows(intents) : i \in Rows(intents)'
            /\ \A m \in Rows(media) : m \in Rows(media)'

LEMMA WrittenTypes ==
  ASSUME ShopTyped, Written
  PROVE  /\ RowsStay /\ Rows(intents)' = Rows(intents) /\ Rows(media)' = Rows(media)
         /\ life' \in Life /\ shop' \in Shop
         /\ intents' \in [IntentId -> Intent \cup {NoRow}]
         /\ media' \in [MediaId -> Media \cup {NoRow}]
         /\ msteps' \in [MediaId -> [Keys -> StepStates]]
         /\ \A a \in air' : a.op \in Ops
         /\ issued' \in [Ops -> Nat]
<1>1. /\ ShopTypeOK /\ NoRow \notin Intent /\ NoRow \notin Media
      /\ Rows(intents) = {i \in IntentId : intents[i] # NoRow}
      /\ Rows(media) = {m \in MediaId : media[m] # NoRow}
  BY RowTypes DEF ShopTyped, ShopTypeOK, Rows
<1>2. /\ intents' \in [IntentId -> Intent \cup {NoRow}]
      /\ Rows(intents)' = Rows(intents)
  <2>1. CASE UNCHANGED intents
    BY <1>1, <2>1 DEF ShopTypeOK, Rows
  <2>2. CASE \E i, s : Restates(i, s)
    BY <1>1, <2>2 DEF Restates, Rows
  <2> QED BY <2>1, <2>2 DEF Written
<1>3. /\ media' \in [MediaId -> Media \cup {NoRow}]
      /\ Rows(media)' = Rows(media)
  <2>1. CASE UNCHANGED media
    BY <1>1, <2>1 DEF ShopTypeOK, Rows
  <2>2. CASE \E m, s, g : Remakes(m, s, g)
    BY <1>1, <2>2 DEF Remakes, Rows
  <2> QED BY <2>1, <2>2 DEF Written
<1>4. (\A a \in air' : a.op \in Ops) /\ issued' \in [Ops -> Nat]
  BY <1>1 DEF Written, ShopTypeOK, Emit
<1>5. msteps' \in [MediaId -> [Keys -> StepStates]]
  BY <1>1 DEF Written, ShopTypeOK, Steps
<1> QED BY <1>1, <1>2, <1>3, <1>4, <1>5 DEF RowsStay, Written, ShopTypeOK

\* A lane goes on where it is meant to.
LEMMA LaneShapes ==
  ASSUME ShopTyped, Data, NEW l \in Lanes, Lane_(l)
  PROVE  lane' \in [Lanes -> Lane] /\ OtherLanes(l) /\ Shaped(l)'
<1>1. ShopTypeOK /\ Written /\ Shaped(l)
  BY LaneWrites DEF ShopTyped
<1>2. Rows(intents)' = Rows(intents) /\ Rows(media)' = Rows(media)
  BY <1>1, WrittenTypes
<1>3. Turns(l, IdleLane) => lane' \in [Lanes -> Lane] /\ OtherLanes(l) /\ Shaped(l)'
  BY DEF Turns, Shaped, IdleLane, MediaSpots, IntentSpots, KeySpots
<1>4. ASSUME NEW r, Turns(l, r), r.at \in IntentSpots, r.id \in Rows(intents)
      PROVE  lane' \in [Lanes -> Lane] /\ OtherLanes(l) /\ Shaped(l)'
  BY <1>2, <1>4 DEF Turns, Shaped, Keep, MediaSpots, IntentSpots, KeySpots
<1>5. ASSUME NEW spot \in IntentSpots, Stays(l, spot), lane[l].at \in IntentSpots
      PROVE  lane' \in [Lanes -> Lane] /\ OtherLanes(l) /\ Shaped(l)'
  BY <1>1, <1>2, <1>5 DEF Stays, SameHold, Shaped, Keep, MediaSpots, IntentSpots, KeySpots
<1>6. ASSUME NEW spot \in MediaSpots, NEW k, NEW done, Holds(l, spot, k, done),
             lane[l].at \in MediaSpots, spot \in KeySpots => k \in Keys,
             spot = "recheck" => k = StatusKey("enable")
      PROVE  lane' \in [Lanes -> Lane] /\ OtherLanes(l) /\ Shaped(l)'
  BY <1>1, <1>2, <1>6 DEF Holds, Shaped, Keep, MediaSpots, IntentSpots, KeySpots
<1>7. \A spot : Stays(l, spot) => Holds(l, spot, lane[l].key, lane[l].done)
  BY StaysHolds
<1>8. CASE \/ TakeIntent(l) \/ LookAtStatus(l) \/ CheckPhotos(l) \/ ReviewIntent(l)
  <2>1. \E r : Turns(l, r) /\ r.at \in IntentSpots /\ r.id \in Rows(intents)
    <3>1. CASE TakeIntent(l)
      BY <3>1, TakeIntentForm DEF IntentSpots
    <3>2. CASE ReviewIntent(l)
      BY <3>2, ReviewIntentForm DEF IntentSpots
    <3>3. CASE LookAtStatus(l)
      BY <1>1, <3>3, LookForm DEF IntentSpots, Shaped, At
    <3>4. CASE CheckPhotos(l)
      BY <1>1, <3>4, CheckPhotosForm DEF IntentSpots, Shaped, At
    <3> QED BY <1>8, <3>1, <3>2, <3>3, <3>4
  <2> QED BY <1>4, <2>1
<1>9. CASE \/ VerifyIntent(l) \/ Prepare(l) \/ PutStatus(l) \/ ReadStatus(l)
           \/ AcknowledgeIntent(l) \/ FailIntent(l) \/ ConfirmIntent(l) \/ StatusFault(l)
  <2>1. \/ Turns(l, IdleLane)
        \/ lane[l].at \in IntentSpots /\ \E spot \in IntentSpots : Stays(l, spot)
    BY <1>9, VerifyIntentForm, PrepareForm, PutForm, ReadForm, AcknowledgeForm,
       FailIntentForm, ConfirmForm, StatusFaultForm DEF IntentSpots, At
  <2> QED BY <1>3, <1>5, <2>1
<1>10. CASE TakeMedia(l) \/ ReviewMedia(l)
  <2>1. PICK m \in Rows(media), review \in BOOLEAN : EnterJob(l, m, review)
    BY <1>10, CurrentSetIs DEF TakeMedia, ReviewMedia, ShopTyped
  <2>2. PICK r \in Lane : Turns(l, r) /\ r.id = m /\ r.at \in {"step", "broken"}
    BY <2>1, EnterForm
  <2> QED BY <1>2, <2>2 DEF Turns, Shaped, Keep, MediaSpots, IntentSpots, KeySpots
<1>11. CASE DecideStep(l)
  <2>1. PICK k \in Keys : \/ Stays(l, "broken")
                          \/ \E spot \in {"seal", "reopen", "mark"} :
                               Holds(l, spot, k, lane[l].done)
                          \/ Holds(l, "step", NoPhoto, lane[l].done \cup {k})
    BY <1>11, DecideForm
  <2>2. lane[l].at \in MediaSpots
    BY <1>11, DecideForm DEF At, MediaSpots
  <2>3. \/ \E d : \E spot \in {"seal", "reopen", "mark"} : Holds(l, spot, k, d)
        \/ \E d, q : \E spot \in {"broken", "step"} : Holds(l, spot, q, d)
    BY <1>7, <2>1
  <2>4. {"seal", "reopen", "mark", "broken", "step"} \subseteq MediaSpots
    BY DEF MediaSpots
  <2>5. "step" \notin KeySpots /\ "broken" \notin KeySpots
    BY DEF KeySpots
  <2> QED BY <1>6, <2>2, <2>3, <2>4, <2>5
<1>12. CASE MarkStep(l)
  <2>1. lane[l].at \in MediaSpots /\ lane[l].key \in Keys
    BY <1>12, MarkForm, MediaLane DEF At, MediaSpots, KeySpots
  <2>2. PICK spot \in {"broken", "recheck", "send"} :
          Stays(l, spot) /\ (spot = "recheck" => lane[l].key.act = "enable")
    BY <1>12, MarkForm
  <2>3. lane[l].key.act = "enable" => lane[l].key = StatusKey("enable")
    BY <2>1 DEF Keys, StatusKey
  <2>4. {"broken", "recheck", "send"} \subseteq MediaSpots
    BY DEF MediaSpots
  <2> QED BY <1>6, <1>7, <2>1, <2>2, <2>3, <2>4
<1>13. CASE \/ Reopen(l) \/ RecheckEnable(l) \/ SendStep(l) \/ CheckStep(l) \/ FinishJob(l)
            \/ SucceedJob(l) \/ FailJob(l) \/ MediaFault(l) \/ LaneCrash(l)
  <2>1. \/ Turns(l, IdleLane)
        \/ \E spot \in {"broken", "succeed"} : Stays(l, spot) /\ lane[l].at \in MediaSpots
        \/ \E spot \in {"send", "check", "seal"} : Stays(l, spot) /\ lane[l].at \in KeySpots
    BY <1>13, ReopenForm, RecheckForm, SendForm, CheckForm, FinishForm, SucceedForm,
       FailJobForm, MediaFaultForm, CrashForm DEF At, MediaSpots, KeySpots
  <2>2. /\ {"broken", "succeed", "send", "check", "seal"} \cup KeySpots \subseteq MediaSpots
        /\ {"broken", "succeed"} \cap KeySpots = {}
        /\ lane[l].at \in KeySpots => lane[l].key \in Keys
    BY MediaLane DEF MediaSpots, KeySpots
  <2> QED BY <1>3, <1>6, <1>7, <2>1, <2>2
<1>14. CASE SealStep(l)
  <2>1. \/ Stays(l, "broken")
        \/ \E d : Holds(l, "step", NoPhoto, d)
    BY <1>14, SealForm
  <2>2. lane[l].at \in MediaSpots /\ {"broken", "step"} \subseteq MediaSpots
        /\ {"broken", "step"} \cap KeySpots = {}
    BY <1>14, SealForm DEF At, MediaSpots, KeySpots
  <2> QED BY <1>6, <1>7, <2>1, <2>2
<1> QED BY <1>8, <1>9, <1>10, <1>11, <1>12, <1>13, <1>14
     DEF Lane_, LaneStep, Visibility, DeliverMedia

-----------------------------------------------------------------------------
\* What each decision of a person writes.

\* Row n of the media jobs is new.
NewJob(n, row, ids, enable) ==
  /\ n \in MediaId /\ IsNext(media, n) /\ media[n] = NoRow
  /\ media'[n] \in Media /\ media'[n].row = row /\ media'[n].ids = ids
  /\ media'[n].enable = enable /\ media'[n].gen = 0 /\ media'[n].state = "pending"

LEMMA SavePhotosForm ==
  ASSUME ShopTypeOK, SavePhotos
  PROVE  /\ UNCHANGED <<life, intents, msteps, shop, air, issued, lane, product, request,
                        jobs, acked, gate, spent, idLock>>
         /\ product.active /\ OpenIntents = {}
         /\ \A m \in OpenMedia : media[m].row # life.row
         /\ media' \in [MediaId -> Media \cup {NoRow}]
         /\ \E m \in MediaId, ids \in SUBSET Photos, enable \in BOOLEAN :
              /\ NewJob(m, life.row, ids, enable)
              /\ \A n \in MediaId \ {m} : media'[n] = media[n]
<1>1. PICK m \in MediaId, ids \in SUBSET Photos, enable \in BOOLEAN :
        /\ IsNext(media, m)
        /\ media' = [media EXCEPT ![m] =
             [row |-> life.row, ids |-> ids, enable |-> enable /\ ids # {},
              gen |-> 0, binding |-> 0, state |-> "pending"]]
  BY DEF SavePhotos
<1> DEFINE lit == enable /\ ids # {}
           r == [row |-> life.row, ids |-> ids, enable |-> lit,
                 gen |-> 0, binding |-> 0, state |-> "pending"]
<1>2. /\ r \in Media /\ r.row = life.row /\ r.ids = ids /\ r.enable = lit /\ r.gen = 0
      /\ r.state = "pending"
  <2>1. life.row \in Nat /\ lit \in BOOLEAN
    BY DEF ShopTypeOK, Life
  <2> HIDE DEF lit
  <2> QED BY <2>1 DEF Media
<1>3. media' = [media EXCEPT ![m] = r] /\ lit \in BOOLEAN
  BY <1>1
<1> HIDE DEF r, lit
<1>4. /\ media' \in [MediaId -> Media \cup {NoRow}] /\ NewJob(m, life.row, ids, lit)
      /\ \A n \in MediaId \ {m} : media'[n] = media[n]
  BY <1>1, <1>2, <1>3 DEF NewJob, IsNext, ShopTypeOK
<1>5. UNCHANGED <<life, intents, msteps, shop, air, issued, lane, product, request,
                  jobs, acked, gate, spent, idLock>>
  BY DEF SavePhotos, amberFrame, shopOnly, ledgerVars, historyVars, lockVars
<1>6. product.active /\ OpenIntents = {} /\ \A m2 \in OpenMedia : media[m2].row # life.row
  BY DEF SavePhotos
<1> QED BY <1>3, <1>4, <1>5, <1>6

\* Intent k, with a queued one superseded.
Over(k, r) ==
  IF intents[k] = NoRow THEN r = NoRow
  ELSE /\ r \in Intent /\ r.kind = intents[k].kind /\ r.row = intents[k].row
       /\ r.print = intents[k].print /\ r.target = intents[k].target
       /\ r.gen = intents[k].gen /\ r.prev = intents[k].prev
       /\ r.state = IF intents[k].state = "queued" THEN "superseded"
                    ELSE intents[k].state

LEMMA QueuedOver ==
  ASSUME ShopTypeOK
  PROVE  /\ QueuedSuperseded \in [IntentId -> Intent \cup {NoRow}]
         /\ \A k \in IntentId : Over(k, QueuedSuperseded[k])
<1>1. \A k \in IntentId : intents[k] # NoRow => intents[k] \in Intent
  BY DEF ShopTypeOK
<1>2. ASSUME NEW b \in Intent
      PROVE  LET r == [b EXCEPT !.state = "superseded"]
             IN  /\ r \in Intent /\ r.kind = b.kind /\ r.row = b.row
                 /\ r.print = b.print /\ r.target = b.target
                 /\ r.gen = b.gen /\ r.prev = b.prev /\ r.state = "superseded"
  BY DEF Intent
<1>3. ASSUME NEW k \in IntentId
      PROVE  Over(k, QueuedSuperseded[k]) /\ QueuedSuperseded[k] \in Intent \cup {NoRow}
  <2>1. CASE intents[k] # NoRow /\ intents[k].state = "queued"
    <3>1. QueuedSuperseded[k] = [intents[k] EXCEPT !.state = "superseded"]
      BY <2>1 DEF QueuedSuperseded
    <3> QED BY <1>1, <1>2, <2>1, <3>1 DEF Over
  <2>2. CASE ~(intents[k] # NoRow /\ intents[k].state = "queued")
    <3>1. QueuedSuperseded[k] = intents[k]
      BY <2>2 DEF QueuedSuperseded
    <3> QED BY <1>1, <2>2, <3>1 DEF Over
  <2> QED BY <2>1, <2>2
<1>4. QueuedSuperseded = [k \in IntentId |-> QueuedSuperseded[k]]
  BY DEF QueuedSuperseded
<1> QED BY <1>3, <1>4

\* Intent i is new.
NewIntent(i, kind, target, states) ==
  /\ i \in IntentId /\ IsNext(intents, i) /\ intents[i] = NoRow
  /\ intents'[i] \in Intent /\ intents'[i].kind = kind /\ intents'[i].row = life.row
  /\ intents'[i].print = FingerprintNow' /\ intents'[i].target = target
  /\ intents'[i].state \in states

LEMMA NewIntentIs ==
  ASSUME ShopTypeOK, life' \in Life, product' \in Product,
         NEW kind \in {"hide", "restore"}, NEW target \in {On, Off}, NEW gen \in Nat,
         NEW state \in {"queued", "blocked"}, NEW r,
         r = [kind |-> kind, row |-> life.row,
              print |-> [life |-> life', product |-> product'],
              target |-> target, prev |-> 0, gen |-> gen, state |-> state]
  PROVE  /\ r \in Intent /\ r.kind = kind /\ r.row = life.row
         /\ r.print = FingerprintNow' /\ r.target = target /\ r.gen = gen
         /\ r.state = state
<1> DEFINE print == [life |-> life', product |-> product']
<1>1. print \in Fingerprint /\ life.row \in Nat /\ print = FingerprintNow'
  BY DEF Fingerprint, ShopTypeOK, Life, FingerprintNow
<1>2. r = [kind |-> kind, row |-> life.row, print |-> print,
           target |-> target, prev |-> 0, gen |-> gen, state |-> state]
  OBVIOUS
<1> HIDE DEF print
<1>3. /\ r \in Intent /\ r.kind = kind /\ r.row = life.row /\ r.print = print
      /\ r.target = target /\ r.gen = gen /\ r.state = state
  BY <1>1, <1>2 DEF Intent
<1> QED BY <1>1, <1>3

LEMMA VersionRises ==
  ASSUME life \in Life, life' = [life EXCEPT !.version = @ + 1]
  PROVE  /\ life' \in Life /\ life'.row = life.row /\ life'.since = life.since
         /\ life'.version = life.version + 1
BY DEF Life

LEMMA ArchiveForm ==
  ASSUME ShopTypeOK, Data, Archive
  PROVE  /\ UNCHANGED <<media, msteps, shop, air, issued, lane, jobs, acked, gate, spent,
                        idLock>>
         /\ product.active /\ ArchiveAllowed /\ RequestSync
         /\ ~product'.active /\ product'.input = product.input
         /\ life' \in Life /\ life'.row = life.row /\ life'.version = life.version + 1
         /\ intents' \in [IntentId -> Intent \cup {NoRow}]
         /\ \E i \in IntentId :
              /\ NewIntent(i, "hide", Off, {"queued", "blocked"})
              /\ \A k \in IntentId \ {i} : Over(k, intents'[k])
<1>1. PICK i \in IntentId :
        /\ IsNext(intents, i)
        /\ intents' = [QueuedSuperseded EXCEPT ![i] =
             [kind |-> "hide", row |-> life.row,
              print |-> [life |-> life', product |-> product'],
              target |-> Off, prev |-> 0, gen |-> 0,
              state |-> IF ConfirmedRemote THEN "queued" ELSE "blocked"]]
  BY DEF Archive
<1>2. /\ life' \in Life /\ life'.row = life.row /\ life'.version = life.version + 1
  BY VersionRises DEF ShopTypeOK, Archive
<1>3. product' \in Product /\ ~product'.active /\ product'.input = product.input
  BY DEF Archive, Data, Product
<1> DEFINE state == IF ConfirmedRemote THEN "queued" ELSE "blocked"
           f == QueuedSuperseded
           r == [kind |-> "hide", row |-> life.row,
                 print |-> [life |-> life', product |-> product'],
                 target |-> Off, prev |-> 0, gen |-> 0, state |-> state]
<1>4. state \in {"queued", "blocked"} /\ 0 \in Nat /\ Off \in {On, Off}
  BY DEF On, Off
<1>5. intents' = [f EXCEPT ![i] = r] /\ f \in [IntentId -> Intent \cup {NoRow}]
  BY <1>1, QueuedOver
<1> HIDE DEF state
<1>10. /\ r \in Intent /\ r.kind = "hide" /\ r.row = life.row
       /\ r.print = FingerprintNow' /\ r.target = Off /\ r.state = state
  BY <1>2, <1>3, <1>4, NewIntentIs
<1> HIDE DEF r, f
<1>6. /\ NewIntent(i, "hide", Off, {state})
      /\ intents' \in [IntentId -> Intent \cup {NoRow}]
      /\ \A k \in IntentId \ {i} : intents'[k] = f[k]
  BY <1>1, <1>5, <1>10 DEF NewIntent, IsNext
<1>7. UNCHANGED <<media, msteps, shop, air, issued, lane, jobs, acked, gate, spent, idLock>>
  BY DEF Archive, amberFrame, shopOnly, ledgerVars, historyVars, lockVars
<1>8. NewIntent(i, "hide", Off, {"queued", "blocked"})
  BY <1>4, <1>6 DEF NewIntent
<1>9. \A k \in IntentId \ {i} : Over(k, intents'[k])
  BY <1>6, QueuedOver DEF f
<1> QED BY <1>1, <1>2, <1>3, <1>6, <1>7, <1>8, <1>9 DEF Archive

LEMMA RestoreForm ==
  ASSUME ShopTypeOK, Data, Data', Restore
  PROVE  /\ UNCHANGED <<media, msteps, shop, air, issued, lane, jobs, acked, gate, spent,
                        idLock>>
         /\ gate /\ idLock = NoProc /\ Restorable /\ RequestSync
         /\ product'.active /\ product'.input = product.input
         /\ life' \in Life /\ life'.row = life.row /\ life'.version = life.version + 1
         /\ intents' \in [IntentId -> Intent \cup {NoRow}]
         /\ \/ \A k \in IntentId : Over(k, intents'[k])
            \/ \E i \in IntentId :
                 /\ intents[Hide].state = "verified"
                 /\ NewIntent(i, "restore", intents[Hide].prev, {"queued"})
                 /\ intents'[i].gen = request'.desired
                 /\ \A k \in IntentId \ {i} : intents'[k] = intents[k]
<1> DEFINE after == [product EXCEPT !.active = TRUE]
           row == [life EXCEPT !.version = @ + 1]
<1>1. /\ UNCHANGED <<media, msteps, shop, air, issued, lane, jobs, acked, gate, spent, idLock>>
      /\ gate /\ idLock = NoProc /\ Restorable /\ RequestSync
      /\ product' = after /\ life' = row
  BY DEF Restore, amberFrame, shopOnly, ledgerVars, historyVars, lockVars
<1>2. /\ product' \in Product /\ product'.active /\ product'.input = product.input
      /\ request'.desired \in Nat
  BY <1>1 DEF Data, Product, Request
<1>3. /\ life' \in Life /\ life'.row = life.row /\ life'.version = life.version + 1
  BY <1>1, VersionRises DEF ShopTypeOK
<1>4. CASE intents[Hide].state = "verified" /\ intents[Hide].prev # 0
  <2> DEFINE target == intents[Hide].prev
             gen == request'.desired
  <2>1. PICK i \in IntentId :
          /\ IsNext(intents, i)
          /\ intents' = [intents EXCEPT ![i] =
               [kind |-> "restore", row |-> life.row,
                print |-> [life |-> life', product |-> product'],
                target |-> target, prev |-> 0, gen |-> gen, state |-> "queued"]]
    <3>1. \E i \in IntentId :
            /\ IsNext(intents, i)
            /\ intents' = [intents EXCEPT ![i] =
                 [kind |-> "restore", row |-> life.row,
                  print |-> [life |-> row, product |-> after],
                  target |-> target, prev |-> 0, gen |-> gen, state |-> "queued"]]
      BY <1>4 DEF Restore
    <3> QED BY <1>1, <3>1
  <2>2. Hide \in Rows(intents)
    <3> DEFINE hides == {k \in Rows(intents) : /\ intents[k].kind = "hide"
                                               /\ intents[k].row = life.row}
    <3>1. hides # {} /\ Hide = Newest(hides)
      BY <1>1 DEF Restorable, Hide
    <3>2. hides \subseteq 1..MaxIntents /\ MaxIntents \in Nat
      BY RowTypes, ShopAssumption DEF IntentId
    <3> HIDE DEF hides
    <3>3. Hide \in hides
      BY <3>1, <3>2, NewestOf
    <3> QED BY <3>3 DEF hides
  <2>3. target \in {On, Off} /\ gen \in Nat
    BY <1>2, <1>4, <2>2, RowTypes DEF Intent
  <2> DEFINE f == intents
             r == [kind |-> "restore", row |-> life.row,
                   print |-> [life |-> life', product |-> product'],
                   target |-> target, prev |-> 0, gen |-> gen, state |-> "queued"]
  <2>4. intents' = [f EXCEPT ![i] = r] /\ f \in [IntentId -> Intent \cup {NoRow}]
    BY <2>1 DEF ShopTypeOK
  <2> HIDE DEF target, gen
  <2>5. /\ r \in Intent /\ r.kind = "restore" /\ r.row = life.row
        /\ r.print = FingerprintNow' /\ r.target = target /\ r.gen = gen
        /\ r.state = "queued"
    BY <1>2, <1>3, <2>3, NewIntentIs
  <2> HIDE DEF r
  <2>6. /\ NewIntent(i, "restore", target, {"queued"}) /\ intents'[i] = r
        /\ intents' \in [IntentId -> Intent \cup {NoRow}]
        /\ \A k \in IntentId \ {i} : intents'[k] = intents[k]
    BY <2>1, <2>4, <2>5 DEF NewIntent, IsNext
  <2> QED BY <1>1, <1>2, <1>3, <1>4, <2>5, <2>6 DEF target, gen
<1>5. CASE ~(intents[Hide].state = "verified" /\ intents[Hide].prev # 0)
  <2>1. intents' = QueuedSuperseded
    BY <1>5 DEF Restore
  <2> QED BY <1>1, <1>2, <1>3, <2>1, QueuedOver
<1> QED BY <1>4, <1>5

LEMMA RecountForm ==
  ASSUME ShopTypeOK, Data, Data', Recount
  PROVE  /\ UNCHANGED <<intents, msteps, shop, air, issued, lane, jobs, acked, gate, idLock>>
         /\ product.active /\ FenceOpen /\ RequestSync /\ Spend("edit")
         /\ product'.active /\ product'.input # product.input
         /\ life' \in Life /\ life'.row = life.row + 1
         /\ media' \in [MediaId -> Media \cup {NoRow}]
         /\ \/ CurrentSet = 0 /\ UNCHANGED media
            \/ LET m == CurrentSet
               IN  /\ m # 0 /\ Inheritable(m)
                   /\ \E n \in MediaId :
                        /\ m # n
                        /\ NewJob(n, life.row + 1, media[m].ids, media[m].enable)
                        /\ media'[m] \in Media /\ media'[m].gen = media[m].gen
                        /\ media'[m].row = media[m].row /\ media'[m].ids = media[m].ids
                        /\ media'[m].enable = media[m].enable
                        /\ media'[m].state = IF media[m].state = "succeeded"
                                             THEN "succeeded" ELSE "superseded"
                        /\ \A k \in MediaId \ {m, n} : media'[k] = media[k]
<1>1. /\ UNCHANGED <<intents, msteps, shop, air, issued, lane, jobs, acked, gate, idLock>>
      /\ product.active /\ FenceOpen /\ RequestSync /\ Spend("edit")
      /\ life' = [row |-> life.row + 1, since |-> request'.desired, version |-> 0]
  BY DEF Recount, amberFrame, shopOnly, ledgerVars, historyVars, lockVars
<1>2. product'.active /\ product'.input # product.input
  <2>1. PICK i \in Inputs \ {product.input} : product' = [product EXCEPT !.input = i]
    BY DEF Recount
  <2> QED BY <1>1, <2>1 DEF Data, Product
<1>3. life' \in Life /\ life'.row = life.row + 1 /\ life.row \in Nat
  <2>1. request'.desired \in Nat /\ life.row \in Nat
    BY DEF Data, Request, ShopTypeOK, Life
  <2> QED BY <1>1, <2>1 DEF Life
<1>4. CASE CurrentSet = 0
  <2>1. UNCHANGED media
    BY <1>4 DEF Recount
  <2> QED BY <1>1, <1>2, <1>3, <1>4, <2>1 DEF ShopTypeOK
<1>5. CASE CurrentSet # 0
  <2> DEFINE m == CurrentSet
             b == media[m]
  <2>1. m \in Rows(media) /\ m \in MediaId /\ b \in Media /\ b # NoRow
    BY <1>5, CurrentSetIs, RowTypes
  <2>2. PICK n \in MediaId : IsNext(media, n) /\ media' = Inherited(m, n)
    BY <1>5 DEF Recount
  <2>3. media[n] = NoRow /\ m # n /\ Inheritable(m)
    BY <1>5, <2>1, <2>2 DEF IsNext, Recount
  <2> DEFINE ids == b.ids
             lit == b.enable
             r == [row |-> life.row + 1, ids |-> ids, enable |-> lit,
                   gen |-> 0, binding |-> 0, state |-> "pending"]
             s == IF b.state = "succeeded" THEN "succeeded" ELSE "superseded"
             o == [b EXCEPT !.state = s]
  <2>4. /\ ids \in SUBSET Photos /\ lit \in BOOLEAN
        /\ s \in {"succeeded", "superseded"}
    BY <2>1 DEF Media
  <2>5. media'[n] = r
    BY <2>1, <2>2, <2>3 DEF Inherited, ShopTypeOK
  <2>6. media'[m] = o
    <3>1. media'[m] = [b EXCEPT !.state = IF @ = "succeeded" THEN @ ELSE "superseded"]
      BY <2>1, <2>2, <2>3 DEF Inherited, ShopTypeOK
    <3>2. (IF b.state = "succeeded" THEN b.state ELSE "superseded") = s
      OBVIOUS
    <3> QED BY <3>1, <3>2
  <2>7. /\ \A k \in MediaId \ {m, n} : media'[k] = media[k]
        /\ media' = [k \in MediaId |-> media'[k]]
    BY <2>1, <2>2, <2>3 DEF Inherited, ShopTypeOK
  <2> HIDE DEF s, ids, lit
  <2>8. /\ r \in Media /\ r.row = life.row + 1 /\ r.ids = ids /\ r.enable = lit
        /\ r.gen = 0 /\ r.state = "pending"
    BY <1>3, <2>4 DEF Media
  <2>9. /\ o \in Media /\ o.gen = b.gen /\ o.row = b.row /\ o.ids = b.ids
        /\ o.enable = b.enable /\ o.state = s
    <3> HIDE DEF b
    <3> QED BY <2>1, <2>4 DEF Media
  <2> HIDE DEF r, o
  <2>10. media' \in [MediaId -> Media \cup {NoRow}]
    <3>1. \A k \in MediaId : media'[k] \in Media \cup {NoRow}
      BY <2>5, <2>6, <2>7, <2>8, <2>9 DEF ShopTypeOK
    <3> QED BY <2>7, <3>1
  <2>11. NewJob(n, life.row + 1, ids, lit)
    BY <2>2, <2>3, <2>5, <2>8 DEF NewJob
  <2> QED BY <1>1, <1>2, <1>3, <1>5, <2>3, <2>6, <2>7, <2>9, <2>10, <2>11
      DEF s, ids, lit
<1> QED BY <1>4, <1>5

-----------------------------------------------------------------------------
\* Magento.

LEMMA AppliedIs ==
  ASSUME shop \in Shop, NEW act, NEW photo
  PROVE  /\ Applied(act, photo) \in Shop
         /\ Applied(act, photo).status = (IF act = "hide" THEN Off
              ELSE IF act = "enable" THEN On ELSE shop.status)
         /\ \A p \in Photos : Applied(act, photo).gallery[p] =
              (IF act \in {"hide", "enable"} \/ p # photo THEN shop.gallery[p]
               ELSE IF act = "remove" THEN "disabled" ELSE "shown")
<1>1. act = "hide" \/ act = "enable" \/ act = "remove"
      \/ act \notin {"hide", "enable", "remove"}
  OBVIOUS
<1> DEFINE g == shop.gallery
<1>2. ASSUME NEW v \in {"disabled", "shown"}
      PROVE  LET r == [shop EXCEPT !.gallery[photo] = v]
             IN  /\ r \in Shop /\ r.status = shop.status
                 /\ \A p \in Photos : r.gallery[p] = IF p = photo THEN v ELSE g[p]
  <2> DEFINE h == [g EXCEPT ![photo] = v]
             r == [shop EXCEPT !.gallery = h]
  <2>1. h \in Gallery /\ \A p \in Photos : h[p] = IF p = photo THEN v ELSE g[p]
    BY DEF Shop, Gallery
  <2> HIDE DEF h
  <2>2. r \in Shop /\ r.status = shop.status /\ r.gallery = h
    BY <2>1 DEF Shop
  <2>3. r = [shop EXCEPT !.gallery[photo] = v]
    BY DEF h
  <2> HIDE DEF r
  <2> QED BY <2>1, <2>2, <2>3
<1>3. ASSUME NEW s \in {On, Off}
      PROVE  LET r == [shop EXCEPT !.status = s]
             IN  r \in Shop /\ r.status = s /\ r.gallery = g
  BY DEF Shop
<1>4. CASE act = "hide"
  <2>1. Applied(act, photo) = [shop EXCEPT !.status = Off]
    BY <1>4 DEF Applied
  <2> QED BY <1>3, <1>4, <2>1
<1>5. CASE act = "enable"
  <2>1. Applied(act, photo) = [shop EXCEPT !.status = On]
    BY <1>5 DEF Applied
  <2> QED BY <1>3, <1>5, <2>1
<1>6. CASE act = "remove"
  <2>1. Applied(act, photo) = [shop EXCEPT !.gallery[photo] = "disabled"]
    BY <1>6 DEF Applied
  <2> QED BY <1>2, <1>6, <2>1
<1>7. CASE act \notin {"hide", "enable", "remove"}
  <2>1. Applied(act, photo) = [shop EXCEPT !.gallery[photo] = "shown"]
    BY <1>7 DEF Applied
  <2> QED BY <1>2, <1>7, <2>1
<1> QED BY <1>1, <1>4, <1>5, <1>6, <1>7

LEMMA WeatherForm ==
  ASSUME ShopTypeOK, Weather
  PROVE  /\ UNCHANGED <<life, intents, media, msteps, issued, lane, idLock, product,
                        request, jobs, acked, gate>>
         /\ shop' \in Shop
         /\ \/ \E a \in air : /\ air' = air \ {a}
                              /\ shop' = Applied(a.act, a.op.key.photo)
            \/ \E a \in air : air' = air \ {a} /\ shop' = shop
            \/ /\ Spend("foreign") /\ air' = air /\ shop'.gallery = shop.gallery
<1>1. shop \in Shop
  BY DEF ShopTypeOK
<1>2. UNCHANGED <<life, intents, media, msteps, issued, lane, idLock, product,
                  request, jobs, acked, gate>>
  BY DEF Weather, Arrive, Vanish, ForeignStatus, vars, amberVars, ledgerVars, lockVars,
     rowVars, nativeVars, historyVars, amberFrame
<1>3. CASE Arrive
  BY <1>1, <1>2, <1>3, AppliedIs DEF Arrive
<1>4. CASE Vanish
  BY <1>1, <1>2, <1>4 DEF Vanish
<1>5. CASE ForeignStatus
  <2> DEFINE s == On + Off - shop.status
  <2>1. s \in {On, Off}
    BY <1>1 DEF Shop, On, Off
  <2>2. shop' = [shop EXCEPT !.status = s] /\ air' = air /\ Spend("foreign")
    BY <1>5 DEF ForeignStatus
  <2> HIDE DEF s
  <2>3. shop' \in Shop /\ shop'.gallery = shop.gallery
    BY <1>1, <2>1, <2>2 DEF Shop
  <2> QED BY <1>2, <2>2, <2>3
<1> QED BY <1>3, <1>4, <1>5 DEF Weather

-----------------------------------------------------------------------------
\* The native side and the types, over every step.

LEMMA SyncShopInit == ShopInit => SyncInv
<1> SUFFICES ASSUME ShopInit PROVE SyncInv
  OBVIOUS
<1>1. InitialProduct \in Product /\ product = InitialProduct
  BY DataAssumption DEF InitialProduct, Product, ShopInit
<1>2. Delivered \in Job /\ Delivered # NoRow
  <2>1. [f \in Fields |-> Absent] \in [Fields -> Held] /\ {Core} \in SUBSET Fields
    BY DataAssumption DEF Held
  <2> DEFINE b == [f \in Fields |-> Absent]
             c == {Core}
             d == InitialProduct
  <2>2. Delivered = [state |-> "succeeded", auto |-> 1, amber |-> d, binding |-> 1,
                     ops |-> c, base |-> b, failure |-> "none"]
    BY DEF Delivered
  <2> HIDE DEF b, c, d
  <2>3. Delivered \in Job
    BY <1>1, <2>1, <2>2 DEF b, c, d, Job, JobStates, Codes
  <2> QED BY <2>3, JobIsNoRow
<1>3. /\ request \in Request /\ request.active = NoJob /\ request.desired = 1
      /\ request.state = "synced" /\ RowChecked(request)
  BY DEF ShopInit, Request, Reasons, NoJob, RowChecked
<1>4. /\ jobs \in [JobId -> Job \cup {NoRow}]
      /\ Created = {j \in JobId : j = 1}
      /\ \A j \in Created : jobs[j] = Delivered
      /\ \A j \in JobId : Exists(j) <=> j = 1
  BY <1>2 DEF ShopInit, Created, Exists
<1>5. Unfinished = {}
  BY <1>4 DEF Unfinished, Delivered, Finished
<1>6. Typed
  BY <1>1, <1>3, <1>4, FreshLocalType
     DEF ShopInit, Typed, Data, Control, Labels, StepStates, Held, Product
<1>7. IInv
  <2>1. JobsExist
    BY <1>3 DEF ShopInit, JobsExist, FreshLocal, AtJob
  <2>2. TodoLeft
    BY DEF ShopInit, TodoLeft, AtStep
  <2>3. Once
    BY DEF ShopInit, Once, AtMostOnce, UnmarkedUnsent, SenderOwns, SendersDiffer
  <2> QED BY <1>6, <2>1, <2>2, <2>3 DEF IInv
<1>8. RequestInv
  <2>1. GensKnown
    BY <1>3 DEF ShopInit, GensKnown, FreshLocal
  <2> QED BY <1>3, <2>1, RowChecks
<1>9. StepInv
  <2>1. \A j \in JobId, f \in Fields : steps[j][f] # "none" =>
          j = 1 /\ f = Core /\ steps[j][f] = "verified"
    BY DEF ShopInit
  <2>2. \A j \in Created : jobs[j].ops = {Core} /\ j = 1
    BY <1>4 DEF Delivered
  <2>3. StepsPlanned
    BY <1>4, <2>1, <2>2 DEF StepsPlanned, Created
  <2>4. InOrder
    BY <2>2, DataAssumption DEF InOrder
  <2>5. SucceededIsVerified
    BY <2>2, DataAssumption DEF SucceededIsVerified, ShopInit, Created
  <2>6. OneLane
    BY <1>5 DEF OneLane
  <2>7. \A p \in Proc : Progress(p)
    BY DEF ShopInit, Progress, Working
  <2> QED BY <2>3, <2>4, <2>5, <2>6, <2>7 DEF StepInv, StepRows
<1>10. DeliveryInv
  <2>1. Good
    BY <1>5 DEF Good, ShopInit
  <2>2. \A j \in Created : jobs[j].auto = 1 /\ jobs[j].amber = InitialProduct
    BY <1>4 DEF Delivered
  <2>3. AutoKnown
    BY <1>3, <2>2 DEF AutoKnown
  <2>4. RowsOk
    BY <1>1, <2>1, <2>2 DEF RowsOk, About
  <2>5. RequestOk
    BY <1>3, <2>1 DEF RequestOk
  <2>6. \A p \in Workers : WorkerOk(p)
    BY DEF WorkerOk, Delivering, Proc, ShopInit, FreshLocal
  <2> QED BY <2>3, <2>4, <2>5, <2>6 DEF DeliveryInv, Deliveries
<1> QED BY <1>7, <1>8, <1>9, <1>10 DEF SyncInv, Base

LEMMA SyncShopNext ==
  ASSUME SyncInv, ShopTyped, [ShopNext]_allVars
  PROVE  SyncInv'
<1>1. ASSUME NEW l \in Lanes, Lane_(l)  PROVE SyncInv'
  <2>1. \A r \in Lanes : lane[r].at \in {"verify", "prepare", "acknowledge", "confirm"}
          => Keep(r) \in Rows(intents)
    BY DEF ShopTyped, Shaped, IntentSpots
  <2> QED BY <1>1, <2>1, LaneSteps, AsideKeeps, CancelKeeps
<1>2. NativeStep => SyncInv'
  BY NativeKeeps DEF NativeStep
<1>3. Decision => SyncInv'
  BY DecisionSteps, AsideKeeps, ChangedKeeps
<1>4. Weather => SyncInv'
  BY WeatherSteps, AsideKeeps
<1> QED BY <1>1, <1>2, <1>3, <1>4, ShopCases

LEMMA TypedShopInit == ShopInit => ShopTyped
<1> SUFFICES ASSUME ShopInit PROVE ShopTyped
  OBVIOUS
<1>1. life \in Life /\ shop \in Shop /\ lane \in [Lanes -> Lane]
  <2>1. \A s \in {On, Off} :
          [status |-> s, gallery |-> [p \in Photos |-> "none"]] \in Shop
    BY DEF Shop, Gallery
  <2>2. life \in Life
    BY DEF ShopInit, Life
  <2> QED BY <2>1, <2>2, IdleLaneType DEF ShopInit
<1>2. ShopTypeOK
  BY <1>1 DEF ShopInit, ShopTypeOK, StepStates
<1>3. \A l \in Lanes : Shaped(l)
  BY DEF ShopInit, Shaped, IdleLane, MediaSpots, IntentSpots, KeySpots
<1> QED BY <1>2, <1>3 DEF ShopTyped

\* Whatever adds or rewrites rows, no lane loses the row it works on.
LEMMA ShapesKeep ==
  ASSUME ShopTyped, UNCHANGED lane,
         \A i \in Rows(intents) : i \in Rows(intents)',
         \A m \in Rows(media) : m \in Rows(media)'
  PROVE  \A l \in Lanes : Shaped(l)'
BY DEF ShopTyped, Shaped, Keep

LEMMA DecisionTyped ==
  ASSUME SyncInv, SyncInv', ShopTyped, Decision
  PROVE  ShopTyped'
<1>1. ShopTypeOK /\ Data /\ Data'
  BY DEF ShopTyped, SyncInv, Base, IInv, Typed
<1>2. /\ Rows(intents) = {i \in IntentId : intents[i] # NoRow}
      /\ Rows(media) = {m \in MediaId : media[m] # NoRow}
      /\ NoRow \notin Intent /\ NoRow \notin Media
  BY <1>1, RowTypes DEF Rows, ShopTypeOK
<1>3. CASE SavePhotos
  <2>1. /\ UNCHANGED <<life, intents, msteps, shop, air, issued, lane>>
        /\ media' \in [MediaId -> Media \cup {NoRow}]
        /\ \A m \in Rows(media) : m \in Rows(media)'
    BY <1>1, <1>2, <1>3, SavePhotosForm DEF NewJob, Rows
  <2>2. ShopTypeOK'
    BY <1>1, <2>1 DEF ShopTypeOK
  <2> QED BY <2>1, <2>2, ShapesKeep DEF ShopTyped, Rows
<1>4. CASE Archive \/ Restore
  <2>1. /\ UNCHANGED <<media, msteps, shop, air, issued, lane>>
        /\ life' \in Life
        /\ intents' \in [IntentId -> Intent \cup {NoRow}]
        /\ \A i \in Rows(intents) : intents'[i] # NoRow
    <3>1. CASE Archive
      BY <1>1, <1>2, <3>1, ArchiveForm DEF NewIntent, Over
    <3>2. CASE Restore
      BY <1>1, <1>2, <3>2, RestoreForm DEF NewIntent, Over
    <3> QED BY <1>4, <3>1, <3>2
  <2>2. ShopTypeOK'
    BY <1>1, <2>1 DEF ShopTypeOK
  <2>3. \A i \in Rows(intents) : i \in Rows(intents)'
    BY <1>2, <2>1 DEF Rows
  <2> QED BY <2>1, <2>2, <2>3, ShapesKeep DEF ShopTyped, Rows
<1>5. CASE Recount
  <2>1. /\ UNCHANGED <<intents, msteps, shop, air, issued, lane>>
        /\ life' \in Life
        /\ media' \in [MediaId -> Media \cup {NoRow}]
        /\ \A m \in Rows(media) : media'[m] # NoRow
    BY <1>1, <1>2, <1>5, RecountForm DEF NewJob, ShopTypeOK
  <2>2. ShopTypeOK'
    BY <1>1, <2>1 DEF ShopTypeOK
  <2>3. \A m \in Rows(media) : m \in Rows(media)'
    BY <1>2, <2>1 DEF Rows
  <2> QED BY <2>1, <2>2, <2>3, ShapesKeep DEF ShopTyped, Rows
<1> QED BY <1>3, <1>4, <1>5 DEF Decision

LEMMA TypedShopNext ==
  ASSUME SyncInv, ShopTyped, [ShopNext]_allVars
  PROVE  ShopTyped'
<1>1. ShopTypeOK /\ Data /\ SyncInv'
  BY SplitType, SyncShopNext DEF ShopTyped, SyncInv, Base, IInv
<1>2. CASE NativeStep
  BY <1>2 DEF NativeStep, shopVars, ShopTyped, ShopTypeOK, Shaped, Keep, Rows
<1>3. CASE Decision
  BY <1>1, <1>3, DecisionTyped
<1>4. CASE Weather
  <2>1. UNCHANGED <<life, intents, media, msteps, issued, lane>> /\ shop' \in Shop
        /\ air' \subseteq air
    BY <1>1, <1>4, WeatherForm
  <2>2. ShopTypeOK'
    BY <1>1, <2>1 DEF ShopTypeOK
  <2> QED BY <2>1, <2>2, ShapesKeep DEF ShopTyped, Rows
<1>5. ASSUME NEW l \in Lanes, Lane_(l)  PROVE ShopTyped'
  <2>1. Written /\ lane' \in [Lanes -> Lane] /\ OtherLanes(l) /\ Shaped(l)'
    BY <1>1, <1>5, LaneWrites, LaneShapes
  <2>2. /\ Rows(intents)' = Rows(intents) /\ Rows(media)' = Rows(media)
        /\ ShopTypeOK'
    BY <2>1, WrittenTypes DEF ShopTypeOK
  <2>3. ASSUME NEW r \in Lanes \ {l}  PROVE Shaped(r)'
    BY <2>1, <2>2 DEF ShopTyped, Shaped, Keep, OtherLanes
  <2> QED BY <2>1, <2>2, <2>3 DEF ShopTyped
<1> QED BY <1>2, <1>3, <1>4, <1>5, ShopCases

LEMMA ShopBasis == ShopSpec => [](SyncInv /\ ShopTyped)
<1>1. ShopInit => SyncInv /\ ShopTyped
  BY SyncShopInit, TypedShopInit
<1>2. SyncInv /\ ShopTyped /\ [ShopNext]_allVars => (SyncInv /\ ShopTyped)'
  BY SyncShopNext, TypedShopNext
<1> QED BY <1>1, <1>2, PTL DEF ShopSpec

\* Every variable of the shop keeps its type.
THEOREM ShopTypeCorrect == ShopSpec => []ShopTypeOK
<1>1. SyncInv /\ ShopTyped => ShopTypeOK
  BY DEF ShopTyped
<1> QED BY <1>1, ShopBasis, PTL

\* What MagentoSync promises of the native side holds beside the shop: while
\* the gate is on, a request that says synced was acknowledged with the
\* content the product has now, whatever archives, restores and recounts.
THEOREM ShopDelivered == ShopSpec => []SyncedMeansDelivered
<1>1. SyncInv /\ ShopTyped => SyncedMeansDelivered
  BY DEF SyncInv, DeliveryInv, Deliveries, RequestOk, Good, SyncedMeansDelivered
<1> QED BY <1>1, ShopBasis, PTL

-----------------------------------------------------------------------------
\* The ledger of the shop.

\* The mutation a lane is about to send.
LaneOp(l) == IF At(l, "put") THEN IntentOp(Keep(l)) ELSE MediaOp(Keep(l), lane[l].key)
AboutTo(l) == lane[l].at \in {"put", "recheck", "send"}

\* Sends come after markers, once; a lane about to send owns a marker nothing
\* was sent for, and owns it alone, whatever happened to the locks.
LedgerInv ==
  /\ \A op \in Ops : (Marker(op) = "none" => issued[op] = 0) /\ issued[op] <= 1
  /\ \A l \in Lanes : AboutTo(l) => Marker(LaneOp(l)) # "none" /\ issued[LaneOp(l)] = 0
  /\ \A l, r \in Lanes : AboutTo(l) /\ AboutTo(r) /\ l # r => LaneOp(l) # LaneOp(r)

IntentMark(i) == IF intents[i] = NoRow THEN "none"
                 ELSE IF intents[i].state \in {"dispatched", "verified"}
                      THEN intents[i].state ELSE "none"

LEMMA OpsAre ==
  /\ \A i \in IntentId : IntentOp(i) \in Ops
  /\ \A m \in MediaId, k \in Keys : MediaOp(m, k) \in Ops
  /\ \A op \in Ops : \/ \E i \in IntentId : op = IntentOp(i)
                     \/ \E m \in MediaId, k \in Keys : op = MediaOp(m, k)
  /\ \A i, j : IntentOp(i) = IntentOp(j) => i = j
  /\ \A m, n, k, q : MediaOp(m, k) = MediaOp(n, q) => m = n /\ k = q
  /\ \A i, m, k : IntentOp(i) # MediaOp(m, k)
<1>1. \A i : IntentOp(i).of = "intent" /\ IntentOp(i).id = i
  BY DEF IntentOp
<1>2. \A m, k : MediaOp(m, k).of = "media" /\ MediaOp(m, k).id = m /\ MediaOp(m, k).key = k
  BY DEF MediaOp
<1>3. /\ \A i, j : IntentOp(i) = IntentOp(j) => i = j
      /\ \A m, n, k, q : MediaOp(m, k) = MediaOp(n, q) => m = n /\ k = q
      /\ \A i, m, k : IntentOp(i) # MediaOp(m, k)
  <2>1. ASSUME NEW i, NEW j, IntentOp(i) = IntentOp(j)  PROVE i = j
    <3>1. IntentOp(i).id = i /\ IntentOp(j).id = j
      BY <1>1
    <3>2. IntentOp(i).id = IntentOp(j).id
      BY <2>1
    <3> HIDE DEF IntentOp
    <3> QED BY <3>1, <3>2
  <2>2. ASSUME NEW m, NEW n, NEW k, NEW q, MediaOp(m, k) = MediaOp(n, q)
        PROVE  m = n /\ k = q
    <3>1. /\ MediaOp(m, k).id = m /\ MediaOp(n, q).id = n
          /\ MediaOp(m, k).key = k /\ MediaOp(n, q).key = q
      BY <1>2
    <3>2. /\ MediaOp(m, k).id = MediaOp(n, q).id
          /\ MediaOp(m, k).key = MediaOp(n, q).key
      BY <2>2
    <3> QED BY <3>1, <3>2
  <2>3. "intent" # "media"
    OBVIOUS
  <2>4. ASSUME NEW i, NEW m, NEW k, IntentOp(i) = MediaOp(m, k)  PROVE FALSE
    BY <1>1, <1>2, <2>3, <2>4, Zenon
  <2> QED BY <2>1, <2>2, <2>4
<1>4. /\ \A i \in IntentId : IntentOp(i) \in Ops
      /\ \A m \in MediaId, k \in Keys : MediaOp(m, k) \in Ops
      /\ \A op \in Ops : \/ \E i \in IntentId : op = IntentOp(i)
                         \/ \E m \in MediaId, k \in Keys : op = MediaOp(m, k)
  BY DEF Ops
<1> QED BY <1>3, <1>4

LEMMA MarksAre ==
  /\ \A i : Marker(IntentOp(i)) = IntentMark(i)
  /\ \A m, k : Marker(MediaOp(m, k)) = msteps[m][k]
BY DEF Marker, IntentMark, IntentOp, MediaOp

\* What a step may do to the markers, the sends and the lanes about to send.
SameAbout(r) == AboutTo(r)' = AboutTo(r) /\ LaneOp(r)' = LaneOp(r)
Resolves ==
  /\ \A op \in Ops : Marker(op)' = Marker(op) \/ Marker(op)' = "verified"
  /\ UNCHANGED issued
  /\ \A r \in Lanes : AboutTo(r)' => AboutTo(r) /\ LaneOp(r)' = LaneOp(r)
Commits(l, op) ==
  /\ Marker(op) = "none" /\ Marker(op)' = "dispatched"
  /\ \A o \in Ops \ {op} : Marker(o)' = Marker(o)
  /\ UNCHANGED issued
  /\ AboutTo(l)' => LaneOp(l)' = op
  /\ \A r \in Lanes \ {l} : SameAbout(r)
Issues(l, op) ==
  /\ AboutTo(l) /\ op = LaneOp(l) /\ issued' = [issued EXCEPT ![op] = @ + 1]
  /\ \A o \in Ops : Marker(o)' = Marker(o)
  /\ ~AboutTo(l)'
  /\ \A r \in Lanes \ {l} : SameAbout(r)

\* What the tables say of the markers.
LEMMA SameMarks ==
  ASSUME \A i \in IntentId : IntentMark(i)' = IntentMark(i),
         \A m \in MediaId, k \in Keys : msteps'[m][k] = msteps[m][k]
  PROVE  \A op \in Ops : Marker(op)' = Marker(op)
<1> TAKE op \in Ops
<1>1. CASE \E i \in IntentId : op = IntentOp(i)
  <2> PICK i \in IntentId : op = IntentOp(i)
    BY <1>1
  <2>1. Marker(op) = IntentMark(i) /\ Marker(op)' = IntentMark(i)'
    BY DEF Marker, IntentMark, IntentOp
  <2> QED BY <2>1
<1>2. CASE \E m \in MediaId, k \in Keys : op = MediaOp(m, k)
  <2> PICK m \in MediaId, k \in Keys : op = MediaOp(m, k)
    BY <1>2
  <2>1. Marker(op) = msteps[m][k] /\ Marker(op)' = msteps'[m][k]
    BY DEF Marker, MediaOp
  <2> QED BY <2>1
<1> QED BY <1>1, <1>2, OpsAre

LEMMA IntentMarks ==
  ASSUME ShopTypeOK, NEW i \in IntentId,
         \A k \in IntentId \ {i} : IntentMark(k)' = IntentMark(k), UNCHANGED msteps
  PROVE  /\ \A op \in Ops \ {IntentOp(i)} : Marker(op)' = Marker(op)
         /\ Marker(IntentOp(i))' = IntentMark(i)' /\ Marker(IntentOp(i)) = IntentMark(i)
<1>1. \A k : Marker(IntentOp(k)) = IntentMark(k) /\ Marker(IntentOp(k))' = IntentMark(k)'
  BY DEF Marker, IntentMark, IntentOp
<1>2. \A m, k : Marker(MediaOp(m, k)) = msteps[m][k] /\ Marker(MediaOp(m, k))' = msteps'[m][k]
  BY DEF Marker, MediaOp
<1>3. ASSUME NEW op \in Ops \ {IntentOp(i)}  PROVE Marker(op)' = Marker(op)
  <2>1. \/ \E k \in IntentId \ {i} : op = IntentOp(k)
        \/ \E m \in MediaId, k \in Keys : op = MediaOp(m, k)
    BY OpsAre, Zenon
  <2> QED BY <1>1, <1>2, <2>1
<1> QED BY <1>1, <1>3

LEMMA StepMarks ==
  ASSUME ShopTypeOK, NEW m, NEW k, NEW v, Steps(m, k, v), UNCHANGED intents
  PROVE  /\ MediaOp(m, k) \in Ops
         /\ \A op \in Ops \ {MediaOp(m, k)} : Marker(op)' = Marker(op)
         /\ Marker(MediaOp(m, k))' = v /\ Marker(MediaOp(m, k)) = msteps[m][k]
<1>1. \A i : Marker(IntentOp(i)) = IntentMark(i) /\ Marker(IntentOp(i))' = IntentMark(i)'
  BY DEF Marker, IntentMark, IntentOp
<1>2. \A n, q : Marker(MediaOp(n, q)) = msteps[n][q] /\ Marker(MediaOp(n, q))' = msteps'[n][q]
  BY DEF Marker, MediaOp
<1>3. m \in MediaId /\ k \in Keys
  BY DEF Steps
<1>4. ASSUME NEW op \in Ops \ {MediaOp(m, k)}  PROVE Marker(op)' = Marker(op)
  <2>1. CASE \E i \in IntentId : op = IntentOp(i)
    BY <1>1, <2>1 DEF IntentMark
  <2>2. CASE \E n \in MediaId, q \in Keys : op = MediaOp(n, q)
    <3> PICK n \in MediaId, q \in Keys : op = MediaOp(n, q)
      BY <2>2
    <3>1. ~(n = m /\ q = k)
      OBVIOUS
    <3>2. msteps'[n][q] = msteps[n][q]
      BY <3>1 DEF Steps
    <3> QED BY <1>2, <3>2
  <2> QED BY <2>1, <2>2, OpsAre
<1>5. msteps'[m][k] = v
  BY <1>3 DEF Steps
<1> QED BY <1>2, <1>3, <1>4, <1>5, OpsAre

LEMMA RestateMarks ==
  ASSUME ShopTypeOK, NEW i, NEW s, Restates(i, s)
  PROVE  /\ i \in IntentId /\ intents[i] # NoRow
         /\ IntentMark(i)' = IF s \in {"dispatched", "verified"} THEN s ELSE "none"
         /\ \A k \in IntentId \ {i} : IntentMark(k)' = IntentMark(k)
BY RowTypes DEF Restates, Rows, IntentMark

LEMMA OthersAbout ==
  ASSUME NEW l, OtherLanes(l)
  PROVE  \A r \in Lanes \ {l} : SameAbout(r)
BY DEF OtherLanes, SameAbout, AboutTo, LaneOp, At, Keep

\* A lane that is not about to send anything new.
Calm(l) == AboutTo(l)' => AboutTo(l) /\ LaneOp(l)' = LaneOp(l)

LEMMA CalmLane ==
  ASSUME NEW l
  PROVE  /\ \A r : Turns(l, r) /\ r.at \notin {"put", "recheck", "send"}
                     => OtherLanes(l) /\ Calm(l)
         /\ \A spot : Stays(l, spot) /\ spot \notin {"put", "recheck", "send"}
                        => OtherLanes(l) /\ Calm(l)
         /\ \A spot, k, d : Holds(l, spot, k, d) /\ spot \notin {"put", "recheck", "send"}
                        => OtherLanes(l) /\ Calm(l)
         /\ Stays(l, "send") /\ At(l, "recheck") => OtherLanes(l) /\ Calm(l)
<1>1. /\ \A r : Turns(l, r) /\ r.at \notin {"put", "recheck", "send"}
                  => OtherLanes(l) /\ Calm(l)
      /\ \A spot : Stays(l, spot) /\ spot \notin {"put", "recheck", "send"}
                     => OtherLanes(l) /\ Calm(l)
      /\ \A spot, k, d : Holds(l, spot, k, d) /\ spot \notin {"put", "recheck", "send"}
                     => OtherLanes(l) /\ Calm(l)
  BY DEF Turns, Stays, Holds, Calm, AboutTo
<1>2. Stays(l, "send") /\ At(l, "recheck") => OtherLanes(l) /\ Calm(l)
  BY DEF Stays, SameHold, Calm, AboutTo, LaneOp, At, Keep
<1> QED BY <1>1, <1>2

LEMMA CalmResolves ==
  ASSUME NEW l, OtherLanes(l), Calm(l), UNCHANGED issued,
         \A op \in Ops : Marker(op)' = Marker(op) \/ Marker(op)' = "verified"
  PROVE  Resolves
BY OthersAbout DEF Resolves, Calm, SameAbout

LEMMA QuietTables ==
  ASSUME NEW l, OtherLanes(l), Calm(l), UNCHANGED <<intents, msteps, issued>>
  PROVE  Resolves
<1>1. \A op \in Ops : Marker(op)' = Marker(op)
  BY DEF Marker
<1> QED BY <1>1, CalmResolves

LEMMA IdleAt == IdleLane.at = "idle"
BY DEF IdleLane

LEMMA VisibilityLedger ==
  ASSUME ShopTyped, NEW l \in Lanes,
         \/ TakeIntent(l) \/ Visibility(l) \/ ReviewIntent(l) \/ StatusFault(l)
  PROVE  Resolves \/ \E op \in Ops : Commits(l, op) \/ Issues(l, op)
<1>1. ShopTypeOK
  BY DEF ShopTyped
<1>2. CASE \/ TakeIntent(l) \/ VerifyIntent(l) \/ LookAtStatus(l) \/ CheckPhotos(l)
           \/ ReadStatus(l) \/ StatusFault(l) \/ ReviewIntent(l)
  <2>1. /\ UNCHANGED tables
        /\ \/ \E r : Turns(l, r) /\ r.at \notin {"put", "recheck", "send"}
           \/ \E spot : Stays(l, spot) /\ spot \notin {"put", "recheck", "send"}
    BY <1>2, IdleAt, TakeIntentForm, VerifyIntentForm, LookForm, CheckPhotosForm,
       ReadForm, StatusFaultForm, ReviewIntentForm
  <2> QED BY <2>1, CalmLane, QuietTables DEF tables
<1>3. ASSUME NEW i, Restates(i, "verified"), OtherLanes(l), Calm(l),
             UNCHANGED <<msteps, issued>>
      PROVE  Resolves
  <2>1. i \in IntentId /\ IntentMark(i)' = "verified"
        /\ \A k \in IntentId \ {i} : IntentMark(k)' = IntentMark(k)
    BY <1>1, <1>3, RestateMarks
  <2>2. \A op \in Ops : Marker(op)' = Marker(op) \/ Marker(op)' = "verified"
    BY <1>1, <1>3, <2>1, IntentMarks
  <2> QED BY <1>3, <2>2, CalmResolves
<1>4. ASSUME NEW i, NEW s, Restates(i, s), OtherLanes(l), Calm(l),
             s = FailedIntent(intents[i].state),
             UNCHANGED <<msteps, issued>>
      PROVE  Resolves
  <2>1. i \in IntentId /\ IntentMark(i)' = IntentMark(i)
        /\ \A k \in IntentId \ {i} : IntentMark(k)' = IntentMark(k)
    BY <1>1, <1>4, RestateMarks DEF FailedIntent, IntentMark
  <2>2. \A op \in Ops : Marker(op)' = Marker(op)
    BY <1>1, <1>4, <2>1, IntentMarks
  <2> QED BY <1>4, <2>2, CalmResolves
<1>5. CASE AcknowledgeIntent(l) \/ ConfirmIntent(l)
  <2>1. /\ UNCHANGED <<msteps, issued>>
        /\ Turns(l, IdleLane) \/ Stays(l, "failed")
        /\ UNCHANGED intents \/ Restates(Keep(l), "verified")
    BY <1>5, AcknowledgeForm, ConfirmForm
  <2>2. OtherLanes(l) /\ Calm(l)
    BY <2>1, IdleAt, CalmLane
  <2> QED BY <1>3, <2>1, <2>2, QuietTables
<1>6. CASE FailIntent(l)
  <2>1. /\ UNCHANGED <<msteps, issued>> /\ Turns(l, IdleLane)
        /\ UNCHANGED intents \/ Restates(Keep(l), FailedIntent(intents[Keep(l)].state))
    BY <1>6, FailIntentForm
  <2>2. OtherLanes(l) /\ Calm(l)
    BY <2>1, IdleAt, CalmLane
  <2> QED BY <1>4, <2>1, <2>2, QuietTables
<1>7. CASE Prepare(l)
  <2> PICK i : i = Keep(l)
    OBVIOUS
  <2>1. /\ UNCHANGED <<msteps, issued>>
        /\ \/ UNCHANGED intents /\ (Turns(l, IdleLane) \/ Stays(l, "failed"))
           \/ Restates(i, "verified") /\ (Turns(l, IdleLane) \/ Stays(l, "failed"))
           \/ /\ intents[i].state = "queued" /\ Restates(i, "dispatched")
              /\ Stays(l, "put") \/ Stays(l, "failed")
    BY <1>7, PrepareForm
  <2>2. Turns(l, IdleLane) \/ Stays(l, "failed") => OtherLanes(l) /\ Calm(l)
    BY IdleAt, CalmLane
  <2>3. CASE /\ intents[i].state = "queued" /\ Restates(i, "dispatched")
             /\ Stays(l, "put") \/ Stays(l, "failed")
    <3>1. /\ i \in IntentId /\ IntentMark(i)' = "dispatched" /\ IntentMark(i) = "none"
          /\ \A k \in IntentId \ {i} : IntentMark(k)' = IntentMark(k)
      BY <1>1, <2>3, RestateMarks DEF IntentMark
    <3>2. /\ Marker(IntentOp(i)) = "none" /\ Marker(IntentOp(i))' = "dispatched"
          /\ \A o \in Ops \ {IntentOp(i)} : Marker(o)' = Marker(o)
      BY <1>1, <2>1, <3>1, IntentMarks
    <3>3. OtherLanes(l) /\ (AboutTo(l)' => LaneOp(l)' = IntentOp(i))
      BY <2>3 DEF Stays, SameHold, AboutTo, LaneOp, At, Keep
    <3>4. IntentOp(i) \in Ops /\ \A r \in Lanes \ {l} : SameAbout(r)
      BY <3>1, <3>3, OpsAre, OthersAbout
    <3> QED BY <2>1, <3>2, <3>3, <3>4 DEF Commits
  <2> QED BY <1>3, <2>1, <2>2, <2>3, QuietTables
<1>8. CASE PutStatus(l)
  <2> DEFINE op == IntentOp(Keep(l))
  <2>1. /\ At(l, "put") /\ UNCHANGED <<intents, msteps>> /\ op \in Ops
        /\ Stays(l, "readback") /\ issued' = [issued EXCEPT ![op] = @ + 1]
    BY <1>8, PutForm DEF Emit
  <2>2. /\ AboutTo(l) /\ op = LaneOp(l) /\ ~AboutTo(l)' /\ OtherLanes(l)
    BY <2>1 DEF AboutTo, LaneOp, At, Stays
  <2>3. \A o \in Ops : Marker(o)' = Marker(o)
    BY <2>1 DEF Marker
  <2> QED BY <2>1, <2>2, <2>3, OthersAbout DEF Issues
<1> QED BY <1>2, <1>5, <1>6, <1>7, <1>8 DEF Visibility

LEMMA MediaLedger ==
  ASSUME ShopTyped, Data, NEW l \in Lanes,
         \/ TakeMedia(l) \/ DeliverMedia(l) \/ ReviewMedia(l) \/ MediaFault(l)
         \/ LaneCrash(l)
  PROVE  Resolves \/ \E op \in Ops : Commits(l, op) \/ Issues(l, op)
<1>1. ShopTypeOK
  BY DEF ShopTyped
<1>2. CASE \/ CheckStep(l) \/ FinishJob(l) \/ MediaFault(l) \/ LaneCrash(l)
           \/ Reopen(l) \/ SucceedJob(l) \/ FailJob(l)
  <2>1. /\ UNCHANGED <<intents, msteps, issued>>
        /\ \/ Turns(l, IdleLane)
           \/ \E spot : Stays(l, spot) /\ spot \notin {"put", "recheck", "send"}
    BY <1>2, CheckForm, FinishForm, MediaFaultForm, CrashForm, ReopenForm,
       SucceedForm, FailJobForm DEF tables
  <2> QED BY <2>1, IdleAt, CalmLane, QuietTables
<1>3. CASE RecheckEnable(l)
  <2>1. /\ UNCHANGED tables /\ At(l, "recheck")
        /\ Stays(l, "check") \/ Stays(l, "send")
    BY <1>3, RecheckForm
  <2> QED BY <2>1, CalmLane, QuietTables DEF tables
<1>4. CASE DecideStep(l)
  <2>1. /\ UNCHANGED tables
        /\ \/ Stays(l, "broken")
           \/ \E spot, k, d : /\ Holds(l, spot, k, d)
                              /\ spot \in {"seal", "step", "reopen", "mark"}
    BY <1>4, DecideForm
  <2> QED BY <2>1, CalmLane, QuietTables DEF tables
<1>5. CASE TakeMedia(l) \/ ReviewMedia(l)
  <2>1. PICK m \in Rows(media), review \in BOOLEAN : EnterJob(l, m, review)
    BY <1>1, <1>5, CurrentSetIs DEF TakeMedia, ReviewMedia
  <2>2. /\ UNCHANGED <<intents, msteps, issued>>
        /\ \E r \in Lane : Turns(l, r) /\ r.at \in {"step", "broken"}
    BY <2>1, EnterForm
  <2> QED BY <2>2, CalmLane, QuietTables
<1> PICK m, k, op : m = Keep(l) /\ k = lane[l].key /\ op = MediaOp(m, k)
  OBVIOUS
<1>6. CASE MarkStep(l)
  <2>1. /\ UNCHANGED <<intents, issued>>
        /\ \/ UNCHANGED msteps /\ Stays(l, "broken")
           \/ /\ msteps[m][k] = "none" /\ Steps(m, k, "dispatched")
              /\ \E spot \in {"recheck", "send", "broken"} : Stays(l, spot)
    BY <1>6, MarkForm
  <2>2. CASE UNCHANGED msteps /\ Stays(l, "broken")
    BY <2>1, <2>2, CalmLane, QuietTables
  <2>3. CASE /\ msteps[m][k] = "none" /\ Steps(m, k, "dispatched")
             /\ \E spot \in {"recheck", "send", "broken"} : Stays(l, spot)
    <3>1. /\ op \in Ops /\ Marker(op) = "none" /\ Marker(op)' = "dispatched"
          /\ \A o \in Ops \ {op} : Marker(o)' = Marker(o)
      BY <1>1, <2>1, <2>3, StepMarks
    <3>2. OtherLanes(l) /\ (AboutTo(l)' => LaneOp(l)' = op)
      BY <2>3 DEF Stays, SameHold, AboutTo, LaneOp, At, Keep
    <3> QED BY <2>1, <3>1, <3>2, OthersAbout DEF Commits
  <2> QED BY <2>1, <2>2, <2>3
<1>7. CASE SendStep(l)
  <2>1. /\ At(l, "send") /\ UNCHANGED <<intents, msteps>> /\ op \in Ops
        /\ Stays(l, "check") /\ issued' = [issued EXCEPT ![op] = @ + 1]
    BY <1>7, SendForm DEF Emit
  <2>2. /\ AboutTo(l) /\ op = LaneOp(l) /\ ~AboutTo(l)' /\ OtherLanes(l)
    BY <2>1 DEF AboutTo, LaneOp, At, Stays
  <2>3. \A o \in Ops : Marker(o)' = Marker(o)
    BY <2>1 DEF Marker
  <2> QED BY <2>1, <2>2, <2>3, OthersAbout DEF Issues
<1>8. CASE SealStep(l)
  <2>1. /\ UNCHANGED <<intents, issued>>
        /\ \/ UNCHANGED msteps /\ Stays(l, "broken")
           \/ Steps(m, k, "verified") /\ \E d : Holds(l, "step", NoPhoto, d)
    BY <1>8, SealForm
  <2>2. OtherLanes(l) /\ Calm(l)
    BY <2>1, CalmLane
  <2>3. \A o \in Ops : Marker(o)' = Marker(o) \/ Marker(o)' = "verified"
    <3>1. CASE UNCHANGED msteps
      BY <2>1, <3>1 DEF Marker
    <3>2. CASE Steps(m, k, "verified")
      BY <1>1, <2>1, <3>2, StepMarks
    <3> QED BY <2>1, <3>1, <3>2
  <2> QED BY <2>1, <2>2, <2>3, CalmResolves
<1> QED BY <1>2, <1>3, <1>4, <1>5, <1>6, <1>7, <1>8 DEF DeliverMedia

LEMMA LedgerMoves ==
  ASSUME SyncInv, ShopTyped, [ShopNext]_allVars
  PROVE  Resolves \/ \E l \in Lanes, op \in Ops : Commits(l, op) \/ Issues(l, op)
<1>1. ShopTypeOK /\ Data /\ Data'
  BY SyncShopNext DEF ShopTyped, SyncInv, Base, IInv, Typed
<1>2. ASSUME NEW l \in Lanes, Lane_(l)
      PROVE  Resolves \/ \E op \in Ops : Commits(l, op) \/ Issues(l, op)
  BY <1>1, <1>2, VisibilityLedger, MediaLedger DEF Lane_, LaneStep
<1>3. UNCHANGED <<lane, issued>> /\ (\A op \in Ops : Marker(op)' = Marker(op)) => Resolves
  BY DEF Resolves, AboutTo, LaneOp, At, Keep
<1>4. CASE NativeStep \/ Weather
  <2>1. UNCHANGED <<intents, msteps, lane, issued>>
    BY <1>1, <1>4, WeatherForm DEF NativeStep, shopVars
  <2> QED BY <1>3, <2>1 DEF Marker
<1>5. CASE Decision
  <2>1. UNCHANGED <<msteps, lane, issued>>
        /\ \A i \in IntentId : IntentMark(i)' = IntentMark(i)
    <3>1. \A i \in IntentId : Over(i, intents'[i]) => IntentMark(i)' = IntentMark(i)
      BY <1>1, RowTypes DEF Over, IntentMark
    <3>2. ASSUME NEW i \in IntentId, NEW kind, NEW target, NEW states,
                 NewIntent(i, kind, target, states), states \subseteq {"queued", "blocked"}
          PROVE  IntentMark(i)' = IntentMark(i)
      BY <3>2 DEF NewIntent, IntentMark
    <3>3. CASE SavePhotos
      BY <1>1, <3>3, SavePhotosForm DEF IntentMark
    <3>4. CASE Archive
      BY <1>1, <3>1, <3>2, <3>4, ArchiveForm
    <3>5. CASE Restore
      <4>1. \/ \A k \in IntentId : Over(k, intents'[k])
            \/ \E i \in IntentId :
                 /\ NewIntent(i, "restore", intents[Hide].prev, {"queued"})
                 /\ \A k \in IntentId \ {i} : intents'[k] = intents[k]
        BY <1>1, <3>5, RestoreForm
      <4>2. UNCHANGED <<msteps, lane, issued>>
        BY <1>1, <3>5, RestoreForm
      <4>3. CASE \E i \in IntentId :
                 /\ NewIntent(i, "restore", intents[Hide].prev, {"queued"})
                 /\ \A k \in IntentId \ {i} : intents'[k] = intents[k]
        BY <3>2, <4>2, <4>3 DEF IntentMark
      <4> QED BY <3>1, <4>1, <4>2, <4>3
    <3>6. CASE Recount
      BY <1>1, <3>6, RecountForm DEF IntentMark
    <3> QED BY <1>5, <3>3, <3>4, <3>5, <3>6 DEF Decision
  <2> QED BY <1>3, <2>1, SameMarks
<1> QED BY <1>2, <1>4, <1>5, ShopCases

LEMMA LedgerInvInit == ShopInit => LedgerInv
<1> SUFFICES ASSUME ShopInit PROVE LedgerInv
  OBVIOUS
<1>1. \A op \in Ops : issued[op] = 0
  BY DEF ShopInit
<1>2. \A l \in Lanes : ~AboutTo(l)
  BY DEF ShopInit, AboutTo, IdleLane
<1> QED BY <1>1, <1>2 DEF LedgerInv

\* What a lane is about to send is a mutation of the ledger.
LEMMA AboutOp ==
  ASSUME ShopTyped, NEW l \in Lanes, AboutTo(l)
  PROVE  LaneOp(l) \in Ops
<1>1. CASE At(l, "put")
  <2>1. Keep(l) \in IntentId
    BY <1>1, RowTypes DEF ShopTyped, Shaped, At, IntentSpots
  <2> QED BY <1>1, <2>1 DEF LaneOp, Ops
<1>2. CASE ~At(l, "put")
  <2>1. lane[l].at \in KeySpots /\ lane[l].at \in MediaSpots
    BY <1>2 DEF AboutTo, At, KeySpots, MediaSpots
  <2>2. Keep(l) \in MediaId /\ lane[l].key \in Keys
    BY <2>1, MediaLane
  <2> QED BY <1>2, <2>2 DEF LaneOp, Ops
<1> QED BY <1>1, <1>2

LEMMA LedgerInvNext ==
  ASSUME SyncInv, ShopTyped, LedgerInv, [ShopNext]_allVars
  PROVE  LedgerInv'
<1>1. issued \in [Ops -> Nat] /\ ShopTyped'
  BY TypedShopNext DEF ShopTyped, ShopTypeOK
<1>2. /\ \A op \in Ops : (Marker(op) = "none" => issued[op] = 0) /\ issued[op] <= 1
      /\ \A l \in Lanes : AboutTo(l) => /\ LaneOp(l) \in Ops
                                        /\ Marker(LaneOp(l)) # "none"
                                        /\ issued[LaneOp(l)] = 0
      /\ \A l, r \in Lanes : AboutTo(l) /\ AboutTo(r) /\ l # r => LaneOp(l) # LaneOp(r)
  BY AboutOp DEF LedgerInv
<1> DEFINE M == [op \in Ops |-> Marker(op)]
           N == [op \in Ops |-> Marker(op)']
<1>3. /\ \A op \in Ops : M[op] = Marker(op)
      /\ \A op \in Ops : N[op] = Marker(op)'
  OBVIOUS
<1>4. SUFFICES /\ \A op \in Ops : (N[op] = "none" => issued'[op] = 0) /\ issued'[op] <= 1
               /\ \A l \in Lanes : AboutTo(l)' => /\ N[LaneOp(l)'] # "none"
                                                  /\ issued'[LaneOp(l)'] = 0
               /\ \A l, r \in Lanes : AboutTo(l)' /\ AboutTo(r)' /\ l # r
                                        => LaneOp(l)' # LaneOp(r)'
  <2>1. \A l \in Lanes : AboutTo(l)' => LaneOp(l)' \in Ops
    <3> TAKE l \in Lanes
    <3>1. (AboutTo(l) => LaneOp(l) \in Ops)'
      BY <1>1, AboutOp, PTL
    <3> QED BY <3>1
  <2>2. ASSUME NEW l \in Lanes, AboutTo(l)', N[LaneOp(l)'] # "none"
        PROVE  (Marker(LaneOp(l)) # "none")'
    <3> PICK op \in Ops : op = LaneOp(l)'
      BY <2>1, <2>2
    <3>1. Marker(op)' # "none"
      BY <2>2
    <3> QED BY <3>1 DEF Marker
  <2> QED BY <1>3, <2>1, <2>2 DEF LedgerInv
<1>5. CASE Resolves
  BY <1>1, <1>2, <1>3, <1>5 DEF Resolves
<1>6. ASSUME NEW l \in Lanes, NEW op \in Ops, Commits(l, op)
      PROVE  /\ \A o \in Ops : (N[o] = "none" => issued'[o] = 0) /\ issued'[o] <= 1
             /\ \A r \in Lanes : AboutTo(r)' => /\ N[LaneOp(r)'] # "none"
                                                /\ issued'[LaneOp(r)'] = 0
             /\ \A r, q \in Lanes : AboutTo(r)' /\ AboutTo(q)' /\ r # q
                                      => LaneOp(r)' # LaneOp(q)'
  <2>1. /\ M[op] = "none" /\ N[op] = "dispatched" /\ issued' = issued /\ issued[op] = 0
        /\ \A o \in Ops \ {op} : N[o] = M[o]
    BY <1>2, <1>3, <1>6 DEF Commits
  <2>2. \A r \in Lanes \ {l} : AboutTo(r)' =>
          /\ AboutTo(r) /\ LaneOp(r)' = LaneOp(r) /\ LaneOp(r) # op
          /\ LaneOp(r) \in Ops /\ N[LaneOp(r)] # "none"
    BY <1>2, <1>3, <1>6, <2>1 DEF Commits, SameAbout
  <2>3. AboutTo(l)' => LaneOp(l)' = op
    BY <1>6 DEF Commits
  <2> HIDE DEF M, N
  <2>4. \A o \in Ops : (N[o] = "none" => issued'[o] = 0) /\ issued'[o] <= 1
    <3> TAKE o \in Ops
    <3>1. M[o] = "none" => issued[o] = 0
      BY <1>2, <1>3
    <3> QED BY <1>2, <2>1, <3>1
  <2>5. ASSUME NEW r \in Lanes, AboutTo(r)'
        PROVE  N[LaneOp(r)'] # "none" /\ issued'[LaneOp(r)'] = 0
    <3>1. CASE r = l
      BY <2>1, <2>3, <2>5, <3>1
    <3>2. CASE r # l
      BY <1>2, <2>1, <2>2, <2>5, <3>2
    <3> QED BY <3>1, <3>2
  <2>6. ASSUME NEW r \in Lanes, NEW q \in Lanes, AboutTo(r)', AboutTo(q)', r # q
        PROVE  LaneOp(r)' # LaneOp(q)'
    <3>1. CASE r # l /\ q # l
      BY <1>2, <2>2, <2>6, <3>1
    <3>2. CASE r = l \/ q = l
      BY <2>2, <2>3, <2>6, <3>2
    <3> QED BY <3>1, <3>2
  <2> QED BY <2>4, <2>5, <2>6
<1>7. ASSUME NEW l \in Lanes, NEW op \in Ops, Issues(l, op)
      PROVE  /\ \A o \in Ops : (N[o] = "none" => issued'[o] = 0) /\ issued'[o] <= 1
             /\ \A r \in Lanes : AboutTo(r)' => /\ N[LaneOp(r)'] # "none"
                                                /\ issued'[LaneOp(r)'] = 0
             /\ \A r, q \in Lanes : AboutTo(r)' /\ AboutTo(q)' /\ r # q
                                      => LaneOp(r)' # LaneOp(q)'
  <2>1. /\ AboutTo(l) /\ op = LaneOp(l) /\ issued[op] = 0 /\ N[op] # "none"
        /\ issued' = [issued EXCEPT ![op] = @ + 1] /\ ~AboutTo(l)'
        /\ \A o \in Ops : N[o] = M[o]
    BY <1>2, <1>3, <1>7 DEF Issues
  <2>2. \A r \in Lanes \ {l} : AboutTo(r)' =>
          /\ AboutTo(r) /\ LaneOp(r)' = LaneOp(r) /\ LaneOp(r) # op
          /\ LaneOp(r) \in Ops /\ N[LaneOp(r)] # "none"
    BY <1>2, <1>3, <1>7, <2>1 DEF Issues, SameAbout
  <2>3. \A o \in Ops : issued'[o] = IF o = op THEN 1 ELSE issued[o]
    BY <1>1, <2>1
  <2> HIDE DEF M, N
  <2> QED BY <1>2, <1>3, <2>1, <2>2, <2>3
<1> QED BY <1>5, <1>6, <1>7, LedgerMoves

\* The ledger's variables, as functions of the mutations.
Marks   == [op \in Ops |-> Marker(op)]
Mutated == <<Marks, issued>>

LEMMA LedgerStep ==
  ASSUME SyncInv, ShopTyped, LedgerInv, [ShopNext]_allVars
  PROVE  [ShopLedgerOf!Next]_Mutated
<1>1. issued \in [Ops -> Nat] /\ \A l \in Lanes : AboutTo(l) => LaneOp(l) \in Ops
  BY AboutOp DEF ShopTyped, ShopTypeOK
<1>2. /\ Marks = [op \in Ops |-> Marker(op)] /\ Marks' = [op \in Ops |-> Marker(op)']
      /\ \A op \in Ops : Marks[op] = Marker(op) /\ Marks'[op] = Marker(op)'
  BY DEF Marks
<1>3. CASE Resolves
  <2>1. \A op \in Ops : Marks'[op] = IF Marks'[op] = Marks[op] THEN Marks[op] ELSE "verified"
    BY <1>2, <1>3 DEF Resolves
  <2>2. Marks' = [op \in Ops |-> IF Marks'[op] = Marks[op] THEN Marks[op] ELSE "verified"]
    BY <1>2, <2>1, Zenon
  <2> QED BY <1>3, <2>2 DEF Resolves, ShopLedgerOf!Next, ShopLedgerOf!Resolve, Marks
<1>4. ASSUME NEW l \in Lanes, NEW op \in Ops, Commits(l, op)
      PROVE  ShopLedgerOf!Commit(op)
  <2>1. Marks[op] = "none" /\ Marks' = [Marks EXCEPT ![op] = "dispatched"] /\ UNCHANGED issued
    BY <1>2, <1>4 DEF Commits
  <2> QED BY <2>1 DEF ShopLedgerOf!Commit, Marks
<1>5. ASSUME NEW l \in Lanes, NEW op \in Ops, Issues(l, op)
      PROVE  ShopLedgerOf!Issue(op)
  <2>1. Marks[op] # "none" /\ issued[op] = 0
    BY <1>2, <1>5 DEF Issues, LedgerInv
  <2>2. issued' = [issued EXCEPT ![op] = 1]
    BY <1>1, <1>5, <2>1 DEF Issues
  <2>3. Marks' = Marks
    BY <1>2, <1>5 DEF Issues
  <2> QED BY <2>1, <2>2, <2>3 DEF ShopLedgerOf!Issue, Marks
<1> QED BY <1>3, <1>4, <1>5, LedgerMoves DEF ShopLedgerOf!Next

LEMMA LedgerStart == ShopInit => ShopLedgerOf!Init
<1> SUFFICES ASSUME ShopInit PROVE ShopLedgerOf!Init
  OBVIOUS
<1>1. \A op \in Ops : Marker(op) = "none"
  <2>1. \A i \in IntentId : IntentMark(i) = "none"
    BY DEF ShopInit, IntentMark
  <2>2. \A m \in MediaId, k \in Keys : msteps[m][k] = "none"
    BY DEF ShopInit
  <2> QED BY <2>1, <2>2, OpsAre, MarksAre
<1>2. [op \in Ops |-> Marker(op)] = [op \in Ops |-> "none"]
  BY <1>1
<1> QED BY <1>2 DEF ShopInit, ShopLedgerOf!Init

\* A status change or a step of a photo set leaves for Magento at most once,
\* only after its marker is durable, and a marker is never withdrawn: through
\* faults, crashes, reviews, archives, restores, recounts and lost sessions.
THEOREM ShopLedgerImplemented == ShopSpec => ShopLedgerSpec
<1>1. SyncInv /\ ShopTyped /\ LedgerInv /\ [ShopNext]_allVars => LedgerInv'
  BY LedgerInvNext
<1>2. SyncInv /\ ShopTyped /\ LedgerInv /\ [ShopNext]_allVars => [ShopLedgerOf!Next]_Mutated
  BY LedgerStep
<1> QED BY <1>1, <1>2, ShopBasis, LedgerInvInit, LedgerStart, PTL
         DEF ShopSpec, ShopLedgerSpec, ShopLedgerOf!Spec, Mutated, Marks

-----------------------------------------------------------------------------
\* Who decides the status.

\* Rows and generations are never of the future, a marker belongs to a pinned
\* job, and so does the work of a lane.
Pinned_(l) == lane[l].at \in MediaSpots \ {"broken"} => media[Keep(l)].gen # 0
Bounds ==
  /\ \A i \in Rows(intents) : intents[i].row <= life.row
  /\ \A m \in Rows(media) : media[m].row <= life.row /\ media[m].gen <= request.desired
  /\ \A m \in MediaId, k \in Keys :
       msteps[m][k] # "none" => m \in Rows(media) /\ media[m].gen # 0
  /\ \A l \in Lanes : Pinned_(l)

\* While a visibility change is open, the photo sets of its row are pinned to
\* generations that are over: no review can bring one of them back.
PastPins ==
  gate => \A i \in OpenIntents, m \in Rows(media) :
    intents[i].row = media[m].row /\ media[m].gen # 0
      => media[m].gen < request.desired

AuthorityInv == Bounds /\ PastPins /\ OneAuthority

OpenStates == {"queued", "dispatched"}
OverStates == {"succeeded", "superseded"}

\* What a lane may do to the rows: no intent is opened, a job that is over is
\* reopened only with the authority of the generation it is pinned to, and a
\* job is pinned once, while it is open.
IntentsMove ==
  \/ UNCHANGED intents
  \/ \E i, s : Restates(i, s) /\ (s \in OpenStates => intents[i].state \in OpenStates)
JobsMove ==
  \/ UNCHANGED media
  \/ \E m, s : /\ Remakes(m, s, media[m].gen)
               /\ \/ s \in OverStates \/ m \in OpenMedia
                  \/ Authorised(m) /\ media[m].gen # 0
  \/ \E m \in OpenMedia : /\ Authorised(m) /\ media[m].gen = 0
                          /\ Remakes(m, "running", request.synced)
StepsMove ==
  \/ UNCHANGED msteps
  \/ \E m \in Rows(media), k \in Keys, v \in {"dispatched", "verified"} :
       Steps(m, k, v) /\ media[m].gen # 0 /\ Authorised(m)
LaneRows(l) ==
  UNCHANGED life /\ IntentsMove /\ JobsMove /\ StepsMove /\ OtherLanes(l) /\ Pinned_(l)'

\* An authorised job is of the present.
LEMMA AuthorisedIs ==
  ASSUME NEW m, Authorised(m), request.desired # 0
  PROVE  /\ gate /\ media[m].row = life.row /\ product.active
         /\ request.synced = request.desired /\ request.synced # 0
         /\ media[m].gen \in {0, request.desired}
BY DEF Authorised, NativeSynced

LEMMA LaneRowsHold ==
  ASSUME SyncInv, ShopTyped, Bounds, NEW l \in Lanes, Lane_(l)
  PROVE  LaneRows(l)
<1>1. /\ ShopTypeOK /\ Data /\ request.desired # 0 /\ Pinned_(l)
      /\ OtherLanes(l) /\ NoRow \notin Media
  BY LaneShapes, RowTypes DEF ShopTyped, SyncInv, Base, IInv, Typed, RequestInv, Bounds
<1>2. UNCHANGED tables => UNCHANGED life /\ IntentsMove /\ JobsMove /\ StepsMove
  BY DEF tables, IntentsMove, JobsMove, StepsMove
<1>3. \A r : Turns(l, r) /\ r.at \notin MediaSpots \ {"broken"} => Pinned_(l)'
  BY DEF Turns, Pinned_
<1>4. IdleLane.at \notin MediaSpots /\ "broken" \notin MediaSpots \ {"broken"}
      /\ IntentSpots \cap MediaSpots = {}
  BY DEF IdleLane, MediaSpots, IntentSpots
<1>5. \A spot : Stays(l, spot) /\ spot \notin MediaSpots \ {"broken"} => Pinned_(l)'
  BY DEF Stays, Pinned_
<1>6. \A spot, k, d : Holds(l, spot, k, d) /\ UNCHANGED media
                       /\ lane[l].at \in MediaSpots \ {"broken"} => Pinned_(l)'
  BY <1>1 DEF Holds, Pinned_, Keep
<1>7. \A spot : Stays(l, spot) => Holds(l, spot, lane[l].key, lane[l].done)
  BY StaysHolds
<1>8. CASE \/ TakeIntent(l) \/ LookAtStatus(l) \/ CheckPhotos(l) \/ ReviewIntent(l)
           \/ VerifyIntent(l) \/ ReadStatus(l) \/ StatusFault(l)
  <2>1. /\ UNCHANGED tables
        /\ \/ \E r : Turns(l, r) /\ r.at \in IntentSpots \cup {"idle"}
           \/ \E spot \in IntentSpots : Stays(l, spot)
    BY <1>8, TakeIntentForm, VerifyIntentForm, LookForm, CheckPhotosForm, ReadForm,
       StatusFaultForm, ReviewIntentForm DEF IntentSpots, IdleLane
  <2>2. "idle" \notin MediaSpots
    BY DEF MediaSpots
  <2> QED BY <1>1, <1>2, <1>3, <1>4, <1>5, <2>1, <2>2 DEF LaneRows
<1>9. CASE \/ Prepare(l) \/ PutStatus(l) \/ AcknowledgeIntent(l) \/ FailIntent(l)
           \/ ConfirmIntent(l)
  <2> PICK i : i = Keep(l)
    OBVIOUS
  <2>1. UNCHANGED <<life, media, msteps>>
    BY <1>9, PrepareForm, PutForm, AcknowledgeForm, FailIntentForm, ConfirmForm
  <2>2. \/ UNCHANGED intents
        \/ Restates(i, "verified")
        \/ intents[i].state = "queued" /\ Restates(i, "dispatched")
        \/ Restates(i, FailedIntent(intents[i].state))
    BY <1>9, PrepareForm, PutForm, AcknowledgeForm, FailIntentForm, ConfirmForm
  <2>3. IntentsMove
    BY <2>2 DEF IntentsMove, OpenStates, FailedIntent
  <2>4. Turns(l, IdleLane) \/ \E spot \in IntentSpots : Stays(l, spot)
    BY <1>9, PrepareForm, PutForm, AcknowledgeForm, FailIntentForm, ConfirmForm
       DEF IntentSpots
  <2> QED BY <1>1, <1>3, <1>4, <1>5, <2>1, <2>3, <2>4 DEF LaneRows, JobsMove, StepsMove
<1>10. CASE TakeMedia(l) \/ ReviewMedia(l)
  <2>1. PICK m \in Rows(media), review \in BOOLEAN :
          /\ EnterJob(l, m, review) /\ m \in OpenMedia
    <3>1. CASE TakeMedia(l)
      <4>1. PICK m \in Rows(media) : /\ media[m].state \in {"pending", "running"}
                                     /\ EnterJob(l, m, FALSE)
        BY <3>1 DEF TakeMedia
      <4> QED BY <4>1 DEF OpenMedia
    <3>2. CASE ReviewMedia(l)
      BY <1>1, <3>2, CurrentSetIs DEF ReviewMedia, OpenMedia
    <3> QED BY <1>10, <3>1, <3>2
  <2>2. /\ UNCHANGED <<life, intents, msteps>>
        /\ IF Authorised(m) /\ media[m].gen = 0
           THEN Remakes(m, "running", request.synced) ELSE UNCHANGED media
    BY <1>1, <2>1, EnterForm
  <2>3. PICK r \in Lane : /\ Turns(l, r) /\ r.id = m
                          /\ r.at = IF Authorised(m) THEN "step" ELSE "broken"
    BY <1>1, <2>1, EnterForm
  <2>4. Authorised(m) => media'[m].gen # 0
    BY <1>1, <2>2, AuthorisedIs DEF Remakes
  <2>5. Pinned_(l)'
    BY <2>3, <2>4 DEF Turns, Pinned_, Keep
  <2>6. JobsMove
    BY <2>1, <2>2 DEF JobsMove
  <2> QED BY <1>1, <2>2, <2>5, <2>6 DEF LaneRows, IntentsMove, StepsMove
<1>11. CASE \/ DecideStep(l) \/ RecheckEnable(l) \/ SendStep(l) \/ CheckStep(l)
            \/ FinishJob(l) \/ MediaFault(l) \/ LaneCrash(l)
  <2>1. UNCHANGED <<life, intents, media, msteps>>
    BY <1>11, DecideForm, RecheckForm, SendForm, CheckForm, FinishForm, MediaFaultForm,
       CrashForm DEF tables
  <2>2. \/ Turns(l, IdleLane)
        \/ /\ lane[l].at \in MediaSpots \ {"broken"}
           /\ \E spot, k, d : Holds(l, spot, k, d)
    <3>1. CASE DecideStep(l)
      BY <1>7, <3>1, DecideForm DEF At, MediaSpots
    <3>2. CASE ~DecideStep(l)
      BY <1>7, <1>11, <3>2, RecheckForm, SendForm, CheckForm, FinishForm, MediaFaultForm,
         CrashForm DEF At, MediaSpots
    <3> QED BY <3>1, <3>2
  <2> QED BY <1>1, <1>3, <1>4, <1>6, <2>1, <2>2
       DEF LaneRows, IntentsMove, JobsMove, StepsMove
<1>12. CASE MarkStep(l) \/ SealStep(l)
  <2> PICK m : m = Keep(l)
    OBVIOUS
  <2>1. /\ UNCHANGED <<life, intents, media>> /\ lane[l].at \in MediaSpots \ {"broken"}
        /\ UNCHANGED msteps \/ \E k, v : /\ v \in {"dispatched", "verified"}
                                         /\ Steps(m, k, v) /\ Authorised(m)
        /\ \E spot, k, d : Holds(l, spot, k, d)
    BY <1>7, <1>12, MarkForm, SealForm DEF At, MediaSpots
  <2>2. m \in Rows(media) /\ media[m].gen # 0
    BY <1>1, <2>1, MediaLane DEF Pinned_
  <2>3. \A k, v : Steps(m, k, v) => k \in Keys
    BY DEF Steps
  <2>4. StepsMove
    BY <2>1, <2>2, <2>3 DEF StepsMove
  <2> QED BY <1>1, <1>6, <2>1, <2>2, <2>4 DEF LaneRows, IntentsMove, JobsMove
<1>13. CASE Reopen(l) \/ SucceedJob(l) \/ FailJob(l)
  <2> PICK m : m = Keep(l)
    OBVIOUS
  <2>1. UNCHANGED <<life, intents, msteps>> /\ (Turns(l, IdleLane) \/ Stays(l, "broken"))
    BY <1>13, ReopenForm, SucceedForm, FailJobForm
  <2>2. JobsMove
    <3>1. CASE Reopen(l)
      <4>1. media[m].gen # 0
        BY <1>1, <3>1, ReopenForm DEF Pinned_, At, MediaSpots
      <4>2. \/ UNCHANGED media
            \/ Authorised(m) /\ Remakes(m, "pending", media[m].gen)
        BY <3>1, ReopenForm
      <4> QED BY <4>1, <4>2 DEF JobsMove
    <3>2. CASE SucceedJob(l)
      BY <3>2, SucceedForm DEF JobsMove, OverStates
    <3>3. CASE FailJob(l)
      BY <3>3, FailJobForm DEF JobsMove
    <3> QED BY <1>13, <3>1, <3>2, <3>3
  <2> QED BY <1>1, <1>3, <1>4, <1>5, <2>1, <2>2 DEF LaneRows, IntentsMove, StepsMove
<1> QED BY <1>8, <1>9, <1>10, <1>11, <1>12, <1>13
     DEF Lane_, LaneStep, Visibility, DeliverMedia

\* The native side only moves on: generations rise, the gate is never opened.
Onward == request'.desired >= request.desired /\ (gate' => gate)

LEMMA NativeOnward ==
  ASSUME SyncInv, [Next]_vars
  PROVE  Onward
<1>1. request \in Request /\ request.desired \in Nat /\ Base
  BY SplitType DEF SyncInv, Base, IInv, Data, Request
<1>2. ASSUME NEW p \in Proc, Act(p) \/ Poll(p) \/ RunProduct(p) \/ Crash(p) \/ Recover(p)
      PROVE  Onward
  BY <1>1, <1>2, ProcessSteady DEF Steady, Onward
<1>3. Workers \subseteq Proc /\ Operators \subseteq Proc
  BY DEF Proc
<1>4. Bump(request).desired >= request.desired
  BY <1>1 DEF Bump, Request
<1>5. CASE LoseSessions \/ Environment \/ Quiet \/ UNCHANGED vars
  <2>1. request' = request \/ request' = Bump(request)
    BY <1>5 DEF LoseSessions, Environment, Edit, Touch, Retire, Publish, RequestSync,
       ProcessHandoff, Disable, Deliver, Lose, ForeignWrite, Quiet, vars
  <2>2. gate' = gate \/ gate' = FALSE
    BY <1>5 DEF LoseSessions, Environment, Edit, Touch, Retire, Publish, RequestSync,
       ProcessHandoff, Disable, Deliver, Lose, ForeignWrite, Quiet, vars, amberVars
  <2> QED BY <1>1, <1>4, <2>1, <2>2 DEF Onward
<1> QED BY <1>2, <1>3, <1>5 DEF Next

\* What a person asks for while the gate is on is a generation of its own.
LEMMA SyncAsks ==
  ASSUME Data, RequestSync
  PROVE  /\ request.desired \in Nat /\ request'.desired \in Nat
         /\ request'.desired = IF gate THEN request.desired + 1 ELSE request.desired
BY SplitType DEF Data, RequestSync, Bump, Request

LEMMA AuthorityNative ==
  ASSUME SyncInv, ShopTyped, AuthorityInv, Onward, SyncInv',
         UNCHANGED <<life, intents, media, msteps, lane>>
  PROVE  AuthorityInv'
<1>1. request.desired \in Nat /\ request'.desired \in Nat
  BY SplitType DEF SyncInv, Base, IInv, Typed, Data, Request
<1>2. \A m \in Rows(media) : media[m].gen \in Nat
  BY RowTypes DEF ShopTyped, Media
<1>3. Bounds'
  BY <1>1, <1>2 DEF AuthorityInv, Bounds, Pinned_, Onward, Rows, Keep
<1>4. PastPins'
  <2>1. OpenIntents' = OpenIntents /\ Rows(media)' = Rows(media)
    BY DEF OpenIntents, Rows
  <2> QED BY <1>1, <1>2, <2>1 DEF AuthorityInv, PastPins, Onward
<1>5. OneAuthority'
  BY DEF AuthorityInv, OneAuthority, OpenIntents, OpenMedia, Rows
<1> QED BY <1>3, <1>4, <1>5 DEF AuthorityInv

LEMMA IntentsMoveIs ==
  ASSUME ShopTyped, IntentsMove
  PROVE  /\ Rows(intents)' = Rows(intents) /\ OpenIntents' \subseteq OpenIntents
         /\ \A i \in Rows(intents) : intents'[i].row = intents[i].row
<1>1. /\ NoRow \notin Intent /\ DOMAIN intents = IntentId
      /\ Rows(intents) = {i \in IntentId : intents[i] # NoRow}
  BY RowTypes DEF ShopTyped, ShopTypeOK, Rows
<1>2. CASE UNCHANGED intents
  BY <1>2 DEF OpenIntents, Rows
<1>3. ASSUME NEW i, NEW s, Restates(i, s), s \in OpenStates => intents[i].state \in OpenStates
      PROVE  /\ Rows(intents)' = Rows(intents) /\ OpenIntents' \subseteq OpenIntents
             /\ \A k \in Rows(intents) : intents'[k].row = intents[k].row
  <2>1. \A k \in IntentId : IF k = i THEN intents'[k] # NoRow /\ intents[k] # NoRow
                                          /\ intents'[k].row = intents[k].row
                                     ELSE intents'[k] = intents[k]
    BY <1>1, <1>3 DEF Restates
  <2>2. DOMAIN intents' = IntentId /\ i \in IntentId
    BY <1>1, <1>3 DEF Restates
  <2>3. Rows(intents)' = Rows(intents)
    BY <1>1, <2>1, <2>2 DEF Rows
  <2>4. intents'[i].state \in OpenStates => intents[i].state \in OpenStates
    BY <1>3 DEF Restates
  <2> QED BY <1>1, <2>1, <2>3, <2>4 DEF OpenIntents, OpenStates
<1> QED BY <1>2, <1>3 DEF IntentsMove

LEMMA JobsMoveIs ==
  ASSUME ShopTyped, JobsMove, request.desired # 0
  PROVE  /\ Rows(media)' = Rows(media)
         /\ \A m \in Rows(media) :
              /\ media'[m].row = media[m].row /\ media'[m].ids = media[m].ids
              /\ media'[m].enable = media[m].enable
              /\ \/ media'[m].gen = media[m].gen
                 \/ /\ m \in OpenMedia /\ Authorised(m) /\ media[m].gen = 0
                    /\ media'[m].gen = request.desired
              /\ m \in OpenMedia' => \/ m \in OpenMedia
                                     \/ Authorised(m) /\ media[m].gen # 0
<1>1. /\ NoRow \notin Media /\ DOMAIN media = MediaId
      /\ Rows(media) = {m \in MediaId : media[m] # NoRow}
  BY RowTypes DEF ShopTyped, ShopTypeOK, Rows
<1>2. CASE UNCHANGED media
  BY <1>2 DEF OpenMedia, Rows
<1>3. ASSUME NEW m, NEW s, NEW g, Remakes(m, s, g),
             s \in OverStates \/ m \in OpenMedia \/ (Authorised(m) /\ media[m].gen # 0),
             \/ g = media[m].gen
             \/ /\ m \in OpenMedia /\ Authorised(m) /\ media[m].gen = 0
                /\ g = request.desired
      PROVE  /\ Rows(media)' = Rows(media)
             /\ \A n \in Rows(media) :
                  /\ media'[n].row = media[n].row /\ media'[n].ids = media[n].ids
                  /\ media'[n].enable = media[n].enable
                  /\ \/ media'[n].gen = media[n].gen
                     \/ /\ n \in OpenMedia /\ Authorised(n) /\ media[n].gen = 0
                        /\ media'[n].gen = request.desired
                  /\ n \in OpenMedia' => \/ n \in OpenMedia
                                         \/ Authorised(n) /\ media[n].gen # 0
  <2>1. /\ m \in MediaId /\ m \in Rows(media) /\ media'[m] # NoRow
        /\ media'[m].state = s /\ media'[m].gen = g
        /\ media'[m].row = media[m].row /\ media'[m].ids = media[m].ids
        /\ media'[m].enable = media[m].enable
        /\ \A n \in MediaId \ {m} : media'[n] = media[n]
        /\ DOMAIN media' = MediaId
    BY <1>1, <1>3 DEF Remakes
  <2>2. Rows(media)' = Rows(media)
    BY <1>1, <2>1 DEF Rows
  <2>3. OpenMedia = {n \in Rows(media) : media[n].state \notin OverStates}
        /\ OpenMedia' = {n \in Rows(media)' : media'[n].state \notin OverStates}
    BY DEF OpenMedia, OverStates
  <2>4. ASSUME NEW n \in Rows(media)
        PROVE  /\ media'[n].row = media[n].row /\ media'[n].ids = media[n].ids
               /\ media'[n].enable = media[n].enable
               /\ \/ media'[n].gen = media[n].gen
                  \/ /\ n \in OpenMedia /\ Authorised(n) /\ media[n].gen = 0
                     /\ media'[n].gen = request.desired
               /\ n \in OpenMedia' => \/ n \in OpenMedia
                                      \/ Authorised(n) /\ media[n].gen # 0
    <3>1. CASE n = m
      BY <1>3, <2>1, <2>3, <3>1
    <3>2. CASE n # m
      BY <1>1, <2>1, <2>3, <3>2
    <3> QED BY <3>1, <3>2
  <2> QED BY <2>2, <2>4
<1>4. CASE \E m, s : /\ Remakes(m, s, media[m].gen)
                     /\ \/ s \in OverStates \/ m \in OpenMedia
                        \/ Authorised(m) /\ media[m].gen # 0
  <2> PICK m, s : /\ Remakes(m, s, media[m].gen)
                  /\ \/ s \in OverStates \/ m \in OpenMedia
                     \/ Authorised(m) /\ media[m].gen # 0
    BY <1>4
  <2> QED BY <1>3
<1>5. CASE \E m \in OpenMedia : /\ Authorised(m) /\ media[m].gen = 0
                                /\ Remakes(m, "running", request.synced)
  <2> PICK m \in OpenMedia : /\ Authorised(m) /\ media[m].gen = 0
                             /\ Remakes(m, "running", request.synced)
    BY <1>5
  <2>1. request.synced = request.desired
    BY AuthorisedIs
  <2> QED BY <1>3, <2>1
<1> QED BY <1>2, <1>4, <1>5 DEF JobsMove

LEMMA AuthorityLane ==
  ASSUME SyncInv, ShopTyped, AuthorityInv, NEW l \in Lanes, LaneRows(l),
         gate' = gate, request'.desired = request.desired
  PROVE  AuthorityInv'
<1>1. /\ request.desired \in Nat /\ request.desired # 0 /\ life.row \in Nat
      /\ \A m \in Rows(media) : media[m].gen \in Nat
      /\ UNCHANGED life /\ IntentsMove /\ JobsMove /\ StepsMove /\ OtherLanes(l)
      /\ Pinned_(l)'
  BY SplitType, RowTypes DEF SyncInv, Base, IInv, Typed, Data, Request, RequestInv,
     ShopTyped, ShopTypeOK, Life, LaneRows, Media
<1>2. /\ Rows(intents)' = Rows(intents) /\ OpenIntents' \subseteq OpenIntents
      /\ \A i \in Rows(intents) : intents'[i].row = intents[i].row
  BY <1>1, IntentsMoveIs
<1>3. /\ Rows(media)' = Rows(media)
      /\ \A m \in Rows(media) :
           /\ media'[m].row = media[m].row
           /\ \/ media'[m].gen = media[m].gen
              \/ /\ m \in OpenMedia /\ Authorised(m) /\ media[m].gen = 0
                 /\ media'[m].gen = request.desired
           /\ m \in OpenMedia' => \/ m \in OpenMedia
                                  \/ Authorised(m) /\ media[m].gen # 0
  BY <1>1, JobsMoveIs
<1>4. \A m \in Rows(media) : media[m].gen # 0 => media'[m].gen # 0
  BY <1>1, <1>3
<1>5. Bounds'
  <2>1. \A i \in Rows(intents)' : intents'[i].row <= life'.row
    BY <1>1, <1>2 DEF AuthorityInv, Bounds
  <2>2. \A m \in Rows(media)' : media'[m].row <= life'.row /\ media'[m].gen <= request'.desired
    BY <1>1, <1>3 DEF AuthorityInv, Bounds
  <2>3. ASSUME NEW m \in MediaId, NEW k \in Keys, msteps'[m][k] # "none"
        PROVE  m \in Rows(media)' /\ media'[m].gen # 0
    <3>1. CASE msteps[m][k] # "none"
      BY <1>3, <1>4, <3>1 DEF AuthorityInv, Bounds
    <3>2. CASE msteps[m][k] = "none"
      <4>1. m \in Rows(media) /\ media[m].gen # 0
        BY <1>1, <2>3, <3>2 DEF StepsMove, Steps
      <4> QED BY <1>3, <1>4, <4>1
    <3> QED BY <3>1, <3>2
  <2>4. ASSUME NEW r \in Lanes  PROVE Pinned_(r)'
    <3>1. CASE r = l
      BY <1>1, <3>1
    <3>2. CASE r # l
      <4>1. lane'[r] = lane[r] /\ Pinned_(r)
        BY <1>1, <3>2 DEF OtherLanes, AuthorityInv, Bounds
      <4>2. lane[r].at \in MediaSpots => Keep(r) \in Rows(media)
        BY DEF ShopTyped, Shaped
      <4> QED BY <1>4, <4>1, <4>2 DEF Pinned_, Keep
    <3> QED BY <3>1, <3>2
  <2> QED BY <2>1, <2>2, <2>3, <2>4 DEF Bounds
<1>6. ASSUME NEW i \in OpenIntents, NEW m \in Rows(media), Authorised(m),
             intents[i].row = media[m].row
      PROVE  media[m].gen = 0
  <2>1. gate /\ media[m].gen \in {0, request.desired}
    BY <1>1, <1>6, AuthorisedIs
  <2> QED BY <1>1, <1>6, <2>1 DEF AuthorityInv, PastPins
<1>7. ASSUME NEW i \in OpenIntents', NEW m \in Rows(media)'
      PROVE  /\ i \in OpenIntents /\ m \in Rows(media) /\ media'[m].row = media[m].row
             /\ intents'[i].row = intents[i].row
  BY <1>2, <1>3 DEF OpenIntents
<1>8. PastPins'
  <2>1. SUFFICES ASSUME gate', NEW i \in OpenIntents', NEW m \in Rows(media)',
                        intents'[i].row = media'[m].row, media'[m].gen # 0
                 PROVE  media'[m].gen < request'.desired
    BY DEF PastPins
  <2>2. i \in OpenIntents /\ m \in Rows(media) /\ intents[i].row = media[m].row
    BY <1>7, <2>1
  <2>3. m \notin OpenMedia
    BY <2>2 DEF AuthorityInv, OneAuthority
  <2>4. media'[m].gen = media[m].gen
    BY <1>3, <2>2, <2>3
  <2> QED BY <2>1, <2>2, <2>4 DEF AuthorityInv, PastPins
<1>9. OneAuthority'
  <2>1. SUFFICES ASSUME NEW i \in OpenIntents', NEW m \in OpenMedia'
                 PROVE  intents'[i].row # media'[m].row
    BY DEF OneAuthority
  <2>2. m \in Rows(media)'
    BY DEF OpenMedia
  <2>3. CASE m \in OpenMedia
    BY <1>7, <2>2, <2>3 DEF AuthorityInv, OneAuthority
  <2>4. CASE Authorised(m) /\ media[m].gen # 0
    BY <1>6, <1>7, <2>2, <2>4
  <2> QED BY <1>3, <2>2, <2>3, <2>4
<1> QED BY <1>5, <1>8, <1>9 DEF AuthorityInv

\* A decision about visibility meets no photo set under way.
LEMMA AuthorityNoPhotos ==
  ASSUME SyncInv, SyncInv', ShopTyped, AuthorityInv, OpenMedia = {}, RequestSync,
         UNCHANGED <<media, msteps, lane, gate>>, life'.row = life.row,
         \A i \in Rows(intents)' : intents'[i].row <= life.row
  PROVE  AuthorityInv'
<1>1. /\ Data /\ request.desired \in Nat /\ request'.desired \in Nat
      /\ request'.desired = IF gate THEN request.desired + 1 ELSE request.desired
      /\ \A m \in Rows(media) : media[m].gen \in Nat
  BY SyncAsks, RowTypes DEF SyncInv, Base, IInv, Typed, ShopTyped, Media
<1>2. Rows(media)' = Rows(media) /\ OpenMedia' = OpenMedia
  BY DEF Rows, OpenMedia
<1>3. Bounds'
  BY <1>1, <1>2 DEF AuthorityInv, Bounds, Pinned_, Keep
<1>4. \A m \in Rows(media) : media[m].gen <= request.desired
  BY DEF AuthorityInv, Bounds
<1>5. PastPins'
  BY <1>1, <1>2, <1>4 DEF PastPins
<1>6. OneAuthority'
  BY <1>2 DEF OneAuthority
<1> QED BY <1>3, <1>5, <1>6 DEF AuthorityInv

\* New jobs are not pinned, and no open intent is of their row.
LEMMA AuthorityNewJobs ==
  ASSUME SyncInv, SyncInv', ShopTyped, AuthorityInv, UNCHANGED <<intents, msteps, lane, gate>>,
         request'.desired \in Nat, request'.desired >= request.desired,
         life'.row \in Nat, life'.row >= life.row,
         \A m \in Rows(media) : m \in Rows(media)',
         \A m \in Rows(media)' :
           \/ /\ m \in Rows(media) /\ media'[m].row = media[m].row
              /\ media'[m].gen = media[m].gen
              /\ m \in OpenMedia' => m \in OpenMedia
           \/ /\ media'[m].gen = 0 /\ media'[m].row = life'.row /\ m \notin Rows(media)
              /\ \A i \in OpenIntents : intents[i].row # life'.row
  PROVE  AuthorityInv'
<1>1. /\ request.desired \in Nat /\ life.row \in Nat
      /\ \A m \in Rows(media) : media[m].gen \in Nat /\ media[m].row \in Nat
      /\ \A i \in Rows(intents) : intents[i].row \in Nat
      /\ \A r \in Lanes : Shaped(r)
  BY SplitType, RowTypes DEF SyncInv, Base, IInv, Typed, Data, Request, ShopTyped,
     ShopTypeOK, Life, Media, Intent
<1>2. Rows(intents)' = Rows(intents) /\ OpenIntents' = OpenIntents
  BY DEF Rows, OpenIntents
<1>3. Bounds'
  <2>1. \A i \in Rows(intents)' : intents'[i].row <= life'.row
    BY <1>1, <1>2 DEF AuthorityInv, Bounds
  <2>2. \A m \in Rows(media)' : media'[m].row <= life'.row /\ media'[m].gen <= request'.desired
    BY <1>1 DEF AuthorityInv, Bounds
  <2>3. \A m \in Rows(media) : media'[m].gen = media[m].gen
    OBVIOUS
  <2>4. \A m \in MediaId, k \in Keys : msteps'[m][k] # "none"
          => m \in Rows(media)' /\ media'[m].gen # 0
    BY <2>3 DEF AuthorityInv, Bounds
  <2>5. \A r \in Lanes : Pinned_(r)'
    BY <1>1, <2>3 DEF AuthorityInv, Bounds, Pinned_, Shaped, Keep
  <2> QED BY <2>1, <2>2, <2>4, <2>5 DEF Bounds
<1>4. PastPins'
  BY <1>1, <1>2 DEF AuthorityInv, PastPins
<1>5. OneAuthority'
  <2>1. \A m \in OpenMedia' : m \in Rows(media)'
    BY DEF OpenMedia
  <2> QED BY <1>2, <2>1 DEF AuthorityInv, OneAuthority
<1> QED BY <1>3, <1>4, <1>5 DEF AuthorityInv

LEMMA AuthorityDecision ==
  ASSUME SyncInv, SyncInv', ShopTyped, AuthorityInv, Decision
  PROVE  AuthorityInv'
<1>1. /\ ShopTypeOK /\ Data /\ Data' /\ life.row \in Nat /\ request.desired \in Nat
      /\ NoRow \notin Intent /\ NoRow \notin Media
      /\ DOMAIN media = MediaId /\ DOMAIN intents = IntentId
      /\ \A i \in Rows(intents) : intents[i].row \in Nat
  BY SplitType, RowTypes DEF ShopTyped, SyncInv, Base, IInv, Typed, ShopTypeOK, Life,
     Data, Request, Intent
<1>2. /\ OpenMedia = {m \in Rows(media) : media[m].state \notin OverStates}
      /\ OpenMedia' = {m \in Rows(media)' : media'[m].state \notin OverStates}
  BY DEF OpenMedia, OverStates
<1>3. CASE SavePhotos
  <2>1. /\ UNCHANGED <<life, intents, msteps, lane, request, gate>> /\ OpenIntents = {}
        /\ media' \in [MediaId -> Media \cup {NoRow}]
    BY <1>1, <1>3, SavePhotosForm
  <2>2. PICK n \in MediaId :
          /\ media[n] = NoRow /\ media'[n] \in Media
          /\ media'[n].row = life.row /\ media'[n].gen = 0
          /\ \A k \in MediaId \ {n} : media'[k] = media[k]
    BY <1>1, <1>3, SavePhotosForm DEF NewJob
  <2>3. Rows(media)' = Rows(media) \cup {n} /\ n \notin Rows(media)
    BY <1>1, <2>1, <2>2 DEF Rows
  <2>4. \A m \in Rows(media) : media'[m] = media[m]
    BY <1>1, <2>2, <2>3 DEF Rows
  <2>5. \A m \in Rows(media) : m \in OpenMedia' => m \in OpenMedia
    BY <1>2, <2>4
  <2> QED BY <1>1, <2>1, <2>2, <2>3, <2>4, <2>5, AuthorityNewJobs
<1>4. ASSUME NEW k \in IntentId, Over(k, intents'[k]), k \in Rows(intents)'
      PROVE  intents'[k].row <= life.row
  <2>1. k \in Rows(intents) /\ intents'[k].row = intents[k].row
    BY <1>1, <1>4 DEF Over, Rows
  <2> QED BY <2>1 DEF AuthorityInv, Bounds
<1>5. ASSUME NEW k \in Rows(intents)', intents'[k] = intents[k], k \in IntentId
      PROVE  intents'[k].row <= life.row
  <2>1. k \in Rows(intents)
    BY <1>1, <1>5 DEF Rows
  <2> QED BY <1>5, <2>1 DEF AuthorityInv, Bounds
<1>6. CASE Archive
  <2>1. /\ UNCHANGED <<media, msteps, lane, gate>> /\ life'.row = life.row /\ RequestSync
        /\ OpenMedia = {} /\ intents' \in [IntentId -> Intent \cup {NoRow}]
    BY <1>1, <1>6, ArchiveForm DEF ArchiveAllowed
  <2>2. PICK i \in IntentId : /\ intents'[i].row = life.row
                              /\ \A k \in IntentId \ {i} : Over(k, intents'[k])
    BY <1>1, <1>6, ArchiveForm DEF NewIntent
  <2>3. \A k \in Rows(intents)' : intents'[k].row <= life.row
    <3> TAKE k \in Rows(intents)'
    <3>1. k \in IntentId
      BY <2>1 DEF Rows
    <3> QED BY <1>1, <1>4, <2>2, <3>1
  <2> QED BY <2>1, <2>3, AuthorityNoPhotos
<1>7. CASE Restore
  <2>1. /\ UNCHANGED <<media, msteps, lane, gate>> /\ life'.row = life.row /\ RequestSync
        /\ OpenMedia = {} /\ intents' \in [IntentId -> Intent \cup {NoRow}]
    BY <1>1, <1>7, RestoreForm DEF Restorable
  <2>2. \/ \A k \in IntentId : Over(k, intents'[k])
        \/ \E i \in IntentId : /\ intents'[i].row = life.row
                               /\ \A k \in IntentId \ {i} : intents'[k] = intents[k]
    BY <1>1, <1>7, RestoreForm DEF NewIntent
  <2>3. \A k \in Rows(intents)' : intents'[k].row <= life.row
    <3> TAKE k \in Rows(intents)'
    <3>1. k \in IntentId
      BY <2>1 DEF Rows
    <3> QED BY <1>1, <1>4, <1>5, <2>2, <3>1
  <2> QED BY <2>1, <2>3, AuthorityNoPhotos
<1>8. CASE Recount
  <2>1. /\ UNCHANGED <<intents, msteps, lane, gate>> /\ RequestSync
        /\ life'.row = life.row + 1 /\ media' \in [MediaId -> Media \cup {NoRow}]
    BY <1>1, <1>8, RecountForm
  <2>2. request'.desired \in Nat /\ request'.desired >= request.desired
    BY <1>1, <2>1, SyncAsks
  <2>3. \A i \in OpenIntents : intents[i].row # life'.row
    BY <1>1, <2>1 DEF AuthorityInv, Bounds, OpenIntents
  <2>4. CASE UNCHANGED media
    <3>1. Rows(media)' = Rows(media) /\ OpenMedia' = OpenMedia
      BY <2>4 DEF Rows, OpenMedia
    <3> QED BY <1>1, <2>1, <2>2, <2>4, <3>1, AuthorityNewJobs
  <2>5. CASE ~UNCHANGED media
    <3> PICK m : m = CurrentSet
      OBVIOUS
    <3>0. m # 0 /\ \E n \in MediaId :
            /\ m # n /\ NewJob(n, life.row + 1, media[m].ids, media[m].enable)
            /\ media'[m] \in Media /\ media'[m].gen = media[m].gen
            /\ media'[m].row = media[m].row
            /\ media'[m].state = IF media[m].state = "succeeded"
                                 THEN "succeeded" ELSE "superseded"
            /\ \A k \in MediaId \ {m, n} : media'[k] = media[k]
      BY <1>1, <1>8, <2>5, RecountForm
    <3>1. PICK n \in MediaId :
            /\ m # n /\ media[n] = NoRow /\ media'[n] \in Media
            /\ media'[n].row = life.row + 1 /\ media'[n].gen = 0
            /\ media'[m] \in Media /\ media'[m].gen = media[m].gen
            /\ media'[m].row = media[m].row
            /\ media'[m].state \in OverStates
            /\ \A k \in MediaId \ {m, n} : media'[k] = media[k]
      BY <3>0 DEF NewJob, OverStates
    <3>2. m \in Rows(media) /\ m \in MediaId
      BY <1>1, <3>0, CurrentSetIs, RowTypes
    <3>3. Rows(media)' = Rows(media) \cup {n} /\ n \notin Rows(media)
      BY <1>1, <2>1, <3>1, <3>2 DEF Rows
    <3>4. ASSUME NEW k \in Rows(media)
          PROVE  /\ media'[k].row = media[k].row /\ media'[k].gen = media[k].gen
                 /\ k \in OpenMedia' => k \in OpenMedia
      <4>1. CASE k = m
        BY <1>2, <3>1, <4>1
      <4>2. CASE k # m
        <5>1. media'[k] = media[k]
          BY <1>1, <3>1, <3>3, <4>2 DEF Rows
        <5> QED BY <1>2, <5>1
      <4> QED BY <4>1, <4>2
    <3> QED BY <1>1, <2>1, <2>2, <2>3, <3>1, <3>3, <3>4, AuthorityNewJobs
  <2> QED BY <2>4, <2>5
<1> QED BY <1>3, <1>6, <1>7, <1>8 DEF Decision

LEMMA AuthorityInit == ShopInit => AuthorityInv
<1> SUFFICES ASSUME ShopInit PROVE AuthorityInv
  OBVIOUS
<1>1. Rows(intents) = {} /\ Rows(media) = {}
  BY DEF ShopInit, Rows
<1>2. \A l \in Lanes : lane[l].at \notin MediaSpots
  BY DEF ShopInit, IdleLane, MediaSpots
<1>3. \A m \in MediaId, k \in Keys : msteps[m][k] = "none"
  BY DEF ShopInit
<1> QED BY <1>1, <1>2, <1>3
     DEF AuthorityInv, Bounds, Pinned_, PastPins, OneAuthority, OpenIntents, OpenMedia

LEMMA AuthorityNext ==
  ASSUME SyncInv, ShopTyped, AuthorityInv, [ShopNext]_allVars
  PROVE  AuthorityInv'
<1>1. SyncInv' /\ ShopTyped' /\ ShopTypeOK /\ Data
  BY SyncShopNext, TypedShopNext DEF ShopTyped, SyncInv, Base, IInv, Typed
<1>2. CASE NativeStep
  BY <1>1, <1>2, NativeOnward, AuthorityNative DEF NativeStep, shopVars
<1>3. CASE Decision
  BY <1>1, <1>3, AuthorityDecision
<1>4. CASE Weather
  <2>1. UNCHANGED <<life, intents, media, msteps, lane, request, gate>>
    BY <1>1, <1>4, WeatherForm
  <2>2. request.desired \in Nat
    BY <1>1, SplitType DEF Data, Request
  <2> QED BY <1>1, <2>1, <2>2, AuthorityNative DEF Onward
<1>5. ASSUME NEW l \in Lanes, Lane_(l)  PROVE AuthorityInv'
  <2>1. LaneRows(l)
    BY <1>5, LaneRowsHold DEF AuthorityInv
  <2>2. \A r \in Lanes : lane[r].at \in {"verify", "prepare", "acknowledge", "confirm"}
          => Keep(r) \in Rows(intents)
    BY DEF ShopTyped, Shaped, IntentSpots
  <2>3. Aside \/ Cancels
    BY <1>5, <2>2, LaneSteps
  <2>4. gate' = gate /\ request'.desired = request.desired
    <3>1. CASE Aside
      BY <3>1 DEF Aside, nativeVars
    <3>2. CASE Cancels
      <4>1. request \in Request
        BY <1>1 DEF Data
      <4> QED BY <3>2, <4>1 DEF Cancels, CancelNative, nativeVars, Request
    <3> QED BY <2>3, <3>1, <3>2
  <2> QED BY <2>1, <2>4, AuthorityLane
<1> QED BY <1>2, <1>3, <1>4, <1>5, ShopCases

LEMMA AuthorityBasis == ShopSpec => []AuthorityInv
<1>1. SyncInv /\ ShopTyped /\ AuthorityInv /\ [ShopNext]_allVars => AuthorityInv'
  BY AuthorityNext
<1> QED BY <1>1, ShopBasis, AuthorityInit, PTL DEF ShopSpec

\* A visibility change and a photo set of one row are never under way
\* together, whichever of them was queued, reviewed or left behind: each
\* decides the status, and the other would undo it.
THEOREM OneAuthorityHolds == ShopSpec => []OneAuthority
<1>1. AuthorityInv => OneAuthority
  BY DEF AuthorityInv
<1> QED BY <1>1, AuthorityBasis, PTL
=============================================================================
