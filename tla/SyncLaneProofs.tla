--------------------------- MODULE SyncLaneProofs ---------------------------
(***************************************************************************)
(* Proofs about the SKU lane of MagentoSync while PostgreSQL keeps every   *)
(* session that a live process holds: who works on the SKU works alone, so *)
(* one dispatch at most is unresolved, a superseded job is over, and a     *)
(* plan is inserted into an empty lane.  With the deliveries and with what *)
(* is still on its way to Magento: a request that says synced is one whose *)
(* product Magento shows as it is now.  With one replica: a request parked *)
(* for reconciliation stays parked until every dispatch is resolved.       *)
(***************************************************************************)
EXTENDS SyncDeliveryProofs

\* No session ends while its process lives; processes may still crash.
NoLoss == \A b \in Budgets : b["loss"] = 0

\* Labels at which the SKU lock is held, and those at which applyJob works on
\* a job.
InsideSku == {"plan", "insert", "begin", "step", "mark", "send", "readback",
              "verify", "succeed", "fail", "reconcile", "retire"}
Applying  == {"begin", "step", "mark", "send", "readback", "verify", "succeed"}

\* The lock belongs to who is inside; the job worked on is unfinished, the
\* lane of a plan empty; and nothing of a superseded job is unresolved.
HoldsLock(p) == pc[p] \in InsideSku => skuLock = p
Safe(p) ==
  /\ pc[p] \in Applying => jobs[loc[p].job].state \notin Finished
  /\ pc[p] = "insert" => Unfinished = {}
Over == \A j \in Created : jobs[j].state = "superseded" => Dispatched(j) = {}
LockInv == (\A p \in Proc : HoldsLock(p) /\ Safe(p)) /\ Over

-----------------------------------------------------------------------------
\* The lock.

\* Nobody but p is inside.
Alone(p) == \A q \in Proc \ {p} : pc[q] \notin InsideSku

LEMMA InsideAlone ==
  ASSUME LockInv, NEW p \in Proc, pc[p] \in InsideSku \/ SkuFree
  PROVE  Alone(p)
BY ProcAssumption DEF LockInv, HoldsLock, Alone, SkuFree

\* What a step of p does to the lock.
SkuMove(p) ==
  /\ Others(p)
  /\ \/ skuLock' = skuLock /\ (pc'[p] \in InsideSku => pc[p] \in InsideSku)
     \/ skuLock' = p /\ SkuFree
     \/ skuLock' = Unlocked(skuLock, p) /\ pc'[p] \notin InsideSku

LEMMA LockMoves ==
  ASSUME LockInv, NEW p \in Proc, SkuMove(p)
  PROVE  \A q \in Proc : HoldsLock(q)'
<1>1. \A q \in Proc \ {p} : HoldsLock(q)'
  BY ProcAssumption DEF LockInv, HoldsLock, SkuMove, Others, SkuFree, Unlocked
<1>2. HoldsLock(p)'
  BY DEF LockInv, HoldsLock, SkuMove
<1> QED BY <1>1, <1>2

LEMMA StopsLabel ==
  ASSUME NEW p, NEW S, Stops(p, S)
  PROVE  Others(p) /\ pc'[p] \in S
BY DEF Stops, Goes

LEMMA TakesLabel ==
  ASSUME NEW p
  PROVE  /\ \A label, j : TakesJob(p, label, j) =>
              Others(p) /\ pc'[p] = label /\ loc'[p].job = j
         /\ \A S : HasLeft(p, S) =>
              Others(p) /\ pc'[p] = "step" /\ loc'[p].job = loc[p].job
         /\ \A label, m : Goes(p, label, m) => Others(p) /\ pc'[p] = label
BY DEF TakesJob, HasLeft, Goes

LEMMA EnqueueLock ==
  ASSUME IInv, NEW p \in Proc, Enqueue(p)
  PROVE  SkuMove(p)
<1> USE DEF Thrown, InsideSku
<1>1. Control
  BY Known
<1>2. CASE EnqueueEnter(p)
  <2>1. Others(p)
    BY <1>1, <1>2, EnqueueEnterMoves, StopsLabel
  <2>2. SkuFree /\ (skuLock' = p \/ (UNCHANGED skuLock /\ \E code : Throw(p, code)))
    BY <1>2 DEF EnqueueEnter
  <2>3. \A code : Throw(p, code) => pc'[p] \in Thrown
    <3> HIDE DEF Thrown
    <3> QED BY <1>1, ThrowStops, StopsLabel
  <2> QED BY <2>1, <2>2, <2>3 DEF SkuMove
<1>3. CASE UseExisting(p)
  <2>1. Others(p) /\ pc'[p] \in Thrown \cup {"syncing"}
    BY <1>1, <1>3, UseExistingMoves, StopsLabel, TakesLabel
  <2> QED BY <1>3, <2>1 DEF UseExisting, UnlockSku, SkuMove
<1>4. CASE PlanJob(p) \/ PlanFault(p)
  <2>1. /\ Others(p) /\ pc[p] = "plan"
        /\ pc'[p] \in Thrown \/ UNCHANGED lockVars
    BY <1>1, <1>4, PlanMoves, StopsLabel DEF PlanJob, PlanFault
  <2>2. UNCHANGED lockVars \/ UnlockSku(p)
    BY <1>4 DEF PlanJob, PlanFault
  <2> QED BY <2>1, <2>2 DEF UnlockSku, SkuMove, lockVars
<1>5. CASE InsertJob(p)
  <2>1. Others(p) /\ pc'[p] \in Thrown \cup {"syncing"}
    BY <1>5, InsertRow, StopsLabel, TakesLabel
  <2> QED BY <1>5, <2>1 DEF InsertJob, UnlockSku, SkuMove
<1> QED BY <1>2, <1>3, <1>4, <1>5 DEF Enqueue

LEMMA ApplyLock ==
  ASSUME IInv, NEW p \in Proc, ApplyJob(p)
  PROVE  SkuMove(p)
<1> USE DEF Thrown, Answered, InsideSku
<1>1. Control
  BY Known
<1>2. CASE ApplyBusy(p) \/ ApplyRefused(p) \/ BlockRefused(p)
  <2>1. UNCHANGED skuLock
    BY <1>2 DEF ApplyBusy, ApplyRefused, BlockRefused, lockVars
  <2> QED BY <1>1, <1>2, <2>1, EarlyApplyMoves, StopsLabel DEF SkuMove
<1>3. CASE ApplyEnter(p)
  <2>1. SkuFree
    BY <1>3 DEF ApplyEnter
  <2> QED BY <1>1, <1>3, <2>1, ApplyEnterMoves, StopsLabel DEF SkuMove
<1>4. CASE Begin(p) \/ NextStep(p) \/ Verify(p)
  <2>1. Others(p)
    BY <1>1, <1>4, BeginMoves, NextStepMoves, VerifyMoves, StopsLabel, TakesLabel
  <2>2. UNCHANGED skuLock /\ pc[p] \in InsideSku
    BY <1>4 DEF Begin, NextStep, Verify, lockVars
  <2> QED BY <2>1, <2>2 DEF SkuMove
<1>5. CASE Mark(p) \/ Send(p) \/ Readback(p) \/ FinalReadback(p) \/ ReadFault(p)
  <2>1. Others(p)
    BY <1>1, <1>5, StepMoves, StopsLabel
  <2>2. UNCHANGED skuLock /\ pc[p] \in InsideSku
    BY <1>5 DEF Mark, Send, Readback, FinalReadback, ReadFault, lockVars
  <2> QED BY <2>1, <2>2 DEF SkuMove
<1>6. CASE Succeed(p)
  <2>1. Others(p)
    BY <1>1, <1>6, SucceedMoves, StopsLabel
  <2>2. /\ pc[p] \in InsideSku
        /\ \/ UNCHANGED skuLock
           \/ skuLock' = Unlocked(skuLock, p) /\ Return(p, "succeeded", "none")
    BY <1>6 DEF Succeed, UnlockSku, lockVars
  <2>3. Return(p, "succeeded", "none") => pc'[p] \in Answered
    BY <1>1, ReturnStops, StopsLabel
  <2> QED BY <2>1, <2>2, <2>3 DEF SkuMove
<1>7. CASE SaveFailure(p)
  <2>1. skuLock' = Unlocked(skuLock, p)
    BY <1>7 DEF SaveFailure, UnlockSku
  <2> QED BY <1>1, <1>7, <2>1, StepMoves, StopsLabel DEF SkuMove
<1> QED BY <1>2, <1>3, <1>4, <1>5, <1>6, <1>7 DEF ApplyJob

LEMMA PassLock ==
  ASSUME IInv, NEW p \in Proc, Poll(p) \/ RunProduct(p) \/ Crash(p)
  PROVE  SkuMove(p)
<1> USE DEF Thrown, InsideSku
<1>1. Control
  BY Known
<1>2. CASE Crash(p)
  <2>1. skuLock' = Unlocked(skuLock, p)
    BY <1>2 DEF Crash
  <2> QED BY <1>1, <1>2, <2>1, PassMoves, StopsLabel DEF SkuMove
<1>3. CASE ~Crash(p)
  <2>1. UNCHANGED skuLock
    BY <1>3 DEF Poll, RunProduct, Claim, ConsumeReceipt, Decide,
       SupersedeUndispatched, ClearActive, Syncing, Attend, RetryLater,
       AcknowledgeApplied, EndPass, UnlockId, lockVars
  <2>2. CASE Poll(p) \/ ConsumeReceipt(p) \/ ClearActive(p) \/ Syncing(p)
             \/ SupersedeUndispatched(p)
             \/ Attend(p) \/ RetryLater(p) \/ AcknowledgeApplied(p)
    BY <1>1, <2>1, <2>2, PassMoves, StopsLabel DEF SkuMove
  <2>3. CASE Claim(p)
    BY <1>1, <2>1, <2>3, ClaimMoves, TakesLabel DEF SkuMove
  <2>4. CASE Decide(p)
    BY <1>1, <2>1, <2>4, DecideMoves, TakesLabel DEF SkuMove
  <2> QED BY <1>3, <2>2, <2>3, <2>4 DEF RunProduct
<1> QED BY <1>2, <1>3

LEMMA RecoverLock ==
  ASSUME IInv, NEW p \in Proc, Recover(p)
  PROVE  SkuMove(p)
<1> USE DEF InsideSku
<1>1. Control
  BY Known
<1>2. CASE ManualEnqueue(p) \/ ManualApply(p)
  <2>1. UNCHANGED skuLock
    BY <1>2 DEF ManualEnqueue, ManualApply, lockVars
  <2> QED BY <1>1, <1>2, <2>1, CommandMoves, TakesLabel DEF SkuMove
<1>3. CASE ReconcileObserve(p) \/ SupersedeObserve(p)
  <2>1. SkuFree /\ skuLock' = p
    BY <1>3 DEF ReconcileObserve, SupersedeObserve
  <2> QED BY <1>1, <1>3, <2>1, ObserveMoves, TakesLabel DEF SkuMove
<1>4. CASE ReconcileCommit(p) \/ SupersedeCommit(p)
  <2>1. skuLock' = Unlocked(skuLock, p)
    BY <1>4 DEF ReconcileCommit, SupersedeCommit, UnlockSku
  <2> QED BY <1>1, <1>4, <2>1, ReviewEnds, StopsLabel DEF SkuMove
<1> QED BY <1>2, <1>3, <1>4 DEF Recover

-----------------------------------------------------------------------------
\* The job worked on, and the lane of a plan.

\* p ends its work on the SKU, or works on with the same job.
Ends(p)      == Others(p) /\ pc'[p] \notin Applying \cup {"insert"}
Continues(p) == /\ Others(p) /\ pc[p] \in Applying /\ pc'[p] # "insert"
                /\ loc'[p].job = loc[p].job

\* How a step may change the job rows without a lock, and alone in the lane.
Harmless == \/ UNCHANGED jobs
            \/ \E j \in JobId : \E s : Rewrites(j, s) /\ s \notin Finished
Decisive == \/ \E j \in JobId : \E s : Rewrites(j, s)
            \/ \E q \in Proc, j \in JobId : Inserts(q, j)

LEMMA HarmlessRows ==
  ASSUME Harmless
  PROVE  /\ \A j \in JobId : Exists(j) /\ jobs[j].state \notin Finished
                               => jobs'[j].state \notin Finished
         /\ Unfinished' \subseteq Unfinished
<1>1. CASE UNCHANGED jobs
  BY <1>1 DEF Unfinished, Created, Exists
<1>2. ASSUME NEW j \in JobId, NEW s, Rewrites(j, s), s \notin Finished
      PROVE  /\ \A k \in JobId : Exists(k) /\ jobs[k].state \notin Finished
                                   => jobs'[k].state \notin Finished
             /\ Unfinished' \subseteq Unfinished
  BY <1>2 DEF Rewrites, Unfinished, Created, Exists
<1> QED BY <1>1, <1>2 DEF Harmless

LEMMA OthersSafe ==
  ASSUME IInv, LockInv, NEW p \in Proc, Others(p),
         Harmless \/ (Decisive /\ Alone(p))
  PROVE  \A q \in Proc \ {p} : Safe(q)'
<1> SUFFICES ASSUME NEW q \in Proc \ {p}  PROVE Safe(q)'
  OBVIOUS
<1>1. pc'[q] = pc[q] /\ loc'[q] = loc[q]
  BY DEF Others
<1>2. CASE Harmless
  <2>1. pc[q] \in Applying => loc[q].job \in JobId /\ Exists(loc[q].job)
    BY Known DEF Applying, AtJob
  <2> QED BY <1>1, <1>2, <2>1, HarmlessRows DEF LockInv, Safe
<1>3. CASE Alone(p)
  BY <1>1, <1>3 DEF Alone, Safe, InsideSku, Applying
<1> QED BY <1>2, <1>3

LEMMA SafeEnds ==
  ASSUME IInv, LockInv, NEW p \in Proc, Ends(p),
         Harmless \/ (Decisive /\ Alone(p))
  PROVE  \A q \in Proc : Safe(q)'
<1>1. Safe(p)'
  BY DEF Ends, Safe
<1> QED BY <1>1, OthersSafe DEF Ends

LEMMA SafeContinues ==
  ASSUME IInv, LockInv, NEW p \in Proc, Continues(p), Harmless
  PROVE  \A q \in Proc : Safe(q)'
<1>1. loc[p].job \in JobId /\ Exists(loc[p].job)
  BY Known DEF Continues, Applying, AtJob
<1>2. Safe(p)'
  BY <1>1, HarmlessRows DEF LockInv, Continues, Safe
<1> QED BY <1>2, OthersSafe DEF Continues

LEMMA StopsEnds ==
  ASSUME NEW p, NEW S, Stops(p, S), S \cap (Applying \cup {"insert"}) = {}
  PROVE  Ends(p)
BY DEF Stops, Goes, Ends

LEMMA StopsContinues ==
  ASSUME NEW p, NEW S, Stops(p, S), "idle" \notin S, "insert" \notin S,
         pc[p] \in Applying
  PROVE  Continues(p)
BY DEF Stops, Goes, SameWork, Continues

LEMMA LeftContinues ==
  ASSUME NEW p, NEW S, HasLeft(p, S), pc[p] \in Applying
  PROVE  Continues(p)
BY DEF HasLeft, Goes, Continues

LEMMA EnqueueSafe ==
  ASSUME IInv, LockInv, NEW p \in Proc, Enqueue(p)
  PROVE  \A q \in Proc : Safe(q)'
<1> USE DEF Thrown, Applying
<1>1. Control
  BY Known
<1>2. CASE EnqueueEnter(p)
  <2>1. Ends(p)
    BY <1>1, <1>2, EnqueueEnterMoves, StopsEnds
  <2>2. Harmless
    BY <1>2 DEF EnqueueEnter, ledgerVars, Harmless
  <2> QED BY <2>1, <2>2, SafeEnds
<1>3. CASE UseExisting(p)
  <2>1. Ends(p)
    BY <1>1, <1>3, UseExistingMoves, StopsEnds, TakesLabel DEF Ends
  <2>2. Harmless
    BY <1>3 DEF UseExisting, ledgerVars, Harmless
  <2> QED BY <2>1, <2>2, SafeEnds
<1>4. CASE PlanJob(p) \/ PlanFault(p)
  <2>1. UNCHANGED jobs /\ Harmless
    BY <1>4 DEF PlanJob, PlanFault, ledgerVars, Harmless
  <2>2. CASE Stops(p, Thrown)
    BY <2>1, <2>2, StopsEnds, SafeEnds
  <2>3. CASE Stops(p, {"insert"}) /\ ExistingJob(p) = NoJob
    <3>1. Others(p) /\ pc'[p] = "insert"
      BY <2>3, StopsLabel
    <3>2. Unfinished = {}
      <4>1. {j \in JobId : Reusable(p, j)} = {}
        <5> SUFFICES ASSUME {j \in JobId : Reusable(p, j)} # {} PROVE FALSE
          OBVIOUS
        <5>1. ExistingJob(p) \in JobId
          BY NewestType DEF ExistingJob
        <5> QED BY <2>3, <5>1 DEF JobId, NoJob
      <4>2. \A j \in Unfinished : Reusable(p, j)
        BY DEF Unfinished, Created, Reusable, Finished
      <4> QED BY <4>1, <4>2 DEF Unfinished, Created
    <3>3. Unfinished' = {}
      BY <2>1, <3>2 DEF Unfinished, Created, Exists
    <3>4. Safe(p)'
      BY <3>1, <3>3 DEF Safe
    <3> QED BY <2>1, <3>1, <3>4, OthersSafe
  <2> QED BY <1>1, <1>4, <2>2, <2>3, PlanMoves
<1>5. CASE InsertJob(p)
  <2>1. Ends(p)
    BY <1>5, InsertRow, StopsEnds, TakesLabel DEF Ends
  <2>2. UNCHANGED jobs \/ \E j \in JobId : Inserts(p, j)
    BY <1>5, InsertRow
  <2>3. Alone(p)
    BY <1>5, InsideAlone DEF InsertJob, InsideSku
  <2> QED BY <2>1, <2>2, <2>3, SafeEnds DEF Harmless, Decisive
<1> QED BY <1>2, <1>3, <1>4, <1>5 DEF Enqueue

LEMMA ApplySafe ==
  ASSUME IInv, LockInv, NEW p \in Proc, ApplyJob(p)
  PROVE  \A q \in Proc : Safe(q)'
<1> USE DEF Thrown, Answered, Applying
<1> DEFINE j == loc[p].job
<1>1. Control
  BY Known
<1>2. CASE ApplyBusy(p) \/ ApplyRefused(p)
  <2>1. Ends(p)
    BY <1>1, <1>2, EarlyApplyMoves, StopsEnds
  <2>2. Harmless
    BY <1>2 DEF ApplyBusy, ApplyRefused, ledgerVars, Harmless
  <2> QED BY <2>1, <2>2, SafeEnds
<1>3. CASE BlockRefused(p)
  <2>1. Ends(p)
    BY <1>1, <1>3, EarlyApplyMoves, StopsEnds
  <2>2. j \in JobId
    BY <1>3, Known DEF BlockRefused, AtJob
  <2>3. Harmless
    BY <1>3, <2>2, BlockRewrites DEF Harmless, Finished
  <2> QED BY <2>1, <2>3, SafeEnds
<1>4. CASE ApplyEnter(p)
  <2>1. UNCHANGED jobs /\ Harmless
    BY <1>4 DEF ApplyEnter, ledgerVars, Harmless
  <2>2. CASE Stops(p, Thrown) \/ Stops(p, Answered)
    BY <2>1, <2>2, StopsEnds, SafeEnds
  <2>3. CASE /\ EntryCode(p) = "none" /\ jobs[j].state # "succeeded"
             /\ Stops(p, {"begin", "fail"})
    <3>1. jobs[j].state \notin Finished
      BY <2>3 DEF EntryCode, Finished
    <3>2. /\ Others(p) /\ pc'[p] \in {"begin", "fail"} /\ loc'[p].job = loc[p].job
      BY <2>3 DEF Stops, Goes, SameWork
    <3>3. Safe(p)'
      BY <2>1, <3>1, <3>2 DEF Safe
    <3> QED BY <2>1, <3>2, <3>3, OthersSafe
  <2> QED BY <1>1, <1>4, <2>2, <2>3, ApplyEnterMoves
<1>5. CASE Begin(p)
  <2>1. pc[p] = "begin" /\ j \in JobId
    BY <1>5, Known DEF Begin, AtJob
  <2>2. Harmless
    BY <1>5, <2>1, BeginRewrites DEF Harmless, Finished
  <2>3. Continues(p)
    BY <1>1, <1>5, <2>1, BeginMoves, StopsContinues, LeftContinues
  <2> QED BY <2>2, <2>3, SafeContinues
<1>6. CASE NextStep(p) \/ Verify(p)
  <2>1. pc[p] \in Applying /\ Harmless
    BY <1>6 DEF NextStep, Verify, ledgerVars, Harmless
  <2>2. Continues(p)
    BY <1>1, <1>6, <2>1, NextStepMoves, VerifyMoves, StopsContinues, LeftContinues
  <2> QED BY <2>1, <2>2, SafeContinues
<1>7. CASE Mark(p) \/ Send(p) \/ Readback(p) \/ FinalReadback(p) \/ ReadFault(p)
  <2>1. pc[p] \in Applying /\ Harmless
    BY <1>7 DEF Mark, Send, Readback, FinalReadback, ReadFault, ledgerVars, Harmless
  <2>2. Continues(p)
    BY <1>1, <1>7, <2>1, StepMoves, StopsContinues
  <2> QED BY <2>1, <2>2, SafeContinues
<1>8. CASE Succeed(p)
  <2>1. pc[p] \in InsideSku /\ j \in JobId
    BY <1>8, Known DEF Succeed, AtJob, InsideSku
  <2>2. Alone(p)
    BY <2>1, InsideAlone
  <2>3. Harmless \/ Decisive
    BY <1>8, <2>1, SucceedRewrites DEF Harmless, Decisive
  <2>4. Ends(p)
    BY <1>1, <1>8, SucceedMoves, StopsEnds
  <2> QED BY <2>2, <2>3, <2>4, SafeEnds
<1>9. CASE SaveFailure(p)
  <2>1. Ends(p)
    BY <1>1, <1>9, StepMoves, StopsEnds
  <2>2. j \in JobId
    BY <1>9, Known DEF SaveFailure, AtJob
  <2>3. Harmless
    BY <1>9, <2>2, FailureRewrites DEF Harmless, Finished
  <2> QED BY <2>1, <2>3, SafeEnds
<1> QED BY <1>2, <1>3, <1>4, <1>5, <1>6, <1>7, <1>8, <1>9 DEF ApplyJob

LEMMA PassSafe ==
  ASSUME IInv, LockInv, NEW p \in Proc, Poll(p) \/ RunProduct(p) \/ Crash(p)
  PROVE  \A q \in Proc : Safe(q)'
<1> USE DEF Thrown, Applying
<1>1. Control
  BY Known
<1>2. CASE SupersedeUndispatched(p)
  <2>1. Ends(p)
    BY <1>1, <1>2, PassMoves, StopsEnds
  <2>2. loc[p].job \in JobId
    BY <1>2, Known DEF SupersedeUndispatched, AtJob
  <2>3. Harmless \/ (Decisive /\ SkuFree)
    BY <1>2, <2>2, SupersedeRewrites DEF Harmless, Decisive
  <2> QED BY <2>1, <2>3, InsideAlone, SafeEnds
<1>3. CASE ~SupersedeUndispatched(p)
  <2>1. Harmless
    BY <1>3 DEF Poll, RunProduct, Claim, ConsumeReceipt, Decide, ClearActive,
       Syncing, Attend, RetryLater, AcknowledgeApplied, EndPass, Crash,
       ledgerVars, Harmless
  <2>2. CASE Poll(p) \/ ConsumeReceipt(p) \/ ClearActive(p) \/ Syncing(p) \/ Crash(p)
             \/ Attend(p) \/ RetryLater(p) \/ AcknowledgeApplied(p)
    BY <1>1, <2>1, <2>2, PassMoves, StopsEnds, SafeEnds
  <2>3. CASE Claim(p)
    BY <1>1, <2>1, <2>3, ClaimMoves, TakesLabel, SafeEnds DEF Ends
  <2>4. CASE Decide(p)
    BY <1>1, <2>1, <2>4, DecideMoves, TakesLabel, SafeEnds DEF Ends
  <2> QED BY <1>3, <2>2, <2>3, <2>4 DEF RunProduct
<1> QED BY <1>2, <1>3

LEMMA RecoverSafe ==
  ASSUME IInv, LockInv, NEW p \in Proc, Recover(p)
  PROVE  \A q \in Proc : Safe(q)'
<1> USE DEF Applying
<1>1. Control
  BY Known
<1>2. CASE \/ ManualEnqueue(p) \/ ManualApply(p)
           \/ ReconcileObserve(p) \/ SupersedeObserve(p)
  <2>1. Harmless
    BY <1>2 DEF ManualEnqueue, ManualApply, ReconcileObserve, SupersedeObserve,
       ledgerVars, Harmless
  <2>2. Ends(p)
    BY <1>1, <1>2, CommandMoves, ObserveMoves, TakesLabel DEF Ends
  <2> QED BY <2>1, <2>2, SafeEnds
<1>3. CASE ReconcileCommit(p) \/ SupersedeCommit(p)
  <2>1. Ends(p)
    BY <1>1, <1>3, ReviewEnds, StopsEnds
  <2>2. pc[p] \in InsideSku /\ loc[p].job \in JobId
    BY <1>3, Known DEF ReconcileCommit, SupersedeCommit, AtJob, InsideSku
  <2>3. Harmless \/ Decisive
    BY <1>3, <2>2, ReconcileRewrites, RetireRewrites DEF Harmless, Decisive
  <2> QED BY <2>1, <2>2, <2>3, InsideAlone, SafeEnds
<1> QED BY <1>2, <1>3 DEF Recover

-----------------------------------------------------------------------------
\* A superseded job has nothing unresolved.


LEMMA OverKept ==
  ASSUME LockInv, StepsPlanned,
         \A j \in JobId : Dispatched(j)' \subseteq Dispatched(j),
         \/ UNCHANGED jobs
         \/ \E j \in JobId : \E s :
              Rewrites(j, s) /\ (s # "superseded" \/ Dispatched(j)' = {})
         \/ \E q \in Proc, j \in JobId : Inserts(q, j)
  PROVE  Over'
<1>1. CASE UNCHANGED jobs
  BY <1>1 DEF LockInv, Over, Created, Exists
<1>2. ASSUME NEW j \in JobId, NEW s, Rewrites(j, s),
             s # "superseded" \/ Dispatched(j)' = {}
      PROVE  Over'
  <2>1. \A k \in JobId \ {j} : Exists(k)' <=> Exists(k)
    BY <1>2 DEF Rewrites, Exists
  <2> QED BY <1>2, <2>1 DEF LockInv, Over, Created, Rewrites
<1>3. ASSUME NEW q \in Proc, NEW j \in JobId, Inserts(q, j)
      PROVE  Over'
  <2>1. \A k \in JobId \ {j} : Exists(k)' <=> Exists(k)
    BY <1>3 DEF Inserts, Exists
  <2> QED BY <1>3, <2>1 DEF LockInv, Over, Created, Inserts
<1> QED BY <1>1, <1>2, <1>3

LEMMA DispatchedKept ==
  ASSUME Data
  PROVE  /\ UNCHANGED steps => \A j \in JobId : Dispatched(j)' = Dispatched(j)
         /\ \A j \in JobId, S \in SUBSET Fields :
              steps' = [steps EXCEPT ![j] = Resolved(j, S)] =>
                /\ \A k \in JobId : Dispatched(k)' \subseteq Dispatched(k)
                /\ S = Dispatched(j) => Dispatched(j)' = {}
<1>1. UNCHANGED steps => \A j \in JobId : Dispatched(j)' = Dispatched(j)
  BY DEF Dispatched
<1>2. ASSUME NEW j \in JobId, NEW S \in SUBSET Fields,
             steps' = [steps EXCEPT ![j] = Resolved(j, S)]
      PROVE  /\ \A k \in JobId : Dispatched(k)' \subseteq Dispatched(k)
             /\ S = Dispatched(j) => Dispatched(j)' = {}
  <2> DEFINE row == Resolved(j, S)
  <2>1. \A f \in Fields : row[f] = IF f \in S THEN "verified" ELSE steps[j][f]
    BY DEF Resolved
  <2>2. steps' = [steps EXCEPT ![j] = row]
    BY <1>2
  <2> HIDE DEF row
  <2>3. \A k \in JobId, f \in Fields :
          steps'[k][f] = IF k = j /\ f \in S THEN "verified" ELSE steps[k][f]
    BY <2>1, <2>2 DEF Data
  <2> QED BY <2>3 DEF Dispatched
<1> QED BY <1>1, <1>2

\* A marker is committed only for the unfinished job of an applyJob.
LEMMA MarkOver ==
  ASSUME IInv, LockInv, StepInv, NEW p \in Proc, Mark(p) \/ Verify(p)
  PROVE  Over'
<1> DEFINE j == loc[p].job
           f == First(loc[p].todo)
<1>1. /\ Data /\ pc[p] \in AtStep /\ pc[p] \in Applying /\ UNCHANGED jobs
  BY Known DEF Mark, Verify, AtStep, Applying
<1>2. j \in JobId /\ f \in Fields /\ jobs[j].state \notin Finished
  BY <1>1, FirstLeft DEF LockInv, Safe
<1>3. UNCHANGED steps \/ \E v : steps' = [steps EXCEPT ![j][f] = v]
  BY DEF Mark, Verify
<1> HIDE DEF j, f
<1>4. \A k \in JobId : k # j => Dispatched(k)' = Dispatched(k)
  <2>1. ASSUME NEW k \in JobId, k # j, NEW v, steps' = [steps EXCEPT ![j][f] = v]
        PROVE  steps'[k] = steps[k]
    BY <1>1, <2>1 DEF Data
  <2> QED BY <1>3, <2>1 DEF Dispatched
<1> QED BY <1>1, <1>2, <1>4 DEF LockInv, Over, Created, Exists, Finished

LEMMA NextOver ==
  ASSUME IInv, LockInv, StepInv, NEW p \in Proc,
         Act(p) \/ Poll(p) \/ RunProduct(p) \/ Crash(p) \/ Recover(p)
  PROVE  Over'
<1> SUFFICES ASSUME NEW j, j = loc[p].job  PROVE Over'
  OBVIOUS
<1>1. Data /\ StepsPlanned
  BY Known DEF StepInv, StepRows
<1>2. CASE Mark(p) \/ Verify(p)
  BY <1>2, MarkOver
<1>3. CASE ReconcileCommit(p)
  <2>1. /\ j \in JobId /\ jobs[j].ops \in SUBSET Fields
    BY <1>3, Known DEF ReconcileCommit, AtJob, Job
  <2>2. Recorded(p) \in SUBSET Fields
    BY <2>1 DEF Recorded
  <2>3. CASE UNCHANGED <<jobs, steps, acked>>
    BY <1>1, <2>3, OverKept, DispatchedKept
  <2>4. CASE /\ \E s : Rewrites(j, s) /\ s # "superseded"
             /\ steps' = [steps EXCEPT ![j] = Resolved(j, Recorded(p))]
    <3>1. \A k \in JobId : Dispatched(k)' \subseteq Dispatched(k)
      BY <1>1, <2>1, <2>2, <2>4, DispatchedKept
    <3> QED BY <1>1, <2>1, <2>4, <3>1, OverKept
  <2> QED BY <1>3, <2>3, <2>4, ReconcileRewrites
<1>4. CASE SupersedeCommit(p)
  <2>1. /\ j \in JobId /\ Dispatched(j) \in SUBSET Fields
    BY <1>4, Known DEF SupersedeCommit, AtJob, Dispatched
  <2>2. CASE UNCHANGED <<jobs, steps>>
    BY <1>1, <2>2, OverKept, DispatchedKept
  <2>3. CASE /\ Rewrites(j, "superseded")
             /\ steps' = [steps EXCEPT ![j] = Resolved(j, Dispatched(j))]
    <3>1. /\ \A k \in JobId : Dispatched(k)' \subseteq Dispatched(k)
          /\ Dispatched(j)' = {}
      BY <1>1, <2>1, <2>3, DispatchedKept
    <3> QED BY <1>1, <2>1, <2>3, <3>1, OverKept
  <2> QED BY <1>4, <2>2, <2>3, RetireRewrites
<1>5. CASE ~(Mark(p) \/ Verify(p) \/ ReconcileCommit(p) \/ SupersedeCommit(p))
  <2>1. UNCHANGED steps
    BY <1>5 DEF Act, Enqueue, EnqueueEnter, UseExisting, PlanJob, PlanFault,
       InsertJob, ApplyJob, ApplyBusy, ApplyRefused, BlockRefused, ApplyEnter,
       Begin, NextStep, Send, Readback, FinalReadback, Succeed, ReadFault,
       SaveFailure, Poll, RunProduct, Claim, ConsumeReceipt, Decide,
       SupersedeUndispatched, ClearActive, Syncing, Attend, RetryLater,
       AcknowledgeApplied, EndPass, Crash, Recover, ManualEnqueue,
       ManualApply, ReconcileObserve, SupersedeObserve, ledgerVars
  <2>2. /\ pc[p] \in {"refused", "begin", "succeed", "fail", "supersede"} => j \in JobId
        /\ BlockRefused(p) => pc[p] = "refused"
        /\ Begin(p) => pc[p] = "begin"
        /\ Succeed(p) => pc[p] = "succeed"
        /\ SaveFailure(p) => pc[p] = "fail"
        /\ SupersedeUndispatched(p) => pc[p] = "supersede"
    BY Known DEF AtJob, BlockRefused, Begin, Succeed, SaveFailure,
       SupersedeUndispatched
  <2>3. SupersedeUndispatched(p) =>
          jobs' = jobs \/ (Rewrites(j, "superseded") /\ Dispatched(j)' = {})
    BY <2>1, SupersedeRewrites DEF HasStep, Dispatched
  <2>4. CASE BlockRefused(p) \/ Begin(p) \/ Succeed(p) \/ SaveFailure(p)
             \/ SupersedeUndispatched(p)
    <3>1. \/ UNCHANGED jobs
          \/ \E s : Rewrites(j, s) /\ (s # "superseded" \/ Dispatched(j)' = {})
      BY <2>3, <2>4, BlockRewrites, BeginRewrites, SucceedRewrites, FailureRewrites
    <3> QED BY <1>1, <2>1, <2>2, <2>4, <3>1, OverKept, DispatchedKept
  <2>5. CASE InsertJob(p)
    <3>1. UNCHANGED jobs \/ \E k \in JobId : Inserts(p, k)
      BY <2>5, InsertRow
    <3> QED BY <1>1, <2>1, <3>1, OverKept, DispatchedKept
  <2>6. CASE ~(BlockRefused(p) \/ Begin(p) \/ Succeed(p) \/ SaveFailure(p)
               \/ SupersedeUndispatched(p) \/ InsertJob(p))
    <3>1. UNCHANGED jobs
      BY <1>5, <2>6 DEF Act, Enqueue, EnqueueEnter, UseExisting, PlanJob, PlanFault,
         ApplyJob, ApplyBusy, ApplyRefused, ApplyEnter,
         NextStep, Send, Readback, FinalReadback, ReadFault,
         Poll, RunProduct, Claim, ConsumeReceipt, Decide,
         ClearActive, Syncing, Attend, RetryLater,
         AcknowledgeApplied, EndPass, Crash, Recover, ManualEnqueue,
         ManualApply, ReconcileObserve, SupersedeObserve, ledgerVars
    <3> QED BY <1>1, <2>1, <3>1, OverKept, DispatchedKept
  <2> QED BY <2>4, <2>5, <2>6
<1> QED BY <1>2, <1>3, <1>4, <1>5

-----------------------------------------------------------------------------
\* The theorems.

LEMMA LockInit == Init => LockInv
BY DEF Init, LockInv, HoldsLock, Safe, Over, InsideSku, Applying, Created, Exists

LEMMA LockNext ==
  ASSUME NoLoss, IInv, StepInv, LockInv, [Next]_vars
  PROVE  LockInv'
<1>1. ASSUME NEW p \in Proc,
             Act(p) \/ Poll(p) \/ RunProduct(p) \/ Crash(p) \/ Recover(p)
      PROVE  LockInv'
  <2>1. SkuMove(p)
    BY <1>1, EnqueueLock, ApplyLock, PassLock, RecoverLock DEF Act
  <2>2. \A q \in Proc : Safe(q)'
    BY <1>1, EnqueueSafe, ApplySafe, PassSafe, RecoverSafe DEF Act
  <2>3. Over'
    BY <1>1, NextOver
  <2> QED BY <2>1, <2>2, <2>3, LockMoves DEF LockInv
<1>2. ~LoseSessions
  <2> SUFFICES ASSUME LoseSessions PROVE FALSE
    OBVIOUS
  <2>1. PICK b \in Budgets : spent["loss"] < b["loss"]
    BY DEF LoseSessions, Spend
  <2>2. spent["loss"] \in Nat /\ b["loss"] = 0
    BY SplitType DEF IInv, Data, Kinds, NoLoss
  <2> QED BY <2>1, <2>2
<1>3. CASE Environment \/ Quiet \/ UNCHANGED vars
  <2>1. UNCHANGED <<pc, loc, jobs, steps, skuLock>>
    BY <1>3 DEF Environment, Edit, Touch, Retire, Publish,
       ProcessHandoff, Disable, Deliver, Lose, ForeignWrite, Quiet, vars,
       ledgerVars, lockVars
  <2> QED BY <2>1 DEF LockInv, HoldsLock, Safe, Over, Created, Exists, Unfinished,
         Dispatched
<1> QED BY <1>1, <1>2, <1>3 DEF Next, Proc

LEMMA LaneInvariant ==
  ASSUME NoLoss
  PROVE  Spec => [](IInv /\ StepInv /\ LockInv)
<1>1. IInv /\ StepInv /\ LockInv /\ [Next]_vars => IInv' /\ StepInv' /\ LockInv'
  BY NextLemma, StepNext, LockNext
<1> QED BY <1>1, InitLemma, StepInit, LockInit, PTL DEF Spec

\* An unresolved dispatch is one of the SKU's unfinished job.
LEMMA DispatchedLives ==
  ASSUME IInv, StepInv, LockInv, NEW j \in JobId, NEW f \in Fields,
         steps[j][f] = "dispatched"
  PROVE  j \in Unfinished /\ f \in jobs[j].ops
<1>1. j \in Created /\ f \in jobs[j].ops
  BY DEF StepInv, StepRows, StepsPlanned, Created
<1>2. jobs[j].state # "succeeded"
  BY <1>1 DEF StepInv, StepRows, SucceededIsVerified
<1>3. jobs[j].state # "superseded"
  BY <1>1 DEF LockInv, Over, Dispatched
<1> QED BY <1>1, <1>2, <1>3 DEF Unfinished, Finished

LEMMA OneDispatch ==
  ASSUME IInv, StepInv, LockInv
  PROVE  OneUnresolved
<1> SUFFICES ASSUME NEW j \in JobId, NEW k \in JobId,
                    NEW f \in Fields, NEW g \in Fields,
                    steps[j][f] = "dispatched", steps[k][g] = "dispatched"
             PROVE  j = k /\ f = g
  BY DEF OneUnresolved
<1>1. /\ j \in Unfinished /\ f \in jobs[j].ops
      /\ k \in Unfinished /\ g \in jobs[k].ops
  BY DispatchedLives
<1>2. j = k
  BY <1>1 DEF StepInv, StepRows, OneLane
<1>3. f = g
  <2>1. f \in Nat /\ g \in Nat
    BY DataAssumption
  <2>2. ~(f < g) /\ ~(g < f)
    BY <1>1, <1>2 DEF StepInv, StepRows, InOrder, Unfinished
  <2> QED BY <2>1, <2>2
<1> QED BY <1>2, <1>3

\* While sessions are kept, one dispatch at most is unresolved for the SKU:
\* no process builds on, or sends past, an outcome that is not known.
THEOREM UnresolvedIsOne ==
  ASSUME NoLoss
  PROVE  Spec => []OneUnresolved
BY LaneInvariant, OneDispatch, PTL

\* While sessions are kept, a superseded job is over: no marker of it is
\* unresolved, and no process is about to commit one or to send.
THEOREM SupersededOver ==
  ASSUME NoLoss
  PROVE  Spec => []SupersededIsOver
<1>1. IInv /\ StepInv /\ LockInv => SupersededIsOver
  BY DEF LockInv, Over, Safe, Applying, Finished, SupersededIsOver
<1> QED BY <1>1, LaneInvariant, PTL

\* While sessions are kept, a plan is inserted into an empty lane: enqueue
\* never meets the index that allows one unfinished job per SKU.
THEOREM LaneEmpty ==
  ASSUME NoLoss
  PROVE  Spec => []LaneIsFree
<1>1. IInv /\ StepInv /\ LockInv => LaneIsFree
  BY DEF LockInv, Safe, LaneIsFree
<1> QED BY <1>1, LaneInvariant, PTL

-----------------------------------------------------------------------------
\* A plan leaves out only what Magento shows already.

\* Whoever plans, and the jobs planned: what is not an operation was observed
\* to show the content planned for.
Planning(p) ==
  pc[p] = "insert" =>
    \A f \in Fields \ loc[p].ops : loc[p].base[f] = loc[p].snap.input
Planned ==
  /\ \A j \in Created : \A f \in Fields \ jobs[j].ops :
       jobs[j].base[f] = jobs[j].amber.input
  /\ \A p \in Proc : Planning(p)

\* Rows keep what they were planned from.
PlansKept ==
  \A j \in JobId : Exists(j) =>
    /\ Exists(j)' /\ jobs'[j].amber = jobs[j].amber
    /\ jobs'[j].ops = jobs[j].ops /\ jobs'[j].base = jobs[j].base

LEMMA PlanRelations ==
  /\ UNCHANGED jobs => PlansKept
  /\ \A j \in JobId : \A s : Rewrites(j, s) => PlansKept
  /\ \A p : \A j \in JobId : Inserts(p, j) => PlansKept
BY DEF PlansKept, Rewrites, Inserts, Exists

\* Every action changes the rows in one of three ways.
LEMMA RowActions ==
  ASSUME IInv, NEW p \in Proc,
         Act(p) \/ Poll(p) \/ RunProduct(p) \/ Crash(p) \/ Recover(p)
  PROVE  \/ UNCHANGED jobs
         \/ \E j \in JobId : \E s : Rewrites(j, s)
         \/ InsertJob(p) /\ \E j \in JobId : Inserts(p, j)
<1> SUFFICES ASSUME NEW j, j = loc[p].job
             PROVE  \/ UNCHANGED jobs
                    \/ \E k \in JobId : \E s : Rewrites(k, s)
                    \/ InsertJob(p) /\ \E k \in JobId : Inserts(p, k)
  OBVIOUS
<1>1. CASE BlockRefused(p) \/ Begin(p) \/ Succeed(p) \/ SaveFailure(p)
           \/ SupersedeUndispatched(p) \/ ReconcileCommit(p) \/ SupersedeCommit(p)
  <2>1. j \in JobId
    BY <1>1, Known DEF AtJob, BlockRefused, Begin, Succeed, SaveFailure,
       SupersedeUndispatched, ReconcileCommit, SupersedeCommit
  <2> QED BY <1>1, <2>1, BlockRewrites, BeginRewrites, SucceedRewrites,
          FailureRewrites, SupersedeRewrites, ReconcileRewrites, RetireRewrites
<1>2. CASE InsertJob(p)
  BY <1>2, InsertRow
<1>3. CASE ~(BlockRefused(p) \/ Begin(p) \/ Succeed(p) \/ SaveFailure(p)
             \/ SupersedeUndispatched(p) \/ ReconcileCommit(p)
             \/ SupersedeCommit(p) \/ InsertJob(p))
  BY <1>3 DEF Act, Enqueue, EnqueueEnter, UseExisting, PlanJob, PlanFault,
     ApplyJob, ApplyBusy, ApplyRefused, ApplyEnter, NextStep, Mark, Send,
     Readback, Verify, FinalReadback, ReadFault, Poll, RunProduct, Claim,
     ConsumeReceipt, Decide, ClearActive, Syncing, Attend, RetryLater,
     AcknowledgeApplied, EndPass, Crash, Recover, ManualEnqueue, ManualApply,
     ReconcileObserve, SupersedeObserve, ledgerVars
<1> QED BY <1>1, <1>2, <1>3

\* Labels at which a process acts on what it read of Magento, and the actions
\* that lead there.
ActsOnRead == {"mark", "send", "verify", "succeed", "reconcile"}
Watching   == ActsOnRead \cup {"readback", "retire"}
Watches(p) == \/ NextStep(p) \/ Mark(p) \/ Send(p) \/ Readback(p)
              \/ FinalReadback(p) \/ ReconcileObserve(p) \/ SupersedeObserve(p)

\* Only planning leads to the insertion of a plan.
LEMMA WhereFrom ==
  ASSUME IInv, NEW p \in Proc,
         Act(p) \/ Poll(p) \/ RunProduct(p) \/ Crash(p) \/ Recover(p)
  PROVE  /\ Others(p) /\ (pc'[p] = "insert" => PlanJob(p))
         /\ pc'[p] \in Watching => Watches(p)
<1> USE DEF Watching, ActsOnRead
<1> DEFINE Elsewhere == pc'[p] \notin Watching \cup {"insert"}
<1>1. /\ Control
      /\ \A S : Stops(p, S) => pc'[p] \in S
      /\ \A S : HasLeft(p, S) => pc'[p] = "step"
  BY Known, StopsLabel, TakesLabel
<1>2. CASE Enqueue(p)
  <2>1. CASE PlanJob(p)
    BY <1>1, <2>1, PlanMoves, StopsLabel DEF Thrown
  <2>2. CASE EnqueueEnter(p)
    BY <1>1, <2>2, EnqueueEnterMoves, StopsLabel DEF Thrown
  <2>3. CASE UseExisting(p)
    BY <1>1, <2>3, UseExistingMoves, StopsLabel, TakesLabel DEF Thrown
  <2>4. CASE PlanFault(p)
    <3>1. Others(p)
      BY <1>1, <2>4, PlanMoves, StopsLabel
    <3>2. PICK code : Throw(p, code)
      BY <2>4 DEF PlanFault
    <3>3. pc'[p] \in Thrown
      BY <1>1, <3>2, ThrowStops, StopsLabel
    <3> QED BY <3>1, <3>3 DEF Thrown
  <2>5. CASE InsertJob(p)
    BY <2>5, InsertRow, StopsLabel, TakesLabel DEF Thrown
  <2> QED BY <1>2, <2>1, <2>2, <2>3, <2>4, <2>5 DEF Enqueue
<1>3. CASE ApplyJob(p)
  <2>1. Others(p)
    BY <1>3, ApplyLock DEF SkuMove
  <2>2. CASE ApplyBusy(p) \/ ApplyRefused(p) \/ BlockRefused(p) \/ ApplyEnter(p)
    <3>1. Elsewhere
      BY <1>1, <2>2, EarlyApplyMoves, ApplyEnterMoves DEF Thrown, Answered
    <3> QED BY <2>1, <3>1
  <2>3. CASE Begin(p) \/ Verify(p) \/ Succeed(p) \/ ReadFault(p) \/ SaveFailure(p)
    <3>1. \/ Stops(p, {"fail"}) \/ Stops(p, {"idle", "acknowledge"})
          \/ Stops(p, Thrown) \/ \E S : HasLeft(p, S)
      BY <1>1, <2>3, BeginMoves, VerifyMoves, SucceedMoves, StepMoves DEF Answered
    <3>2. Elsewhere
      BY <1>1, <3>1 DEF Thrown
    <3> QED BY <2>1, <3>2
  <2>4. CASE NextStep(p) \/ Mark(p) \/ Send(p) \/ Readback(p) \/ FinalReadback(p)
    <3>1. \/ \E S \in {{"fail", "mark", "verify"}, {"fail", "send"}, {"readback"},
                       {"verify", "fail"}, {"succeed", "fail"}} : Stops(p, S)
          \/ \E S : HasLeft(p, S)
      BY <1>1, <2>4, NextStepMoves, StepMoves
    <3>2. pc'[p] # "insert"
      BY <1>1, <3>1
    <3> QED BY <2>1, <2>4, <3>2 DEF Watches
  <2> QED BY <1>3, <2>2, <2>3, <2>4 DEF ApplyJob
<1>4. CASE Poll(p) \/ RunProduct(p) \/ Crash(p)
  <2>1. Others(p)
    BY <1>4, PassLock DEF SkuMove
  <2>2. Elsewhere
    BY <1>1, <1>4, PassMoves, ClaimMoves, DecideMoves, TakesLabel
       DEF RunProduct, Thrown
  <2> QED BY <2>1, <2>2
<1>5. CASE Recover(p)
  <2>1. Others(p)
    BY <1>5, RecoverLock DEF SkuMove
  <2>2. CASE ReconcileObserve(p) \/ SupersedeObserve(p)
    BY <1>1, <2>1, <2>2, ObserveMoves, TakesLabel DEF Watches
  <2>3. CASE ManualEnqueue(p) \/ ManualApply(p) \/ ReconcileCommit(p)
             \/ SupersedeCommit(p)
    BY <1>1, <2>1, <2>3, CommandMoves, ReviewEnds, TakesLabel
  <2> QED BY <1>5, <2>2, <2>3 DEF Recover
<1> QED BY <1>2, <1>3, <1>4, <1>5 DEF Act

LEMMA PlannedKept ==
  ASSUME IInv, Planned, NEW p \in Proc,
         Act(p) \/ Poll(p) \/ RunProduct(p) \/ Crash(p) \/ Recover(p)
  PROVE  Planned'
<1>1. /\ Data /\ Control /\ Others(p) /\ (pc'[p] = "insert" => PlanJob(p))
      /\ \/ UNCHANGED jobs
         \/ \E j \in JobId : \E s : Rewrites(j, s)
         \/ InsertJob(p) /\ \E j \in JobId : Inserts(p, j)
  BY Known, WhereFrom, RowActions
<1>2. \A j \in Created' : \A f \in Fields \ jobs'[j].ops :
        jobs'[j].base[f] = jobs'[j].amber.input
  <2>1. CASE UNCHANGED jobs \/ \E j \in JobId : \E s : Rewrites(j, s)
    <3>1. Created' = Created
      BY <2>1 DEF Created, Exists, Rewrites
    <3>2. PlansKept
      BY <2>1, PlanRelations
    <3> QED BY <3>1, <3>2 DEF Planned, PlansKept, Created
  <2>2. ASSUME NEW k \in JobId, Inserts(p, k), InsertJob(p)
        PROVE  \A j \in Created' : \A f \in Fields \ jobs'[j].ops :
                 jobs'[j].base[f] = jobs'[j].amber.input
    <3>1. PlansKept /\ Created' = Created \cup {k}
      BY <2>2, PlanRelations DEF Created, Exists, Inserts
    <3>2. Planning(p) /\ pc[p] = "insert"
      BY <2>2 DEF Planned, InsertJob
    <3>3. \A f \in Fields \ jobs'[k].ops : jobs'[k].base[f] = jobs'[k].amber.input
      BY <2>2, <3>2 DEF Inserts, Planning
    <3> QED BY <3>1, <3>3 DEF Planned, PlansKept, Created
  <2> QED BY <1>1, <2>1, <2>2
<1>3. \A q \in Proc \ {p} : Planning(q)'
  BY <1>1 DEF Others, Planned, Planning
<1>4. Planning(p)'
  <2> SUFFICES ASSUME pc'[p] = "insert"
               PROVE  \A f \in Fields \ loc'[p].ops : loc'[p].base[f] = loc'[p].snap.input
    BY DEF Planning
  <2> DEFINE l == loc[p]
             O == PlanOps(l.snap.input)
             m == [l EXCEPT !.ops = O, !.base = remote]
  <2>1. PlanJob(p)
    BY <1>1
  <2>2. l \in Local /\ O \in SUBSET Fields /\ remote \in [Fields -> Held]
    BY <1>1, Known, DataAssumption DEF PlanOps, Data
  <2>3. loc'[p] = m
    <3>1. l.snap.active
      <4> SUFFICES ASSUME ~l.snap.active PROVE FALSE
        OBVIOUS
      <4>1. Throw(p, "data")
        BY <2>1 DEF PlanJob
      <4>2. pc'[p] \in Thrown
        BY <1>1, <4>1, ThrowStops, StopsLabel
      <4> QED BY <4>2 DEF Thrown
    <3>2. loc' = [loc EXCEPT ![p].ops = O, ![p].base = remote]
      BY <2>1, <3>1 DEF PlanJob
    <3> QED BY <1>1, <3>2 DEF Control
  <2>4. m.ops = O /\ m.base = remote /\ m.snap = l.snap
    <3> HIDE DEF l, O
    <3> QED BY <2>2 DEF Local
  <2>5. \A f \in Fields \ O : remote[f] = l.snap.input
    BY DEF PlanOps
  <2> HIDE DEF l, O, m
  <2> QED BY <2>3, <2>4, <2>5
<1> QED BY <1>2, <1>3, <1>4 DEF Planned

-----------------------------------------------------------------------------
\* What Magento may still receive.

\* Unless a review declared a sent mutation absent, what is on its way is
\* unresolved and not applied, and nothing is on its way to Magento when a
\* process acts on what it read there.
InAir == \A m \in wire : steps[m[1]][m[2]] = "dispatched" /\ ~Matches(m[1], m[2])
Still(p) ==
  LET j == loc[p].job
      f == First(loc[p].todo)
  IN  /\ pc[p] \in ActsOnRead => wire = {}
      /\ pc[p] = "retire" /\ loc[p].absent = {} => wire = {}
      /\ pc[p] \in {"mark", "send"} => ~Matches(j, f)
      /\ pc[p] \in {"send", "readback"} => steps[j][f] = "dispatched"
      /\ pc[p] = "succeed" => VerifiedAll(j)
      /\ pc[p] = "reconcile" /\ loc[p].complete => VerifiedAll(j)
Air    == refuted = {} => InAir /\ \A p \in Proc : Still(p)
AirInv == Planned /\ Air

\* What is on its way belongs to the one unfinished job.
LEMMA WireOfJob ==
  ASSUME IInv, StepInv, LockInv, InAir, NEW j \in Unfinished, NEW m \in wire
  PROVE  /\ m = <<j, m[2]>> /\ m[2] \in jobs[j].ops /\ m[2] \in Fields
         /\ steps[j][m[2]] = "dispatched" /\ ~Matches(j, m[2])
<1>1. m[1] \in JobId /\ m[2] \in Fields /\ m = <<m[1], m[2]>>
  BY SplitType DEF IInv, Data
<1>2. m[1] \in Unfinished /\ m[2] \in jobs[m[1]].ops
  BY <1>1, DispatchedLives DEF InAir
<1>3. m[1] = j
  BY <1>2 DEF StepInv, StepRows, OneLane
<1> QED BY <1>1, <1>2, <1>3 DEF InAir

\* While a job is applied, nothing but the operation it works on may be on its
\* way; and nothing at all once every operation is verified.
LEMMA WireOfStep ==
  ASSUME IInv, StepInv, LockInv, InAir, NEW p \in Proc, pc[p] \in Working,
         NEW j, j = loc[p].job
  PROVE  /\ loc[p].todo = {} => wire = {}
         /\ loc[p].todo # {} /\ steps[j][First(loc[p].todo)] # "verified" =>
              wire \subseteq {<<j, First(loc[p].todo)>>}
<1>1. /\ j \in JobId /\ Exists(j) /\ loc[p].todo \in SUBSET Fields
      /\ jobs[j].state \notin Finished
  BY Known DEF Working, AtJob, Applying, LockInv, Safe
<1>2. j \in Unfinished /\ j \in Created
  BY <1>1 DEF Unfinished, Created
<1>3. \A g \in jobs[j].ops \ loc[p].todo : steps[j][g] = "verified"
  BY DEF StepInv, Progress
<1>4. \A m \in wire : m = <<j, m[2]>> /\ m[2] \in loc[p].todo
  <2> SUFFICES ASSUME NEW m \in wire
               PROVE  m = <<j, m[2]>> /\ m[2] \in loc[p].todo
    OBVIOUS
  <2>1. m = <<j, m[2]>> /\ m[2] \in jobs[j].ops /\ steps[j][m[2]] = "dispatched"
    BY <1>2, WireOfJob
  <2> QED BY <1>3, <2>1
<1>5. ASSUME NEW f, f = First(loc[p].todo), loc[p].todo # {},
             steps[j][f] # "verified", NEW m \in wire
      PROVE  m = <<j, f>>
  <2>1. /\ m = <<j, m[2]>> /\ m[2] \in jobs[j].ops /\ steps[j][m[2]] # "none"
        /\ m[2] \in Fields
    BY <1>2, WireOfJob
  <2>2. f \in loc[p].todo /\ f \in jobs[j].ops /\ f <= m[2]
    BY <1>1, <1>4, <1>5, FirstLeast DEF StepInv, Progress
  <2>3. ~(f < m[2])
    BY <1>1, <1>2, <1>5, <2>1, <2>2 DEF StepInv, StepRows, InOrder
  <2>4. f \in Nat /\ m[2] \in Nat
    BY <1>1, <2>1, <2>2, DataAssumption
  <2>5. f = m[2]
    BY <2>2, <2>3, <2>4
  <2> QED BY <2>1, <2>5
<1> QED BY <1>4, <1>5

LEMMA InAirKept ==
  ASSUME IInv, InAir, PlansKept, UNCHANGED remote, wire' \subseteq wire,
         \A m \in wire' : steps'[m[1]][m[2]] = "dispatched"
  PROVE  InAir'
<1> SUFFICES ASSUME NEW m \in wire'
             PROVE  steps'[m[1]][m[2]] = "dispatched" /\ ~Matches(m[1], m[2])'
  BY DEF InAir
<1>1. m \in wire /\ m[1] \in JobId /\ Exists(m[1])
  <2>1. m \in wire /\ m \in JobId \X Fields
    BY SplitType DEF IInv, Data
  <2> QED BY <2>1 DEF IInv, JobsExist
<1>2. ~Matches(m[1], m[2]) /\ jobs'[m[1]].amber = jobs[m[1]].amber
  BY <1>1 DEF InAir, PlansKept
<1> QED BY <1>1, <1>2 DEF Matches

\* A job that keeps its plan is verified and matched as before.
LEMMA SeenKept ==
  ASSUME PlansKept, UNCHANGED remote, NEW j \in JobId, Exists(j)
  PROVE  /\ \A f : Matches(j, f)' <=> Matches(j, f)
         /\ VerifiedAll(j)' <=> VerifiedAll(j)
<1>1. jobs'[j].amber = jobs[j].amber /\ jobs'[j].ops = jobs[j].ops
      /\ jobs'[j].base = jobs[j].base
  BY DEF PlansKept
<1> QED BY <1>1 DEF Matches, VerifiedAll, Preserved

\* Who is not concerned goes on as before.
LEMMA OthersStill ==
  ASSUME IInv, LockInv, PlansKept, UNCHANGED remote, NEW q \in Proc, Still(q),
         pc'[q] = pc[q], loc'[q] = loc[q],
         UNCHANGED <<wire, steps>> \/ pc[q] \notin InsideSku
  PROVE  Still(q)'
<1>1. CASE pc[q] \notin InsideSku
  BY <1>1 DEF Still, InsideSku, ActsOnRead
<1>2. CASE UNCHANGED <<wire, steps>> /\ pc[q] \in Watching
  <2>1. loc[q].job \in JobId /\ Exists(loc[q].job)
    BY <1>2, Known DEF Watching, ActsOnRead, AtJob
  <2>2. ASSUME NEW j, j = loc[q].job
        PROVE  Still(q)'
    <3>1. /\ \A f : Matches(j, f)' <=> Matches(j, f)
          /\ VerifiedAll(j)' <=> VerifiedAll(j)
      BY <2>1, <2>2, SeenKept
    <3>2. /\ \A f : Matches(loc[q].job, f)' <=> Matches(j, f)'
          /\ VerifiedAll(loc[q].job)' <=> VerifiedAll(j)'
      BY <2>2
    <3> QED BY <1>2, <2>2, <3>1, <3>2 DEF Still
  <2> QED BY <2>2
<1>3. CASE pc[q] \notin Watching
  BY <1>3 DEF Still, Watching, ActsOnRead
<1> QED BY <1>1, <1>2, <1>3

\* What a step of p does to the markers and to what is on its way.
LEMMA AirMoves ==
  ASSUME IInv, NEW p \in Proc,
         Act(p) \/ Poll(p) \/ RunProduct(p) \/ Crash(p) \/ Recover(p)
  PROVE  /\ UNCHANGED remote /\ refuted \subseteq refuted'
         /\ \/ UNCHANGED <<wire, steps>>
            \/ Mark(p) /\ UNCHANGED wire
            \/ Send(p) /\ UNCHANGED steps
            \/ Verify(p) /\ UNCHANGED wire
            \/ ReconcileCommit(p) /\ UNCHANGED wire
            \/ SupersedeCommit(p) /\ UNCHANGED wire
<1>1. CASE Enqueue(p)
  BY <1>1 DEF Enqueue, EnqueueEnter, UseExisting, PlanJob, PlanFault, InsertJob,
     ledgerVars, magentoVars, historyVars
<1>2. CASE ApplyJob(p)
  BY <1>2 DEF ApplyJob, ApplyBusy, ApplyRefused, BlockRefused, ApplyEnter,
     Begin, NextStep, Mark, Send, Readback, Verify, FinalReadback, Succeed,
     ReadFault, SaveFailure, ledgerVars, magentoVars, historyVars
<1>3. CASE Poll(p) \/ RunProduct(p) \/ Crash(p)
  BY <1>3 DEF Poll, RunProduct, Claim, ConsumeReceipt, Decide,
     SupersedeUndispatched, ClearActive, Syncing, Attend, RetryLater,
     AcknowledgeApplied, EndPass, Crash, ledgerVars, magentoVars, historyVars
<1>4. CASE Recover(p)
  BY <1>4 DEF Recover, ManualEnqueue, ManualApply, ReconcileObserve,
     ReconcileCommit, SupersedeObserve, SupersedeCommit, ledgerVars,
     magentoVars, historyVars
<1> QED BY <1>1, <1>2, <1>3, <1>4 DEF Act

\* One entry of the steps of a job.
LEMMA OneStep ==
  ASSUME Data, NEW j \in JobId, NEW f \in Fields, NEW v,
         steps' = [steps EXCEPT ![j][f] = v]
  PROVE  /\ steps'[j][f] = v
         /\ \A k \in JobId, g \in Fields :
              steps'[k][g] = IF k = j /\ g = f THEN v ELSE steps[k][g]
BY DEF Data

LEMMA InAirStep ==
  ASSUME IInv, StepInv, LockInv, AirInv, refuted' = {}, NEW p \in Proc,
         Act(p) \/ Poll(p) \/ RunProduct(p) \/ Crash(p) \/ Recover(p)
  PROVE  InAir'
<1> SUFFICES ASSUME NEW j, j = loc[p].job, NEW f, f = First(loc[p].todo)
             PROVE  InAir'
  OBVIOUS
<1>1. /\ Data /\ UNCHANGED remote /\ PlansKept
      /\ refuted = {} /\ InAir /\ Still(p)
  BY Known, AirMoves, RowActions, PlanRelations DEF AirInv, Air
<1>2. CASE UNCHANGED <<wire, steps>>
  BY <1>1, <1>2, InAirKept DEF InAir
<1>3. CASE Mark(p) /\ UNCHANGED wire
  <2>1. UNCHANGED steps \/ steps' = [steps EXCEPT ![j][f] = "dispatched"]
    BY <1>3 DEF Mark
  <2>2. j \in JobId /\ f \in Fields
    BY <1>3, FirstLeft DEF Mark, AtStep
  <2>3. \A m \in wire : m[1] \in JobId /\ m[2] \in Fields
    BY <1>1 DEF Data
  <2>4. \A m \in wire : steps'[m[1]][m[2]] = "dispatched"
    BY <1>1, <2>1, <2>2, <2>3, OneStep DEF InAir
  <2> QED BY <1>1, <1>3, <2>4, InAirKept
<1>4. CASE Send(p) /\ UNCHANGED steps
  <2>1. wire' = wire \cup {<<j, f>>} /\ pc[p] = "send" /\ UNCHANGED jobs
    BY <1>4 DEF Send, ledgerVars
  <2>2. steps[j][f] = "dispatched" /\ ~Matches(j, f)
    BY <1>1, <2>1 DEF Still
  <2> QED BY <1>1, <1>4, <2>1, <2>2 DEF InAir, Matches
<1>5. CASE (Verify(p) \/ ReconcileCommit(p)) /\ UNCHANGED wire
  <2>1. wire = {}
    BY <1>1, <1>5 DEF Still, ActsOnRead, Verify, ReconcileCommit
  <2> QED BY <1>5, <2>1 DEF InAir
<1>6. CASE SupersedeCommit(p) /\ UNCHANGED wire
  <2>1. CASE UNCHANGED steps
    BY <1>1, <1>6, <2>1, InAirKept DEF InAir
  <2>2. CASE ~UNCHANGED steps
    <3>1. pc[p] = "retire" /\ refuted' = refuted \cup {<<j, g>> : g \in loc[p].absent}
      BY <1>6, <2>2 DEF SupersedeCommit
    <3>2. loc[p].absent = {}
      BY <3>1
    <3>3. wire = {}
      BY <1>1, <3>1, <3>2 DEF Still
    <3> QED BY <1>6, <3>3 DEF InAir
  <2> QED BY <2>1, <2>2
<1> QED BY <1>2, <1>3, <1>4, <1>5, <1>6, AirMoves

\* A review observes that every dispatched step of the unfinished job shows its
\* effect, or declares one absent.
LEMMA ObserveStill ==
  ASSUME IInv, StepInv, LockInv, AirInv, refuted' = {}, NEW p \in Proc,
         ReconcileObserve(p) \/ SupersedeObserve(p)
  PROVE  Still(p)'
<1>1. /\ Data /\ Control /\ InAir /\ UNCHANGED <<remote, wire, jobs, steps>>
      /\ loc[p] \in Local
  BY Known DEF ReconcileObserve, SupersedeObserve, ledgerVars, magentoVars,
     historyVars, AirInv, Air
<1>2. ASSUME NEW k \in Unfinished,
             \A g \in Fields : steps[k][g] = "dispatched" => Matches(k, g)
      PROVE  wire = {}
  <2>1. \A m \in wire : FALSE
    BY <1>1, <1>2, WireOfJob
  <2> QED BY <2>1
<1>3. CASE ReconcileObserve(p)
  <2>1. PICK k \in Created :
          /\ CanReconcile(k)
          /\ loc' = [loc EXCEPT ![p].job = k, ![p].snap = product,
                                ![p].binding = published, ![p].seen = steps[k],
                                ![p].complete = VerifiedAll(k)]
    BY <1>3 DEF ReconcileObserve
  <2>2. wire = {}
    <3>1. k \in Unfinished
      BY <2>1 DEF CanReconcile, Inspectable, Unfinished, Finished
    <3>2. \A g \in Fields : steps[k][g] = "dispatched" => Matches(k, g)
      BY <2>1 DEF CanReconcile, Inspectable
    <3> QED BY <1>2, <3>1, <3>2
  <2>3. loc'[p].job = k /\ (loc'[p].complete <=> VerifiedAll(k))
    <3> DEFINE l == loc[p]
               c == VerifiedAll(k)
               s == steps[k]
               m == [l EXCEPT !.job = k, !.snap = product, !.binding = published,
                              !.seen = s, !.complete = c]
    <3>1. loc'[p] = m
      BY <1>1, <2>1 DEF Control
    <3>2. m.job = k /\ (m.complete <=> c)
      <4> HIDE DEF l, c, s
      <4> QED BY <1>1 DEF Local
    <3> HIDE DEF l, c, s, m
    <3> QED BY <3>1, <3>2 DEF c
  <2>4. pc'[p] = "reconcile"
    BY <1>1, <1>3 DEF ReconcileObserve, Goto, Control
  <2>5. VerifiedAll(loc[p].job)' <=> VerifiedAll(k)
    BY <1>1, <2>3 DEF VerifiedAll, Preserved, Matches
  <2> QED BY <1>1, <2>2, <2>3, <2>4, <2>5 DEF Still
<1>4. CASE SupersedeObserve(p)
  <2>1. PICK k \in Created :
          /\ jobs[k].state = "uncertain"
          /\ \A f \in Dispatched(k) : Outcome(k, f)
          /\ loc' = [loc EXCEPT ![p].job = k, ![p].seen = steps[k],
                       ![p].absent = {f \in Dispatched(k) : NotApplied(k, f)}]
    BY <1>4 DEF SupersedeObserve
  <2>2. loc'[p].absent = {f \in Dispatched(k) : NotApplied(k, f)}
    <3> DEFINE l == loc[p]
               a == {f \in Dispatched(k) : NotApplied(k, f)}
               s == steps[k]
               m == [l EXCEPT !.job = k, !.seen = s, !.absent = a]
    <3>1. loc'[p] = m
      BY <1>1, <2>1 DEF Control
    <3>2. m.absent = a
      <4> HIDE DEF l, a, s
      <4> QED BY <1>1 DEF Local
    <3> HIDE DEF l, a, s, m
    <3> QED BY <3>1, <3>2 DEF a
  <2>3. pc'[p] = "retire"
    BY <1>1, <1>4 DEF SupersedeObserve, Goto, Control
  <2>4. loc'[p].absent = {} => wire = {}
    <3> SUFFICES ASSUME loc'[p].absent = {} PROVE wire = {}
      OBVIOUS
    <3>1. k \in Unfinished
      BY <2>1 DEF Unfinished, Finished
    <3>2. \A g \in Fields : steps[k][g] = "dispatched" => Matches(k, g)
      BY <2>1, <2>2 DEF Dispatched, Outcome
    <3> QED BY <1>2, <3>1, <3>2
  <2> QED BY <1>1, <2>3, <2>4 DEF Still, ActsOnRead
<1> QED BY <1>3, <1>4

\* applyJob reads before it marks, verifies or succeeds.
LEMMA ApplyStill ==
  ASSUME IInv, StepInv, LockInv, AirInv, refuted' = {}, NEW p \in Proc,
         \/ NextStep(p) \/ Mark(p) \/ Send(p) \/ Readback(p) \/ FinalReadback(p)
  PROVE  Still(p)'
<1> USE DEF ActsOnRead
<1> SUFFICES ASSUME NEW j, j = loc[p].job, NEW f, f = First(loc[p].todo)
             PROVE  Still(p)'
  OBVIOUS
<1>1. /\ Data /\ Control /\ InAir /\ Still(p) /\ UNCHANGED <<remote, jobs>>
      /\ \A S : Stops(p, S) =>
           /\ pc'[p] \in S
           /\ pc'[p] # "idle" => loc'[p].job = j /\ First(loc'[p].todo) = f
      /\ \A S : HasLeft(p, S) => pc'[p] = "step"
  <2>1. /\ Data /\ Control /\ refuted = {} /\ UNCHANGED remote
    BY Known, AirMoves DEF Act, ApplyJob
  <2>2. UNCHANGED jobs
    BY DEF NextStep, Mark, Send, Readback, FinalReadback, ledgerVars
  <2>3. ASSUME NEW S, Stops(p, S)
        PROVE  /\ pc'[p] \in S
               /\ pc'[p] # "idle" => loc'[p].job = j /\ First(loc'[p].todo) = f
    BY <2>3 DEF Stops, Goes, SameWork
  <2> QED BY <2>1, <2>2, <2>3, TakesLabel DEF AirInv, Air
<1>2. /\ \A g : Matches(j, g)' <=> Matches(j, g)
      /\ VerifiedAll(j)' <=> VerifiedAll(j)
  BY <1>1 DEF Matches, VerifiedAll, Preserved
<1>3. CASE NextStep(p)
  <2>1. /\ pc[p] = "step" /\ loc[p].todo # {} /\ UNCHANGED <<wire, steps>>
        /\ pc'[p] = "mark" => ~Matches(j, f) /\ steps[j][f] = "none"
        /\ pc'[p] = "verify" => Matches(j, f) /\ steps[j][f] # "verified"
    BY <1>1, <1>3 DEF NextStep, Fail, Goto, Control, ledgerVars, magentoVars
  <2>2. pc'[p] \in {"step", "fail", "mark", "verify"}
    BY <1>1, <1>3, NextStepMoves
  <2>3. pc'[p] \in {"mark", "verify"} => loc'[p].job = j /\ First(loc'[p].todo) = f
    BY <1>1, <1>3, NextStepMoves
  <2>4. pc'[p] \in {"mark", "verify"} => wire \subseteq {<<j, f>>}
    BY <1>1, <2>1, WireOfStep DEF Working
  <2>5. pc'[p] \in {"mark", "verify"} => wire = {}
    <3> SUFFICES ASSUME pc'[p] \in {"mark", "verify"}, wire # {} PROVE FALSE
      OBVIOUS
    <3>1. <<j, f>> \in wire
      BY <2>4
    <3>2. steps[j][f] = "dispatched" /\ ~Matches(j, f)
      BY <1>1, <3>1 DEF InAir
    <3> QED BY <2>1, <3>2
  <2> QED BY <1>2, <2>1, <2>2, <2>3, <2>5 DEF Still
<1>4. CASE Mark(p)
  <2>1. /\ pc[p] = "mark" /\ UNCHANGED wire /\ pc'[p] \in {"fail", "send"}
    BY <1>1, <1>4, StepMoves DEF Mark, magentoVars
  <2>2. wire = {} /\ ~Matches(j, f)
    BY <1>1, <2>1 DEF Still
  <2>3. pc'[p] = "send" =>
          /\ loc'[p].job = j /\ First(loc'[p].todo) = f
          /\ steps' = [steps EXCEPT ![j][f] = "dispatched"]
    BY <1>1, <1>4, StepMoves DEF Mark, Fail, Goto, Control
  <2>4. pc'[p] = "send" => steps'[j][f] = "dispatched"
    <3>1. j \in JobId /\ f \in Fields
      BY <2>1, FirstLeft DEF AtStep
    <3> QED BY <1>1, <2>3, <3>1, OneStep
  <2> QED BY <1>2, <2>1, <2>2, <2>3, <2>4 DEF Still
<1>5. CASE Send(p)
  <2>1. /\ pc[p] = "send" /\ pc'[p] = "readback" /\ UNCHANGED steps
        /\ loc'[p].job = j /\ First(loc'[p].todo) = f
    <3>1. pc[p] = "send" /\ UNCHANGED steps
      BY <1>5 DEF Send, ledgerVars
    <3>2. Stops(p, {"readback"})
      BY <1>1, <1>5, StepMoves
    <3> QED BY <1>1, <3>1, <3>2
  <2>2. steps[j][f] = "dispatched"
    BY <1>1, <2>1 DEF Still
  <2> QED BY <2>1, <2>2 DEF Still
<1>6. CASE Readback(p)
  <2>1. /\ pc[p] = "readback" /\ loc[p].todo # {} /\ UNCHANGED <<wire, steps>>
        /\ pc'[p] \in {"verify", "fail"}
        /\ pc'[p] = "verify" => Matches(j, f)
    BY <1>1, <1>6, StepMoves DEF Readback, Fail, Goto, Control, IInv, TodoLeft,
       AtStep, ledgerVars, magentoVars
  <2>2. steps[j][f] = "dispatched"
    BY <1>1, <2>1 DEF Still
  <2>3. wire \subseteq {<<j, f>>}
    BY <1>1, <2>1, <2>2, WireOfStep DEF Working
  <2>4. pc'[p] = "verify" => wire = {}
    <3> SUFFICES ASSUME pc'[p] = "verify", wire # {} PROVE FALSE
      OBVIOUS
    <3>1. <<j, f>> \in wire
      BY <2>3
    <3> QED BY <1>1, <2>1, <3>1 DEF InAir
  <2> QED BY <2>1, <2>4 DEF Still
<1>7. CASE FinalReadback(p)
  <2>1. /\ pc[p] = "step" /\ loc[p].todo = {} /\ UNCHANGED <<wire, steps>>
        /\ pc'[p] \in {"succeed", "fail"}
        /\ pc'[p] = "succeed" => VerifiedAll(j) /\ loc'[p].job = j
    BY <1>1, <1>7, StepMoves DEF FinalReadback, Fail, Goto, Control, ledgerVars,
       magentoVars
  <2>2. wire = {}
    BY <1>1, <2>1, WireOfStep DEF Working
  <2> QED BY <1>2, <2>1, <2>2 DEF Still
<1> QED BY <1>3, <1>4, <1>5, <1>6, <1>7

LEMMA AirStep ==
  ASSUME IInv, StepInv, LockInv, AirInv, NEW p \in Proc,
         Act(p) \/ Poll(p) \/ RunProduct(p) \/ Crash(p) \/ Recover(p)
  PROVE  AirInv'
<1>1. /\ Others(p) /\ UNCHANGED remote /\ refuted \subseteq refuted'
      /\ PlansKept /\ (pc'[p] \in Watching => Watches(p))
  BY AirMoves, WhereFrom, RowActions, PlanRelations
<1>2. ASSUME refuted' = {}, NEW q \in Proc, q # p
      PROVE  Still(q)'
  <2>1. Still(q) /\ pc'[q] = pc[q] /\ loc'[q] = loc[q]
    BY <1>1, <1>2 DEF AirInv, Air, Others
  <2>2. UNCHANGED <<wire, steps>> \/ Alone(p)
    <3>1. CASE Mark(p) \/ Send(p) \/ Verify(p) \/ ReconcileCommit(p) \/ SupersedeCommit(p)
      <4>1. pc[p] \in InsideSku
        BY <3>1 DEF Mark, Send, Verify, ReconcileCommit, SupersedeCommit, InsideSku
      <4> QED BY <4>1, InsideAlone
    <3> QED BY <3>1, AirMoves
  <2> QED BY <1>1, <1>2, <2>1, <2>2, OthersStill DEF Alone
<1>3. ASSUME refuted' = {}  PROVE Still(p)'
  <2>1. CASE pc'[p] \notin Watching
    BY <2>1 DEF Still, Watching, ActsOnRead
  <2>2. CASE pc'[p] \in Watching
    BY <1>1, <1>3, <2>2, ApplyStill, ObserveStill DEF Watches
  <2> QED BY <2>1, <2>2
<1>4. refuted' = {} => InAir'
  BY InAirStep
<1>5. Planned'
  BY PlannedKept DEF AirInv
<1> QED BY <1>2, <1>3, <1>4, <1>5 DEF AirInv, Air

-----------------------------------------------------------------------------
\* Nobody but this service writes to Magento.

\* Every session is kept, and no other writer changes the fields.
NoForeign   == \A b \in Budgets : b["foreign"] = 0
Undisturbed == NoLoss /\ NoForeign

LEMMA NoForeignWrite ==
  ASSUME NoForeign, IInv
  PROVE  ~ForeignWrite
<1> SUFFICES ASSUME ForeignWrite PROVE FALSE
  OBVIOUS
<1>1. PICK b \in Budgets : spent["foreign"] < b["foreign"]
  BY DEF ForeignWrite, Spend
<1>2. spent["foreign"] \in Nat /\ b["foreign"] = 0
  BY SplitType DEF IInv, Data, Kinds, NoForeign
<1> QED BY <1>1, <1>2

\* The one mutation on its way takes effect, or never will.
LEMMA DeliverAir ==
  ASSUME IInv, StepInv, LockInv, AirInv, Deliver \/ Lose
  PROVE  AirInv'
<1>1. UNCHANGED <<pc, loc, jobs, steps, refuted>>
  BY DEF Deliver, Lose, ledgerVars, historyVars
<1>2. Planned'
  BY <1>1 DEF AirInv, Planned, Planning, Created, Exists
<1>3. ASSUME refuted = {}  PROVE InAir' /\ \A p \in Proc : Still(p)'
  <2>1. InAir /\ \A p \in Proc : Still(p)
    BY <1>3 DEF AirInv, Air
  <2>2. PICK m \in wire : wire' = wire \ {m}
    BY DEF Deliver, Lose
  <2>3. \A n \in wire : n = m
    <3> SUFFICES ASSUME NEW n \in wire PROVE n = m
      OBVIOUS
    <3>1. /\ n = <<n[1], n[2]>> /\ n[1] \in JobId /\ n[2] \in Fields
          /\ m = <<m[1], m[2]>> /\ m[1] \in JobId /\ m[2] \in Fields
      BY SplitType DEF IInv, Data
    <3> QED BY <2>1, <3>1, OneDispatch DEF InAir, OneUnresolved
  <2>4. wire' = {} /\ wire # {}
    BY <2>2, <2>3
  <2>5. InAir'
    BY <2>4 DEF InAir
  <2>6. ASSUME NEW p \in Proc  PROVE Still(p)'
    <3>1. pc[p] \notin ActsOnRead
      BY <2>1, <2>4 DEF Still
    <3> QED BY <1>1, <2>1, <2>4, <3>1 DEF Still, ActsOnRead
  <2> QED BY <2>5, <2>6
<1> QED BY <1>1, <1>2, <1>3 DEF AirInv, Air

LEMMA AirInit == Init => AirInv
<1> SUFFICES ASSUME Init PROVE AirInv
  OBVIOUS
<1>1. Created = {} /\ wire = {} /\ \A p \in Proc : pc[p] = "idle"
  BY DEF Init, Created, Exists
<1>2. Planned
  BY <1>1 DEF Planned, Planning
<1>3. InAir /\ \A p \in Proc : Still(p)
  BY <1>1 DEF InAir, Still, ActsOnRead
<1> QED BY <1>2, <1>3 DEF AirInv, Air

LEMMA AirNext ==
  ASSUME Undisturbed, IInv, StepInv, LockInv, AirInv, [Next]_vars
  PROVE  AirInv'
<1>1. ASSUME NEW p \in Proc,
             Act(p) \/ Poll(p) \/ RunProduct(p) \/ Crash(p) \/ Recover(p)
      PROVE  AirInv'
  BY <1>1, AirStep
<1>2. CASE Deliver \/ Lose
  BY <1>2, DeliverAir
<1>3. CASE \/ LoseSessions \/ Edit \/ Touch \/ Retire \/ Publish \/ ProcessHandoff
           \/ Disable \/ Quiet \/ UNCHANGED vars
  <2>1. UNCHANGED <<pc, loc, jobs, steps, remote, wire, refuted>>
    BY <1>3 DEF LoseSessions, Edit, Touch, Retire, Publish, ProcessHandoff, Disable,
       Quiet, vars, ledgerVars, magentoVars, historyVars
  <2>2. Planned'
    BY <2>1 DEF AirInv, Planned, Planning, Created, Exists
  <2>3. ASSUME refuted = {}  PROVE InAir' /\ \A p \in Proc : Still(p)'
    <3>1. InAir /\ \A p \in Proc : Still(p)
      BY <2>3 DEF AirInv, Air
    <3> QED BY <2>1, <3>1 DEF InAir, Still, Matches, VerifiedAll, Preserved
  <2> QED BY <2>1, <2>2, <2>3 DEF AirInv, Air
<1>4. ~ForeignWrite
  BY NoForeignWrite DEF Undisturbed
<1> QED BY <1>1, <1>2, <1>3, <1>4 DEF Next, Environment, Proc

-----------------------------------------------------------------------------
\* What is said to be delivered is what Magento shows.

\* Job j is carried for generation g: by a worker, by the request, by its row.
Carries(q, j, g) ==
  \/ j = loc[q].active /\ g = loc[q].activeGen
  \/ pc[q] \in Delivering /\ j = loc[q].job /\ g = AckGeneration(q)
Speaks(j, g) ==
  \/ j = request.active /\ g = request.activeGen
  \/ j \in Created /\ g = jobs[j].auto
  \/ \E q \in Workers : Carries(q, j, g)

\* A success is acknowledged, or will be, for the generation desired now; then
\* Magento shows the content of now, unless a review declared a sent mutation
\* absent.
Claimed   == \/ request.state = "synced"
             \/ \E j \in JobId : Succ(j) /\ Speaks(j, request.desired)
Shown     == refuted = {} => \A f \in Fields : remote[f] = product.input
MirrorInv == gate /\ Claimed => Shown

\* A step makes no succeeded job speak for a generation anew, and only a
\* success that spoke makes the request synced.
NoNewWord ==
  \A j \in JobId : \A g : Succ(j)' /\ Speaks(j, g)' => Speaks(j, g)
NoNewClaim ==
  request'.state = "synced" =>
    \/ request.state = "synced"
    \/ \E j \in JobId : Succ(j) /\ Speaks(j, request.desired)

\* It is enough to look at the request and at the worker that takes the step.
LEMMA WordsOf ==
  ASSUME NEW p \in Proc, Others(p),
         \/ UNCHANGED jobs
         \/ \E j \in JobId : \E s : Rewrites(j, s)
         \/ \E j \in JobId : Inserts(p, j),
         \A j \in JobId : \A g :
           Succ(j)' /\ j = request'.active /\ g = request'.activeGen => Speaks(j, g),
         \A j \in JobId : \A g :
           p \in Workers /\ Succ(j)' /\ Carries(p, j, g)' => Speaks(j, g)
  PROVE  NoNewWord
<1> SUFFICES ASSUME NEW j \in JobId, NEW g, Succ(j)', Speaks(j, g)'
             PROVE  Speaks(j, g)
  BY DEF NoNewWord
<1>1. CASE j = request'.active /\ g = request'.activeGen
  BY <1>1
<1>2. CASE j \in Created' /\ g = jobs'[j].auto
  <2>1. j \in Created /\ g = jobs[j].auto
    BY <1>2 DEF Created, Exists, Rewrites, Inserts, Succ
  <2> QED BY <2>1 DEF Speaks
<1>3. ASSUME NEW q \in Workers, Carries(q, j, g)'  PROVE Speaks(j, g)
  <2>1. CASE q = p
    BY <1>3, <2>1
  <2>2. CASE q # p
    <3>1. pc'[q] = pc[q] /\ loc'[q] = loc[q]
      BY <2>2 DEF Others, Proc
    <3>2. Carries(q, j, g)
      BY <1>3, <3>1 DEF Carries, AckGeneration
    <3> QED BY <3>2 DEF Speaks
  <2> QED BY <2>1, <2>2
<1> QED BY <1>1, <1>2, <1>3 DEF Speaks

\* A worker that ends, or goes on with its job, carries nothing new.
LEMMA StopsCarries ==
  ASSUME Control, NEW p \in Proc, NEW S, Stops(p, S),
         pc[p] \in Delivering \/ \A label \in S : label \notin Delivering
  PROVE  \A j \in JobId : \A g : Carries(p, j, g)' => Carries(p, j, g)
<1>1. PICK label \in S :
        \E m : /\ Goes(p, label, m)
               /\ IF label = "idle" THEN m = FreshLocal ELSE SameWork(m, loc[p])
  BY DEF Stops
<1>2. pc'[p] = label
  BY <1>1 DEF Goes
<1>3. CASE label = "idle"
  <2>1. loc'[p] = FreshLocal
    BY <1>1, <1>3 DEF Goes
  <2> QED BY <1>2, <1>3, <2>1 DEF Carries, Delivering, FreshLocal, JobId, NoJob
<1>4. CASE label # "idle"
  <2>1. SameWork(loc'[p], loc[p])
    BY <1>1, <1>4 DEF Goes
  <2> QED BY <1>2, <2>1 DEF Carries, SameWork, SameRequest, AckGeneration
<1> QED BY <1>3, <1>4

LEMMA LeftCarries ==
  ASSUME NEW p \in Proc, pc[p] \in Delivering, NEW S, HasLeft(p, S)
  PROVE  \A j \in JobId : \A g : Carries(p, j, g)' => Carries(p, j, g)
BY DEF HasLeft, Goes, SameRequest, Carries, AckGeneration

\* A worker that takes up job k carries it for the generation it read.
LEMMA TakesCarries ==
  ASSUME NEW p \in Proc, NEW label, NEW k, TakesJob(p, label, k)
  PROVE  \A j \in JobId : \A g : Carries(p, j, g)' =>
           \/ Carries(p, j, g)
           \/ label \in Delivering /\ j = k /\ g = loc[p].gen
BY DEF TakesJob, Goes, SameRequest, Carries, AckGeneration

\* The statements that name no other job.
LEMMA QuietWords ==
  ASSUME NEW r, r = request',
         r = request \/ Quieter(r) \/ r.active = NoJob
  PROVE  \A j \in JobId : \A g :
           j = request'.active /\ g = request'.activeGen => Speaks(j, g)
BY DEF Quieter, Speaks, JobId, NoJob

LEMMA EnqueueWords ==
  ASSUME Base, NEW p \in Proc, Enqueue(p)
  PROVE  NoNewWord /\ NoNewClaim
<1> USE DEF Thrown, Delivering
<1>1. /\ Control /\ IInv /\ request \in Request /\ Others(p)
      /\ \/ UNCHANGED jobs
         \/ \E j \in JobId : \E s : Rewrites(j, s)
         \/ \E j \in JobId : Inserts(p, j)
  BY Known, RowActions, EnqueueLock DEF Base, Data, Act, SkuMove
<1>2. ASSUME UNCHANGED request, NEW S, Stops(p, S),
             \A label \in S : label \notin Delivering
      PROVE  NoNewWord /\ NoNewClaim
  <2>1. \A j \in JobId : \A g : Carries(p, j, g)' => Carries(p, j, g)
    BY <1>1, <1>2, StopsCarries
  <2> QED BY <1>1, <1>2, <2>1, WordsOf, QuietWords DEF Speaks, NoNewClaim
<1>3. ASSUME NEW k \in JobId, NEW h, h = loc[p].gen, p \in Workers,
             request' = Attach(request, k, h), TakesJob(p, "syncing", k),
             Succ(k)' => Speaks(k, h)
      PROVE  NoNewWord /\ NoNewClaim
  <2>1. /\ request'.active = k /\ request'.activeGen = h
        /\ request'.state = "syncing"
    BY <1>1, <1>3 DEF Attach, Request
  <2>2. \A j \in JobId : \A g : Carries(p, j, g)' =>
          Carries(p, j, g) \/ (j = k /\ g = h)
    BY <1>3, TakesCarries
  <2>3. \A j \in JobId : \A g :
          p \in Workers /\ Succ(j)' /\ Carries(p, j, g)' => Speaks(j, g)
    BY <1>3, <2>2 DEF Speaks
  <2>4. NoNewWord
    BY <1>1, <1>3, <2>1, <2>3, WordsOf
  <2> QED BY <2>1, <2>4 DEF NoNewClaim
<1>4. CASE EnqueueEnter(p) \/ PlanJob(p) \/ PlanFault(p)
  <2>1. UNCHANGED request
    BY <1>4 DEF EnqueueEnter, PlanJob, PlanFault
  <2> QED BY <1>1, <1>2, <1>4, <2>1, EnqueueEnterMoves, PlanMoves
<1>5. CASE UseExisting(p)
  <2>1. CASE Stops(p, Thrown) /\ UNCHANGED request
    BY <1>2, <2>1
  <2>2. ASSUME NEW k, k = ExistingJob(p), NEW h, h = loc[p].gen, p \in Workers,
               request' = Attach(request, k, h), TakesJob(p, "syncing", k)
        PROVE  NoNewWord /\ NoNewClaim
    <3>1. k \in JobId /\ Reusable(p, k) /\ UNCHANGED jobs
      BY <1>5, <2>2, ExistingReusable DEF UseExisting, ledgerVars
    <3>2. Succ(k)' => Speaks(k, h)
      BY <2>2, <3>1 DEF Reusable, Succ, Speaks, Created
    <3> QED BY <1>3, <2>2, <3>1, <3>2
  <2> QED BY <1>1, <1>5, <2>1, <2>2, UseExistingMoves
<1>6. CASE InsertJob(p)
  <2>1. CASE Stops(p, Thrown) /\ UNCHANGED request
    BY <1>2, <2>1
  <2>2. ASSUME NEW k \in JobId, NEW h, h = loc[p].gen, p \in Workers, Inserts(p, k),
               request' = Attach(request, k, h), TakesJob(p, "syncing", k)
        PROVE  NoNewWord /\ NoNewClaim
    <3>1. ~Succ(k)'
      BY <2>2 DEF Inserts, Succ
    <3> QED BY <1>3, <2>2, <3>1
  <2> QED BY <1>1, <1>6, <2>1, <2>2, InsertRow
<1> QED BY <1>4, <1>5, <1>6 DEF Enqueue

LEMMA ApplyWords ==
  ASSUME Base, NEW p \in Proc, ApplyJob(p)
  PROVE  NoNewWord /\ NoNewClaim
<1>1. /\ Control /\ Others(p) /\ UNCHANGED request
      /\ \/ UNCHANGED jobs
         \/ \E j \in JobId : \E s : Rewrites(j, s)
         \/ \E j \in JobId : Inserts(p, j)
  BY Known, RowActions, ApplyRemembers DEF Base, Act, Remembers
<1>2. pc[p] \in Delivering
  BY DEF ApplyJob, ApplyBusy, ApplyRefused, BlockRefused, ApplyEnter, Begin,
     NextStep, Mark, Send, Readback, Verify, FinalReadback, Succeed, ReadFault,
     SaveFailure, Delivering
<1>3. (\E S : Stops(p, S)) \/ (\E S : HasLeft(p, S))
  <2>1. CASE ApplyBusy(p) \/ ApplyRefused(p) \/ BlockRefused(p) \/ ApplyEnter(p)
    BY <1>1, <2>1, EarlyApplyMoves, ApplyEnterMoves
  <2>2. CASE Begin(p) \/ NextStep(p) \/ Verify(p) \/ Succeed(p)
    BY <1>1, <2>2, BeginMoves, NextStepMoves, VerifyMoves, SucceedMoves
  <2>3. CASE Mark(p) \/ Send(p) \/ Readback(p) \/ FinalReadback(p)
             \/ ReadFault(p) \/ SaveFailure(p)
    BY <1>1, <2>3, StepMoves
  <2> QED BY <2>1, <2>2, <2>3 DEF ApplyJob
<1>4. \A j \in JobId : \A g : Carries(p, j, g)' => Carries(p, j, g)
  BY <1>1, <1>2, <1>3, StopsCarries, LeftCarries
<1> QED BY <1>1, <1>4, WordsOf, QuietWords DEF Speaks, NoNewClaim

LEMMA RecoverWords ==
  ASSUME Base, NEW p \in Operators, Recover(p)
  PROVE  NoNewWord /\ NoNewClaim
<1>1. /\ p \in Proc /\ p \notin Workers /\ Control /\ request \in Request
      /\ IInv
  BY Known, ProcAssumption DEF Base, Data, Proc
<1>2. Others(p) /\ (UNCHANGED request \/ Quieter(request'))
  BY <1>1, RecoverRemembers, QuieterRows DEF Remembers
<1>3. \/ UNCHANGED jobs
      \/ \E j \in JobId : \E s : Rewrites(j, s)
      \/ \E j \in JobId : Inserts(p, j)
  BY <1>1, RowActions
<1>4. NoNewWord
  BY <1>1, <1>2, <1>3, WordsOf, QuietWords
<1> QED BY <1>2, <1>4 DEF NoNewClaim, Quieter

LEMMA PassWords ==
  ASSUME Base, Deliveries, NEW p \in Workers, Poll(p) \/ RunProduct(p)
  PROVE  NoNewWord /\ NoNewClaim
<1> USE DEF Thrown, Delivering
<1>1. /\ p \in Proc /\ Control /\ IInv /\ request \in Request /\ Others(p)
      /\ \/ UNCHANGED jobs
         \/ \E j \in JobId : \E s : Rewrites(j, s)
         \/ \E j \in JobId : Inserts(p, j)
  BY Known, RowActions, PassLock DEF Base, Data, SkuMove, Proc
<1>2. ASSUME NEW S, Stops(p, S),
             pc[p] \in Delivering \/ \A label \in S : label \notin Delivering,
             \/ UNCHANGED request \/ Quieter(request')
             \/ request'.active = NoJob /\ NoNewClaim
      PROVE  NoNewWord /\ NoNewClaim
  <2>1. \A j \in JobId : \A g : Carries(p, j, g)' => Carries(p, j, g)
    BY <1>1, <1>2, StopsCarries
  <2>2. NoNewClaim
    BY <1>2 DEF NoNewClaim, Quieter
  <2>3. p \in Workers => \A j \in JobId : \A g : Carries(p, j, g)' => Speaks(j, g)
    BY <2>1 DEF Speaks
  <2>4. \A j \in JobId : \A g :
          j = request'.active /\ g = request'.activeGen => Speaks(j, g)
    BY <1>2, QuietWords
  <2> QED BY <1>1, <2>2, <2>3, <2>4, WordsOf
<1>3. CASE Poll(p) \/ ClearActive(p) \/ Syncing(p) \/ Attend(p) \/ RetryLater(p)
           \/ SupersedeUndispatched(p)
  <2>1. UNCHANGED request \/ Quieter(request')
    BY <1>1, <1>3, QuieterRows DEF Poll, ClearActive, Syncing, Attend,
       RetryLater, EndPass, SupersedeUndispatched
  <2>2. CASE Syncing(p)
    <3>1. Stops(p, {"apply"}) /\ pc[p] = "syncing"
      BY <1>1, <2>2, PassMoves DEF Syncing
    <3> QED BY <1>2, <2>1, <3>1
  <2>3. CASE Poll(p) \/ ClearActive(p) \/ Attend(p) \/ RetryLater(p)
             \/ SupersedeUndispatched(p)
    <3>1. \E S \in {{"selected"}, {"enqueue", "attend"}, {"idle"},
                    {"idle", "retry", "attend", "clear"}} : Stops(p, S)
      BY <1>1, <2>3, PassMoves, StopsMore
    <3> QED BY <1>2, <2>1, <3>1
  <2> QED BY <1>3, <2>2, <2>3
<1>4. ASSUME NEW k, NEW g, Succ(k), Speaks(k, g), k \in JobId, Stops(p, {"idle"}),
             request' = Acknowledge(request, g)
      PROVE  NoNewWord /\ NoNewClaim
  <2>1. /\ request'.active = NoJob
        /\ request'.state = "synced" => request.desired = g
    BY <1>1, <1>4 DEF Request, Acknowledge
  <2>2. NoNewClaim
    BY <1>4, <2>1 DEF NoNewClaim
  <2> QED BY <1>2, <1>4, <2>1, <2>2
<1>5. CASE ConsumeReceipt(p)
  <2>1. ASSUME NEW k, NEW g, k = loc[p].active, g = loc[p].activeGen
        PROVE  NoNewWord /\ NoNewClaim
    <3>1. k # NoJob /\ Succ(k) /\ request' = Acknowledge(request, g)
      BY <1>5, <2>1 DEF ConsumeReceipt, Succ
    <3>2. k \in JobId
      BY <1>1, <2>1, <3>1, Known DEF IInv, JobsExist
    <3>3. Speaks(k, g) /\ Stops(p, {"idle"})
      BY <1>1, <1>5, <2>1, PassMoves DEF Speaks, Carries
    <3> QED BY <1>4, <3>1, <3>2, <3>3
  <2> QED BY <2>1
<1>6. CASE AcknowledgeApplied(p)
  <2>1. ASSUME NEW k, NEW g, k = loc[p].job, g = AckGeneration(p)
        PROVE  NoNewWord /\ NoNewClaim
    <3>1. pc[p] = "acknowledge" /\ request' = Acknowledge(request, g)
      BY <1>6, <2>1 DEF AcknowledgeApplied, EndPass
    <3>2. k \in JobId /\ Succ(k)
      BY <2>1, <3>1 DEF Deliveries, WorkerOk, Created
    <3>3. Speaks(k, g) /\ Stops(p, {"idle"})
      BY <1>1, <1>6, <2>1, <3>1, PassMoves DEF Speaks, Carries
    <3> QED BY <1>4, <3>1, <3>2, <3>3
  <2> QED BY <2>1
<1>7. CASE Claim(p) \/ Decide(p)
  <2>1. UNCHANGED <<request, jobs>>
    BY <1>7 DEF Claim, Decide, ledgerVars
  <2>2. \A j \in JobId : \A g : Succ(j)' /\ Carries(p, j, g)' => Speaks(j, g)
    <3>1. CASE Claim(p)
      <4>1. CASE Goes(p, "idle", loc[p])
        BY <4>1 DEF Goes, Carries, Speaks
      <4>2. CASE \E m : /\ Goes(p, "claimed", m) /\ m.active = request.active
                        /\ m.activeGen = request.activeGen
        BY <4>2 DEF Goes, Carries, Speaks
      <4> QED BY <1>1, <3>1, <4>1, <4>2, ClaimMoves
    <3>2. CASE Decide(p)
      <4>1. ASSUME NEW k, k = Found(p), NEW label, TakesJob(p, label, k),
                   label \in Delivering => k # NoJob /\ ~Obsolete(p, k)
            PROVE  \A j \in JobId : \A g : Succ(j)' /\ Carries(p, j, g)' => Speaks(j, g)
        <5>1. ASSUME NEW j \in JobId, NEW g, Carries(p, j, g)'
              PROVE  Speaks(j, g)
          <6>1. CASE Carries(p, j, g)
            BY <6>1 DEF Speaks
          <6>2. CASE label \in Delivering /\ j = k /\ g = loc[p].gen
            <7>1. k \in Created /\ jobs[k].auto = g
              BY <1>1, <4>1, <6>2, FoundType DEF Obsolete, Created
            <7> QED BY <6>2, <7>1 DEF Speaks
          <6> QED BY <1>1, <4>1, <5>1, <6>1, <6>2, TakesCarries
        <5> QED BY <5>1
      <4> QED BY <1>1, <3>2, <4>1, DecideMoves
    <3> QED BY <1>7, <3>1, <3>2
  <2>3. NoNewWord
    BY <1>1, <2>1, <2>2, WordsOf DEF Speaks
  <2> QED BY <2>1, <2>3 DEF NoNewClaim
<1> QED BY <1>3, <1>5, <1>6, <1>7 DEF RunProduct

LEMMA CrashWords ==
  ASSUME Base, NEW p \in Proc, Crash(p)
  PROVE  NoNewWord /\ NoNewClaim
<1>1. /\ Control /\ UNCHANGED <<request, jobs>> /\ Others(p)
      /\ Stops(p, {"idle"})
  BY Known, PassMoves, PassLock DEF Base, Crash, ledgerVars, SkuMove
<1>2. \A j \in JobId : \A g : Carries(p, j, g)' => Carries(p, j, g)
  BY <1>1, StopsCarries DEF Delivering
<1> QED BY <1>1, <1>2, WordsOf DEF Speaks, NoNewClaim

\* Who speaks for a generation is right about it.
LEMMA SpeaksAbout ==
  ASSUME Deliveries, NEW j \in JobId, NEW g, Speaks(j, g)
  PROVE  About(j, g)
BY DEF Deliveries, RequestOk, RowsOk, WorkerOk, Speaks, Carries, JobId, NoJob

LEMMA ClaimedGood ==
  ASSUME Deliveries, Claimed
  PROVE  Good
<1>1. CASE request.state = "synced"
  BY <1>1 DEF Deliveries, RequestOk
<1>2. ASSUME NEW j \in JobId, Succ(j), NEW g, g = request.desired, Speaks(j, g)
      PROVE  Good
  BY <1>2, SpeaksAbout DEF About
<1> QED BY <1>1, <1>2 DEF Claimed

\* A job succeeds by applyJob or by a review that found everything applied.
LEMMA SuccessOf ==
  ASSUME IInv, NEW p \in Proc,
         Act(p) \/ Poll(p) \/ RunProduct(p) \/ Crash(p) \/ Recover(p),
         NEW j \in JobId, Succ(j)', ~Succ(j)
  PROVE  /\ j = loc[p].job /\ j \in Created
         /\ \/ pc[p] = "succeed"
            \/ pc[p] = "reconcile" /\ loc[p].complete
<1> SUFFICES ASSUME NEW k, k = loc[p].job
             PROVE  /\ j = k /\ j \in Created
                    /\ \/ pc[p] = "succeed"
                       \/ pc[p] = "reconcile" /\ loc[p].complete
  OBVIOUS
<1>1. ~UNCHANGED jobs
  BY DEF Succ
<1>2. \A s : Rewrites(k, s) => j = k /\ s = "succeeded" /\ j \in Created
  BY DEF Rewrites, Succ, Created
<1>3. CASE BlockRefused(p) \/ Begin(p) \/ SaveFailure(p) \/ SupersedeUndispatched(p)
           \/ SupersedeCommit(p)
  <2>1. k \in JobId
    BY <1>3, Known DEF AtJob, BlockRefused, Begin, SaveFailure,
       SupersedeUndispatched, SupersedeCommit
  <2>2. \E s : Rewrites(k, s) /\ s # "succeeded"
    BY <1>1, <1>3, BlockRewrites, BeginRewrites, FailureRewrites,
       SupersedeRewrites, RetireRewrites
  <2> QED BY <1>2, <2>2
<1>4. CASE Succeed(p)
  BY <1>1, <1>2, <1>4, SucceedRewrites DEF Succeed
<1>5. CASE ReconcileCommit(p)
  BY <1>1, <1>2, <1>5, ReconcileRewrites DEF ReconcileCommit
<1>6. CASE InsertJob(p)
  BY <1>1, <1>6, InsertRow DEF Inserts, Succ
<1>7. CASE ~(BlockRefused(p) \/ Begin(p) \/ Succeed(p) \/ SaveFailure(p)
             \/ SupersedeUndispatched(p) \/ ReconcileCommit(p)
             \/ SupersedeCommit(p) \/ InsertJob(p))
  BY <1>1, <1>7 DEF Act, Enqueue, EnqueueEnter, UseExisting, PlanJob, PlanFault,
     ApplyJob, ApplyBusy, ApplyRefused, ApplyEnter, NextStep, Mark, Send,
     Readback, Verify, FinalReadback, ReadFault, Poll, RunProduct, Claim,
     ConsumeReceipt, Decide, ClearActive, Syncing, Attend, RetryLater,
     AcknowledgeApplied, EndPass, Crash, Recover, ManualEnqueue, ManualApply,
     ReconcileObserve, SupersedeObserve, ledgerVars
<1> QED BY <1>3, <1>4, <1>5, <1>6, <1>7

\* The whole content of such a job is shown: what it wrote was read back, and
\* what it left out is as it was when it was planned.
LEMMA SuccessShown ==
  ASSUME AirInv, refuted = {}, NEW p \in Proc, NEW j \in Created, j = loc[p].job,
         \/ pc[p] = "succeed"
         \/ pc[p] = "reconcile" /\ loc[p].complete
  PROVE  \A f \in Fields : remote[f] = jobs[j].amber.input
<1>1. VerifiedAll(j)
  BY DEF AirInv, Air, Still
<1> QED BY <1>1 DEF VerifiedAll, Preserved, Matches, AirInv, Planned

LEMMA ProcessMirrors ==
  ASSUME Base, DeliveryInv, AirInv, MirrorInv, NEW p \in Proc,
         Act(p) \/ Poll(p) \/ RunProduct(p) \/ Crash(p) \/ Recover(p),
         NoNewWord, NoNewClaim
  PROVE  MirrorInv'
<1>1. /\ Steady /\ IInv /\ UNCHANGED remote /\ refuted \subseteq refuted'
      /\ request'.desired = request.desired
  BY ProcessSteady, AirMoves DEF Base, Steady
<1> SUFFICES ASSUME gate', Claimed', refuted' = {}
             PROVE  \A f \in Fields : remote[f] = product.input
  BY <1>1 DEF MirrorInv, Shown, Steady
<1>2. gate /\ refuted = {} /\ Deliveries
  BY <1>1 DEF Steady, DeliveryInv
<1>3. CASE Claimed
  BY <1>2, <1>3 DEF MirrorInv, Shown
<1>4. CASE ~Claimed
  <2>1. request'.state # "synced"
    BY <1>4 DEF NoNewClaim, Claimed
  <2>2. PICK j \in JobId : Succ(j)' /\ Speaks(j, request.desired)'
    BY <2>1 DEF Claimed
  <2>3. ASSUME NEW g, g = request'.desired  PROVE Speaks(j, g)
    <3>1. Speaks(j, g)'
      BY <2>2, <2>3 DEF Speaks
    <3> QED BY <2>2, <3>1 DEF NoNewWord
  <2>4. Speaks(j, request.desired)
    BY <1>1, <2>3
  <2>5. ~Succ(j) /\ About(j, request.desired)
    BY <1>2, <1>4, <2>4, SpeaksAbout DEF Claimed
  <2>6. \A f \in Fields : remote[f] = jobs[j].amber.input
    BY <1>1, <1>2, <2>2, <2>5, SuccessOf, SuccessShown
  <2> QED BY <2>5, <2>6 DEF About
<1> QED BY <1>3, <1>4

\* A newer generation: nobody speaks for it yet.
LEMMA BumpMirrors ==
  ASSUME Base, DeliveryInv, request' = Bump(request), UNCHANGED <<jobs, loc, pc>>
  PROVE  MirrorInv'
<1>1. /\ request \in Request /\ request.desired \in Nat
      /\ request'.desired = request.desired + 1 /\ request'.state # "synced"
      /\ request'.active = request.active /\ request'.activeGen = request.activeGen
      /\ request.activeGen \in Nat /\ request.activeGen <= request.desired
  BY SplitType DEF Base, IInv, RequestInv, RequestChecks, Data, Request, Bump
<1>2. \A j \in Created : jobs[j].auto \in Nat /\ jobs[j].auto <= request.desired
  <2>1. jobs \in [JobId -> Job \cup {NoRow}]
    BY SplitType DEF Base, IInv, Data
  <2> QED BY <2>1 DEF Created, Exists, Job, DeliveryInv, AutoKnown
<1>3. \A q \in Workers : /\ loc[q].gen \in Nat /\ loc[q].activeGen \in Nat
                         /\ loc[q].gen <= request.desired
                         /\ loc[q].activeGen <= request.desired
  BY Known DEF Proc, Base, RequestInv, GensKnown
<1>4. ASSUME NEW j \in JobId, NEW g, g = request.desired + 1
      PROVE  ~Speaks(j, g)'
  <2>1. Created' = Created
    BY <1>1 DEF Created, Exists
  <2>2. ~(j = request'.active /\ g = request'.activeGen)
    BY <1>1, <1>4
  <2>3. ~(j \in Created' /\ g = jobs'[j].auto)
    BY <1>1, <1>2, <1>4, <2>1
  <2>4. ASSUME NEW q \in Workers  PROVE ~Carries(q, j, g)'
    <3>1. g # loc[q].gen /\ g # loc[q].activeGen
      BY <1>1, <1>3, <1>4
    <3> QED BY <3>1 DEF Carries, AckGeneration
  <2> QED BY <2>2, <2>3, <2>4 DEF Speaks
<1>5. ASSUME Claimed'  PROVE FALSE
  <2>1. PICK j \in JobId : Speaks(j, request.desired)'
    BY <1>1, <1>5 DEF Claimed
  <2>2. ASSUME NEW g, g = request'.desired  PROVE Speaks(j, g)'
    BY <2>1, <2>2 DEF Speaks
  <2> QED BY <1>1, <1>4, <2>2
<1> QED BY <1>5 DEF MirrorInv

\* Nothing is said anew, and Magento shows what it did.
LEMMA CalmMirrors ==
  ASSUME MirrorInv, UNCHANGED <<request, jobs, loc, pc, remote, refuted>>,
         gate' => gate /\ product'.input = product.input
  PROVE  MirrorInv'
<1>1. Claimed' <=> Claimed
  BY DEF Claimed, Succ, Speaks, Carries, Created, Exists, AckGeneration
<1> QED BY <1>1 DEF MirrorInv, Shown

\* What still arrives is a mutation of the unfinished job, whose content is
\* that of now.
LEMMA DeliverMirrors ==
  ASSUME Base, LockInv, AirInv, DeliveryInv, MirrorInv, Deliver
  PROVE  MirrorInv'
<1>1. /\ UNCHANGED <<request, jobs, loc, pc, refuted, gate, product>>
  BY DEF Deliver, amberVars, ledgerVars, historyVars
<1>2. Claimed' <=> Claimed
  BY <1>1 DEF Claimed, Succ, Speaks, Carries, Created, Exists, AckGeneration
<1> SUFFICES ASSUME gate, Claimed, refuted = {}
             PROVE  \A f \in Fields : remote'[f] = product.input
  BY <1>1, <1>2 DEF MirrorInv, Shown
<1>3. PICK m \in wire : remote' = [remote EXCEPT ![m[2]] = jobs[m[1]].amber.input]
  BY DEF Deliver
<1>4. /\ m[1] \in JobId /\ m[2] \in Fields /\ IInv /\ StepInv
      /\ remote \in [Fields -> Held]
  BY SplitType DEF Base, IInv, Data
<1>5. m[1] \in Unfinished
  BY <1>4, DispatchedLives DEF AirInv, Air, InAir
<1>6. jobs[m[1]].amber.input = product.input
  BY <1>5, ClaimedGood DEF DeliveryInv, Good
<1> QED BY <1>3, <1>4, <1>6 DEF MirrorInv, Shown

LEMMA MirrorInit == Init => MirrorInv
<1> SUFFICES ASSUME Init, Claimed  PROVE FALSE
  BY DEF MirrorInv
<1>1. request.state = "pending" /\ \A j \in JobId : ~Succ(j)
  BY DEF Init, InitialRequest, Succ, NoRow
<1> QED BY <1>1 DEF Claimed

LEMMA MirrorNext ==
  ASSUME Undisturbed, Base, LockInv, AirInv, DeliveryInv, MirrorInv, [Next]_vars
  PROVE  MirrorInv'
<1>1. ASSUME NEW p \in Proc, Act(p) \/ Crash(p)  PROVE MirrorInv'
  BY <1>1, EnqueueWords, ApplyWords, CrashWords, ProcessMirrors DEF Act
<1>2. ASSUME NEW p \in Workers, Poll(p) \/ RunProduct(p)  PROVE MirrorInv'
  <2>1. p \in Proc
    BY DEF Proc
  <2>2. CASE gate
    BY <1>2, <2>1, <2>2, PassWords, ProcessMirrors DEF DeliveryInv
  <2>3. CASE ~gate
    <3>1. gate' = gate
      BY <1>2, <2>1, ProcessSteady DEF Steady
    <3> QED BY <2>3, <3>1 DEF MirrorInv
  <2> QED BY <2>2, <2>3
<1>3. ASSUME NEW p \in Operators, Recover(p)  PROVE MirrorInv'
  BY <1>3, RecoverWords, ProcessMirrors DEF Proc
<1>4. CASE Edit \/ Retire \/ ProcessHandoff \/ Touch
  <2>1. UNCHANGED <<jobs, loc, pc, remote, refuted, gate>>
    BY <1>4 DEF Edit, Retire, ProcessHandoff, Touch, amberVars, ledgerVars,
       magentoVars, historyVars
  <2>2. CASE request' = Bump(request)
    BY <2>1, <2>2, BumpMirrors
  <2>3. CASE ~gate
    BY <2>1, <2>3 DEF MirrorInv
  <2>4. CASE UNCHANGED request /\ product'.input = product.input
    BY <2>1, <2>4, CalmMirrors
  <2>5. Touch => UNCHANGED request /\ product'.input = product.input
    <3>1. product \in Product
      BY SplitType DEF Base, IInv, Data
    <3> QED BY <3>1 DEF Touch, Product
  <2> QED BY <1>4, <2>2, <2>3, <2>4, <2>5 DEF Edit, Retire, RequestSync,
             ProcessHandoff
<1>5. CASE LoseSessions \/ Publish \/ Disable \/ Lose \/ Quiet \/ UNCHANGED vars
  <2>1. /\ UNCHANGED <<request, jobs, loc, pc, remote, refuted, product>>
        /\ gate' = gate \/ gate' = FALSE
    BY <1>5 DEF LoseSessions, Publish, Disable, Lose, Quiet, vars, amberVars,
       ledgerVars, magentoVars, historyVars
  <2> QED BY <2>1, CalmMirrors
<1>6. CASE Deliver
  BY <1>6, DeliverMirrors
<1>7. ~ForeignWrite
  BY NoForeignWrite DEF Undisturbed, Base
<1> QED BY <1>1, <1>2, <1>3, <1>4, <1>5, <1>6, <1>7 DEF Next, Environment

\* While sessions are kept and nobody else writes the fields, a request that
\* says synced is one whose product Magento shows as it is now, operation by
\* operation, late deliveries included, unless a review declared a sent
\* mutation absent.
THEOREM SyncedMirrored ==
  ASSUME NoLoss, NoForeign
  PROVE  Spec => []SyncedMeansMirrored
<1> DEFINE Inv == Base /\ LockInv /\ AirInv /\ DeliveryInv /\ MirrorInv
<1>1. Undisturbed
  BY DEF Undisturbed
<1>2. Init => Inv
  BY InitLemma, RequestInit, StepInit, LockInit, AirInit, DeliveryInit,
     MirrorInit DEF Base
<1>3. Inv /\ [Next]_vars => Inv'
  BY <1>1, NextLemma, RequestNext, StepNext, LockNext, AirNext, DeliveryNext,
     MirrorNext DEF Base, Undisturbed
<1>4. Inv => SyncedMeansMirrored
  BY DEF MirrorInv, Claimed, Shown, SyncedMeansMirrored
<1> HIDE DEF Inv
<1> QED BY <1>2, <1>3, <1>4, PTL DEF Spec

-----------------------------------------------------------------------------
\* A parked reconciliation.

\* No second replica runs: its pass may drop the flag, having read the request
\* before it was set.
OneWorker == \A v, w \in Workers : v = w

\* The job the worker made or found is the one the request names; every
\* unfinished job of a worker is.
QueueOwns == \A j \in Unfinished : jobs[j].auto # 0 => request.active = j
Own(w) ==
  /\ pc[w] \in {"enqueue", "plan", "insert"} => request.active = NoJob
  /\ pc[w] \in {"claimed", "supersede", "clear"} =>
       request.active \in {loc[w].active, NoJob}
  /\ pc[w] \in {"supersede", "clear"} => loc[w].active \in {loc[w].job, NoJob}
  /\ pc[w] = "clear" => loc[w].job \in JobId /\ jobs[loc[w].job].state = "superseded"
  /\ pc[w] \in Delivering => request.active \in {loc[w].job, NoJob}
  /\ pc[w] = "acknowledge" => loc[w].job \in JobId /\ Succ(loc[w].job)

\* A request parked for reconciliation meets the worker only to consume the
\* receipt of its own job.
Parked == request.reason = "reconciliation_required"
Park(w) ==
  Parked =>
    /\ request.state = "needs_attention"
    /\ pc[w] \in {"idle", "selected", "claimed"}
    /\ pc[w] # "idle" => request.active # NoJob /\ Succ(request.active)
ParkInv == QueueOwns /\ \A w \in Workers : Own(w) /\ Park(w)

\* Finished jobs stay as they are, and what is unfinished was, or is new.
FinishedStay ==
  \A j \in JobId : Exists(j) /\ jobs[j].state \in Finished =>
                     Exists(j)' /\ jobs'[j].state = jobs[j].state
NoneNew ==
  \A j \in Unfinished' : j \in Unfinished /\ jobs'[j].auto = jobs[j].auto

LEMMA RowsStay ==
  /\ UNCHANGED jobs => FinishedStay /\ NoneNew
  /\ \A j \in JobId : \A s : Rewrites(j, s) => FinishedStay /\ NoneNew
  /\ \A p : \A j \in JobId : Inserts(p, j) =>
       /\ FinishedStay /\ Unfinished' = {j}
       /\ jobs'[j].auto = (IF p \in Workers THEN loc[p].gen ELSE 0)
<1>1. UNCHANGED jobs => FinishedStay /\ NoneNew
  BY DEF FinishedStay, NoneNew, Unfinished, Created, Exists
<1>2. ASSUME NEW j \in JobId, NEW s, Rewrites(j, s)
      PROVE  FinishedStay /\ NoneNew
  <2>1. \A k \in JobId : Exists(k)' <=> Exists(k)
    BY <1>2 DEF Rewrites, Exists
  <2> QED BY <1>2, <2>1 DEF FinishedStay, NoneNew, Unfinished, Created, Rewrites
<1>3. ASSUME NEW p, NEW j \in JobId, Inserts(p, j)
      PROVE  FinishedStay /\ Unfinished' = {j}
  <2>1. \A k \in JobId \ {j} : (Exists(k)' <=> Exists(k)) /\ jobs'[k] = jobs[k]
    BY <1>3 DEF Inserts, Exists
  <2>2. ~Exists(j) /\ Exists(j)' /\ jobs'[j].state \notin Finished
    BY <1>3 DEF Inserts, Exists, Finished
  <2>3. Unfinished = {}
    BY <1>3 DEF Inserts
  <2> QED BY <2>1, <2>2, <2>3 DEF FinishedStay, Unfinished, Created
<1> QED BY <1>1, <1>2, <1>3 DEF Inserts

LEMMA OwnsKept ==
  ASSUME QueueOwns, NoneNew,
         \/ request'.active = request.active
         \/ \A j \in Unfinished' : jobs'[j].auto # 0 => request.active # j
  PROVE  QueueOwns'
BY DEF QueueOwns, NoneNew

\* The labels at which a worker owns nothing.
Aloof == {"idle", "selected", "attend", "retry", "reconcile", "retire"}

\* A worker that ends, or goes on with what it has.
LEMMA OwnStops ==
  ASSUME Control, IInv, NEW w \in Proc, Own(w), FinishedStay, NEW S, Stops(w, S),
         request'.active \in {request.active, NoJob},
         \A label \in S :
           \/ label \in Aloof
           \/ label \in {"plan", "insert"} /\ pc[w] \in {"enqueue", "plan"}
           \/ /\ label \in Delivering /\ pc[w] \in Delivering
              /\ label = "acknowledge" => jobs'[loc[w].job].state = "succeeded"
  PROVE  Own(w)'
<1>1. PICK label \in S :
        \E m : /\ Goes(w, label, m)
               /\ IF label = "idle" THEN m = FreshLocal ELSE SameWork(m, loc[w])
  BY DEF Stops
<1>2. pc'[w] = label
  BY <1>1 DEF Goes
<1>3. CASE label \in Aloof
  BY <1>2, <1>3 DEF Aloof, Own, Delivering
<1>4. CASE label \notin Aloof
  <2>1. loc'[w].job = loc[w].job
    BY <1>1, <1>4 DEF Goes, SameWork, Aloof
  <2>2. label = "acknowledge" =>
          loc'[w].job \in JobId /\ jobs'[loc'[w].job].state = "succeeded"
    <3> SUFFICES ASSUME label = "acknowledge"
                 PROVE  loc[w].job \in JobId /\ jobs'[loc[w].job].state = "succeeded"
      BY <2>1
    <3>1. pc[w] \in Delivering /\ jobs'[loc[w].job].state = "succeeded"
      BY DEF Delivering, Aloof
    <3>2. loc[w].job \in JobId
      BY <3>1, Known DEF IInv, JobsExist, AtJob, Delivering, Own
    <3> QED BY <3>1, <3>2
  <2> QED BY <1>2, <1>4, <2>1, <2>2 DEF Own, Aloof, Delivering, Succ
<1> QED BY <1>3, <1>4

\* A worker that stands still.
LEMMA OwnStands ==
  ASSUME IInv, NEW w \in Proc, Own(w), FinishedStay,
         pc'[w] = pc[w], loc'[w] = loc[w],
         request'.active \in {request.active, NoJob}
  PROVE  Own(w)'
<1>1. pc[w] \in {"clear", "acknowledge"} =>
        /\ loc[w].job \in JobId
        /\ Exists(loc[w].job) /\ jobs[loc[w].job].state \in Finished
  BY DEF Own, Succ, Finished, Exists, NoRow
<1>2. ASSUME NEW j, j = loc[w].job, pc[w] \in {"clear", "acknowledge"}
      PROVE  jobs'[loc'[w].job].state = jobs[loc[w].job].state
  BY <1>1, <1>2 DEF FinishedStay
<1> QED BY <1>2 DEF Own, Succ

\* The three programs of a worker keep what it owns.
LEMMA EnqueueOwns ==
  ASSUME IInv, QueueOwns, NEW w \in Workers, Own(w), Enqueue(w)
  PROVE  QueueOwns' /\ Own(w)'
<1> USE DEF Thrown, Aloof
<1>1. w \in Proc /\ Control /\ request \in Request /\ request.active = NoJob
  BY Known DEF Proc, Data, Enqueue, EnqueueEnter, UseExisting, PlanJob,
     PlanFault, InsertJob, Own
<1>2. ASSUME UNCHANGED <<request, jobs>>, NEW S, Stops(w, S),
             \A label \in S :
               label \in Aloof \/ (label \in {"plan", "insert"} /\ pc[w] \in {"enqueue", "plan"})
      PROVE  QueueOwns' /\ Own(w)'
  <2>1. FinishedStay /\ NoneNew
    BY <1>2, RowsStay
  <2> QED BY <1>1, <1>2, <2>1, OwnStops, OwnsKept
<1>3. ASSUME NEW k \in JobId, NEW g, request' = Attach(request, k, g),
             TakesJob(w, "syncing", k)
      PROVE  Own(w)' /\ request'.active = k
  BY <1>1, <1>3 DEF Attach, Request, TakesJob, Goes, Own, Delivering
<1>4. CASE EnqueueEnter(w) \/ PlanJob(w) \/ PlanFault(w)
  <2>1. UNCHANGED <<request, jobs>> /\ pc[w] \in {"enqueue", "plan"}
    BY <1>4 DEF EnqueueEnter, PlanJob, PlanFault, ledgerVars
  <2> QED BY <1>1, <1>2, <1>4, <2>1, EnqueueEnterMoves, PlanMoves
<1>5. CASE UseExisting(w)
  <2>1. UNCHANGED jobs
    BY <1>5 DEF UseExisting, ledgerVars
  <2>2. CASE Stops(w, Thrown) /\ UNCHANGED request
    BY <1>2, <2>1, <2>2
  <2>3. ASSUME NEW k, k = ExistingJob(w), NEW g, request' = Attach(request, k, g),
               TakesJob(w, "syncing", k)
        PROVE  QueueOwns' /\ Own(w)'
    <3>1. k \in JobId
      BY <1>1, <1>5, <2>3, ExistingReusable DEF UseExisting
    <3>2. \A j \in Unfinished' : request.active # j
      BY <1>1 DEF Unfinished, Created, JobId, NoJob
    <3> QED BY <1>3, <2>1, <2>3, <3>1, <3>2, RowsStay, OwnsKept
  <2> QED BY <1>1, <1>5, <2>2, <2>3, UseExistingMoves
<1>6. CASE InsertJob(w)
  <2>1. CASE Stops(w, Thrown) /\ UNCHANGED <<request, jobs>>
    BY <1>2, <2>1
  <2>2. ASSUME NEW k \in JobId, NEW g, Inserts(w, k), request' = Attach(request, k, g),
               TakesJob(w, "syncing", k)
        PROVE  QueueOwns' /\ Own(w)'
    BY <1>3, <2>2, RowsStay DEF QueueOwns
  <2> QED BY <1>1, <1>6, <2>1, <2>2, InsertRow
<1> QED BY <1>4, <1>5, <1>6 DEF Enqueue

LEMMA ApplyOwns ==
  ASSUME IInv, QueueOwns, NEW w \in Workers, Own(w), ApplyJob(w)
  PROVE  QueueOwns' /\ Own(w)'
<1> USE DEF Thrown, Answered, Aloof, Delivering
<1>1. /\ w \in Proc /\ Control /\ UNCHANGED request
      /\ loc[w].job \in JobId \cup {NoJob}
  BY Known, ApplyRemembers DEF Proc
<1>2. pc[w] \in Delivering /\ ~InsertJob(w)
  BY DEF ApplyJob, ApplyBusy, ApplyRefused, BlockRefused, ApplyEnter, Begin,
     NextStep, Mark, Send, Readback, Verify, FinalReadback, Succeed, ReadFault,
     SaveFailure, InsertJob
<1>3. FinishedStay /\ NoneNew
  BY <1>1, <1>2, RowActions, RowsStay DEF Act
<1>4. QueueOwns'
  BY <1>1, <1>3, OwnsKept
<1>5. ASSUME NEW S, Stops(w, S),
             \A label \in S : \/ label \in Aloof
                              \/ label \in Delivering \ {"acknowledge"}
      PROVE  Own(w)'
  BY <1>1, <1>2, <1>3, <1>5, OwnStops
<1>6. ASSUME Stops(w, Answered), jobs'[loc[w].job].state = "succeeded"
      PROVE  Own(w)'
  BY <1>1, <1>2, <1>3, <1>6, OwnStops
<1>7. ASSUME NEW S, HasLeft(w, S)
      PROVE  Own(w)'
  BY <1>1, <1>2, <1>7 DEF HasLeft, Goes, Own
<1>8. Own(w)'
  <2>1. CASE ApplyBusy(w) \/ ApplyRefused(w) \/ BlockRefused(w)
    BY <1>1, <1>5, <2>1, EarlyApplyMoves
  <2>2. CASE ApplyEnter(w)
    <3>1. UNCHANGED jobs
      BY <2>2 DEF ApplyEnter, ledgerVars
    <3> QED BY <1>1, <1>5, <1>6, <2>2, <3>1, ApplyEnterMoves
  <2>3. CASE Begin(w) \/ NextStep(w) \/ Verify(w)
    <3>1. \/ Stops(w, {"fail"}) \/ Stops(w, {"fail", "mark", "verify"})
          \/ \E S : HasLeft(w, S)
      BY <1>1, <2>3, BeginMoves, NextStepMoves, VerifyMoves
    <3> QED BY <1>5, <1>7, <3>1
  <2>4. CASE Succeed(w)
    BY <1>1, <1>5, <1>6, <2>4, SucceedRewrites DEF Rewrites
  <2>5. CASE Mark(w) \/ Send(w) \/ Readback(w) \/ FinalReadback(w)
             \/ ReadFault(w) \/ SaveFailure(w)
    BY <1>1, <1>5, <2>5, StepMoves
  <2> QED BY <2>1, <2>2, <2>3, <2>4, <2>5 DEF ApplyJob
<1> QED BY <1>4, <1>8

\* Where a pass goes on, by what it found.
LEMMA DecideOwns ==
  ASSUME IInv, NEW w \in Workers, Own(w), Decide(w)
  PROVE  Own(w)'
<1>1. /\ w \in Proc /\ Control /\ pc[w] = "claimed" /\ UNCHANGED <<request, jobs>>
      /\ request.active \in {loc[w].active, NoJob}
  BY Known DEF Proc, Decide, ledgerVars, Own
<1> SUFFICES ASSUME NEW k, k = Found(w)  PROVE Own(w)'
  OBVIOUS
<1>2. PICK label : TakesJob(w, label, k)
  BY <1>1, DecideMoves
<1>3. /\ pc'[w] = label /\ loc'[w].job = k /\ loc'[w].active = loc[w].active
  BY <1>2 DEF TakesJob, Goes, SameRequest
<1>4. /\ label \in {"enqueue", "attend", "clear", "supersede", "syncing"}
      /\ label = "enqueue" => k = NoJob
      /\ label = "clear" => k # NoJob /\ jobs[k].state = "superseded"
  <2>1. pc \in [Proc -> Labels]
    BY <1>1 DEF Control
  <2>2. \/ pc'[w] = "enqueue" /\ k = NoJob
        \/ pc'[w] \in {"attend", "supersede", "syncing"}
        \/ pc'[w] = "clear" /\ k # NoJob /\ jobs[k].state = "superseded"
    BY <1>1, <2>1 DEF Decide, Goto
  <2> QED BY <1>3, <2>2
<1>5. loc[w].active # NoJob => k = loc[w].active
  BY DEF Found
<1>6. k \in JobId \cup {NoJob}
  BY <1>1, FoundType
<1> QED BY <1>1, <1>3, <1>4, <1>5, <1>6 DEF Own, Delivering

LEMMA PassOwns ==
  ASSUME IInv, QueueOwns, NEW w \in Workers, Own(w), Park(w),
         Poll(w) \/ RunProduct(w) \/ Crash(w)
  PROVE  QueueOwns' /\ Own(w)'
<1> USE DEF Thrown, Aloof, Delivering
<1>1. /\ w \in Proc /\ Control /\ request \in Request
      /\ loc[w].job \in JobId \cup {NoJob} /\ loc[w].active \in JobId \cup {NoJob}
  BY Known DEF Proc, Data
<1>2. ASSUME UNCHANGED jobs, request'.active = request.active, NEW S, Stops(w, S),
             \A label \in S : label \in Aloof \/ (label = "apply" /\ pc[w] = "syncing")
      PROVE  QueueOwns' /\ Own(w)'
  <2>1. FinishedStay /\ NoneNew
    BY <1>2, RowsStay
  <2> QED BY <1>1, <1>2, <2>1, OwnStops, OwnsKept
<1>3. ASSUME UNCHANGED jobs, request'.active = NoJob,
             \A j \in Unfinished : jobs[j].auto # 0 => request.active # j
      PROVE  QueueOwns'
  <2>1. NoneNew
    BY <1>3, RowsStay
  <2>2. \A j \in Unfinished' : jobs'[j].auto # 0 => request.active # j
    BY <1>3, <2>1 DEF NoneNew
  <2> QED BY <2>1, <2>2, OwnsKept
<1>4. ASSUME UNCHANGED jobs, request'.active = NoJob, Stops(w, {"idle"}),
             NEW k, k \in Unfinished => FALSE, request.active \in {k, NoJob}
      PROVE  QueueOwns' /\ Own(w)'
  <2>1. FinishedStay
    BY <1>4, RowsStay
  <2>2. \A j \in Unfinished : request.active # j
    BY <1>4 DEF Unfinished, Created, JobId, NoJob
  <2> QED BY <1>1, <1>3, <1>4, <2>1, <2>2, OwnStops
<1>5. CASE Poll(w) \/ Syncing(w) \/ Attend(w) \/ RetryLater(w) \/ Crash(w)
  <2>1. UNCHANGED jobs /\ request'.active = request.active
    BY <1>1, <1>5 DEF Poll, Syncing, Attend, RetryLater, Crash, EndPass, ledgerVars,
       Attention, Retry, Request
  <2>2. CASE Syncing(w)
    <3>1. Stops(w, {"apply"}) /\ pc[w] = "syncing"
      BY <1>1, <2>2, PassMoves DEF Syncing
    <3> QED BY <1>2, <2>1, <3>1
  <2>3. CASE Poll(w) \/ Attend(w) \/ RetryLater(w) \/ Crash(w)
    <3>1. Stops(w, {"selected"}) \/ Stops(w, {"idle"})
      BY <1>1, <2>3, PassMoves
    <3> QED BY <1>2, <2>1, <3>1
  <2> QED BY <1>5, <2>2, <2>3
<1>6. CASE ConsumeReceipt(w)
  <2>1. /\ UNCHANGED jobs /\ request'.active = NoJob /\ Stops(w, {"idle"})
        /\ Succ(loc[w].active) /\ request.active \in {loc[w].active, NoJob}
    BY <1>1, <1>6, PassMoves DEF ConsumeReceipt, ledgerVars, Acknowledge, Request,
       Own, Succ
  <2>2. loc[w].active \notin Unfinished
    BY <2>1 DEF Unfinished, Finished, Succ
  <2> QED BY <1>4, <2>1, <2>2
<1>7. CASE AcknowledgeApplied(w)
  <2>1. /\ UNCHANGED jobs /\ request'.active = NoJob /\ Stops(w, {"idle"})
        /\ Succ(loc[w].job) /\ request.active \in {loc[w].job, NoJob}
    BY <1>1, <1>7, PassMoves DEF AcknowledgeApplied, EndPass, ledgerVars,
       Acknowledge, Request, Own
  <2>2. loc[w].job \notin Unfinished
    BY <2>1 DEF Unfinished, Finished, Succ
  <2> QED BY <1>4, <2>1, <2>2
<1>8. CASE ClearActive(w)
  <2>1. /\ UNCHANGED jobs /\ request'.active = NoJob
        /\ Stops(w, {"enqueue", "attend"})
        /\ jobs[loc[w].job].state = "superseded"
        /\ request.active \in {loc[w].job, NoJob}
    BY <1>1, <1>8, PassMoves DEF ClearActive, ledgerVars, Clear, Request, Own
  <2>2. \A j \in Unfinished : request.active # j
    BY <2>1 DEF Unfinished, Created, Finished, JobId, NoJob
  <2>3. pc'[w] \in {"enqueue", "attend"}
    BY <2>1, StopsLabel
  <2> QED BY <1>3, <2>1, <2>2, <2>3 DEF Own
<1>9. CASE SupersedeUndispatched(w)
  <2>1. /\ UNCHANGED request /\ loc[w].job \in JobId
        /\ pc[w] = "supersede" /\ Stops(w, Thrown \cup {"clear"})
    BY <1>1, <1>9, PassMoves, Known DEF SupersedeUndispatched, IInv, JobsExist, AtJob
  <2>2. FinishedStay /\ NoneNew
    BY <1>1, <1>9, <2>1, SupersedeRewrites, RowsStay
  <2>3. CASE \E code : Throw(w, code)
    <3>1. pc'[w] \in Thrown
      BY <1>1, <2>3, ThrowStops, StopsLabel
    <3> QED BY <2>1, <2>2, <3>1, OwnsKept DEF Own
  <2>4. CASE /\ Supersedable(loc[w].job) /\ UNCHANGED loc
             /\ jobs' = [jobs EXCEPT ![loc[w].job].state = "superseded"]
    <3> DEFINE b == jobs[loc[w].job]
    <3>1. b \in Job
      BY <1>1, <2>1, <2>4, Known DEF Data, Supersedable, NoRow
    <3>2. jobs'[loc[w].job] = [b EXCEPT !.state = "superseded"]
      BY <1>1, <2>1, <2>4, Known DEF Data
    <3>3. [b EXCEPT !.state = "superseded"].state = "superseded"
      <4> HIDE DEF b
      <4> QED BY <3>1 DEF Job
    <3>4. pc'[w] \in Thrown \cup {"clear"}
      BY <2>1, StopsLabel
    <3> QED BY <2>1, <2>2, <2>4, <3>2, <3>3, <3>4, OwnsKept DEF Own
  <2> QED BY <1>9, <2>3, <2>4 DEF SupersedeUndispatched
<1>10. CASE Claim(w)
  <2>1. UNCHANGED <<request, jobs>>
    BY <1>10 DEF Claim, ledgerVars
  <2>2. NoneNew
    BY <2>1, RowsStay
  <2>3. Own(w)'
    <3>1. CASE Goes(w, "idle", loc[w])
      BY <3>1 DEF Goes, Own
    <3>2. CASE \E m : Goes(w, "claimed", m) /\ m.active = request.active
      BY <2>1, <3>2 DEF Goes, Own
    <3> QED BY <1>1, <1>10, <3>1, <3>2, ClaimMoves
  <2> QED BY <2>1, <2>2, <2>3, OwnsKept
<1>11. CASE Decide(w)
  <2>1. UNCHANGED <<request, jobs>>
    BY <1>11 DEF Decide, ledgerVars
  <2> QED BY <1>1, <1>11, <2>1, DecideOwns, RowsStay, OwnsKept
<1> QED BY <1>5, <1>6, <1>7, <1>8, <1>9, <1>10, <1>11 DEF RunProduct

\* A step of the worker on a parked request: it goes to the receipt, or ends.
LEMMA ParkedMoves ==
  ASSUME IInv, NEW w \in Workers, Own(w), Park(w), Parked,
         Act(w) \/ Poll(w) \/ RunProduct(w) \/ Crash(w)
  PROVE  \/ /\ UNCHANGED <<request, jobs>> /\ pc'[w] \in {"idle", "selected", "claimed"}
            /\ pc'[w] # "idle" => request.active # NoJob /\ Succ(request.active)
         \/ ConsumeReceipt(w)
<1>1. /\ w \in Proc /\ Control /\ pc \in [Proc -> Labels]
      /\ loc[w].active \in JobId \cup {NoJob}
      /\ pc[w] \in {"idle", "selected", "claimed"} /\ request.state = "needs_attention"
      /\ pc[w] # "idle" => request.active # NoJob /\ Succ(request.active)
  BY Known DEF Proc, Control, Park
<1>2. CASE Poll(w)
  BY <1>1, <1>2 DEF Poll, Due, Goto, Succ, ledgerVars
<1>3. CASE Claim(w)
  BY <1>1, <1>3 DEF Claim, Goto, ledgerVars
<1>4. CASE Decide(w)
  BY <1>1, <1>4 DEF Decide, Own, Succ
<1>5. CASE Crash(w)
  BY <1>1, <1>5 DEF Crash, Goto, ledgerVars
<1>6. CASE Act(w) \/ SupersedeUndispatched(w) \/ ClearActive(w) \/ Syncing(w)
           \/ Attend(w) \/ RetryLater(w) \/ AcknowledgeApplied(w)
  BY <1>1, <1>6 DEF Act, Enqueue, EnqueueEnter, UseExisting, PlanJob, PlanFault,
     InsertJob, ApplyJob, ApplyBusy, ApplyRefused, BlockRefused, ApplyEnter,
     Begin, NextStep, Mark, Send, Readback, Verify, FinalReadback, Succeed,
     ReadFault, SaveFailure, SupersedeUndispatched, ClearActive, Syncing, Attend,
     RetryLater, AcknowledgeApplied, EndPass
<1> QED BY <1>2, <1>3, <1>4, <1>5, <1>6 DEF RunProduct

\* A step of the worker on any other request: it parks it when it ends.
LEMMA ParksAtEnd ==
  ASSUME IInv, NEW w \in Workers, ~Parked, Parked',
         Act(w) \/ Poll(w) \/ RunProduct(w) \/ Crash(w)
  PROVE  request'.state = "needs_attention" /\ pc'[w] = "idle"
<1>1. /\ w \in Proc /\ Control /\ request \in Request /\ request' # request
  BY Known DEF Proc, Data, Parked
<1>2. CASE Attend(w)
  <2>1. pc'[w] = "idle"
    BY <1>1, <1>2, PassMoves, StopsLabel
  <2>2. request' = Attention(request, loc[w].gen, loc[w].reason)
    BY <1>2 DEF Attend, EndPass
  <2>3. request'.state = "needs_attention"
    BY <1>1, <2>2 DEF Attention, Request, Parked
  <2> QED BY <2>1, <2>3
<1>3. \A j, g : Attach(request, j, g).reason = "none"
  BY <1>1 DEF Attach, Request
<1>4. CASE Act(w)
  <2>1. UseExisting(w) \/ InsertJob(w)
    BY <1>1, <1>4, ApplyRemembers, EnqueueRemembers DEF Act, Enqueue
  <2>2. \E j, g : request' = Attach(request, j, g)
    BY <1>1, <2>1, UseExistingMoves, InsertRow
  <2> QED BY <1>3, <2>2 DEF Parked
<1>5. CASE ConsumeReceipt(w) \/ AcknowledgeApplied(w) \/ ClearActive(w)
           \/ Syncing(w) \/ RetryLater(w)
  <2>1. request'.reason = "none"
    BY <1>1, <1>5 DEF ConsumeReceipt, AcknowledgeApplied, ClearActive, Syncing,
       RetryLater, EndPass, Acknowledge, Clear, Retry, Request
  <2> QED BY <2>1 DEF Parked
<1>6. CASE Poll(w) \/ Claim(w) \/ Decide(w) \/ SupersedeUndispatched(w) \/ Crash(w)
  BY <1>1, <1>6 DEF Poll, Claim, Decide, SupersedeUndispatched, Crash
<1> QED BY <1>2, <1>4, <1>5, <1>6 DEF RunProduct

\* The worker's part of the invariant.
LEMMA WorkerParks ==
  ASSUME OneWorker, IInv, ParkInv, NEW w \in Workers,
         Act(w) \/ Poll(w) \/ RunProduct(w) \/ Crash(w)
  PROVE  ParkInv'
<1>1. /\ QueueOwns /\ Own(w) /\ Park(w) /\ \A v \in Workers : v = w
  BY DEF ParkInv, OneWorker
<1>2. QueueOwns' /\ Own(w)'
  BY <1>1, EnqueueOwns, ApplyOwns, PassOwns DEF Act
<1>3. Park(w)'
  <2>1. CASE Parked /\ ~ConsumeReceipt(w)
    BY <1>1, <2>1, ParkedMoves DEF Park, Parked, Succ
  <2>2. CASE ConsumeReceipt(w)
    <3>1. request'.reason = "none"
      BY <2>2, SplitType DEF ConsumeReceipt, Acknowledge, IInv, Data, Request
    <3> QED BY <3>1 DEF Park, Parked
  <2>3. CASE ~Parked /\ Parked'
    BY <2>3, ParksAtEnd DEF Park
  <2> QED BY <2>1, <2>2, <2>3 DEF Park
<1> QED BY <1>1, <1>2, <1>3 DEF ParkInv

\* A person and the rest leave the worker where it is.
LEMMA StandsStill ==
  ASSUME IInv, ParkInv, QueueOwns', FinishedStay,
         \A w \in Workers : pc'[w] = pc[w] /\ loc'[w] = loc[w],
         \/ request'.reason # "reconciliation_required"
         \/ /\ request'.reason = request.reason
            /\ request'.state \in {request.state, "needs_attention"},
         request'.active = request.active \/ (request'.active = NoJob /\ ~Parked')
  PROVE  ParkInv'
<1>1. ASSUME NEW w \in Workers  PROVE Own(w)'
  BY <1>1, OwnStands DEF ParkInv, Proc
<1>2. ASSUME NEW w \in Workers  PROVE Park(w)'
  <2> SUFFICES ASSUME Parked'
               PROVE  /\ request'.state = "needs_attention"
                      /\ pc[w] \in {"idle", "selected", "claimed"}
                      /\ pc[w] # "idle" => request.active # NoJob /\ Succ(request.active)'
    BY DEF Park
  <2>1. /\ Parked /\ request'.state = "needs_attention" /\ request'.active = request.active
        /\ pc[w] \in {"idle", "selected", "claimed"}
        /\ pc[w] # "idle" => request.active # NoJob /\ Succ(request.active)
    BY DEF Parked, ParkInv, Park
  <2>2. request.active \in JobId \cup {NoJob}
    BY SplitType DEF IInv, Data, Request
  <2>3. ASSUME NEW j \in JobId, j = request.active, Succ(j)
        PROVE  Succ(request.active)'
    <3>1. jobs'[j].state = "succeeded"
      BY <2>3 DEF FinishedStay, Finished, Succ, Exists, NoRow
    <3> QED BY <2>1, <2>3, <3>1 DEF Succ
  <2> QED BY <2>1, <2>2, <2>3
<1> QED BY <1>1, <1>2 DEF ParkInv

\* A person's step leaves the request alone, but for the supersession that
\* releases the request parked for its job.
Releases(p) ==
  LET j == loc[p].job
  IN  /\ SupersedeCommit(p) /\ request' = Clear(request) /\ request.active = j
      /\ j \in Unfinished /\ Rewrites(j, "superseded")
      /\ steps' = [steps EXCEPT ![j] = Resolved(j, Dispatched(j))]

LEMMA OperatorRequest ==
  ASSUME IInv, NEW p \in Operators, Act(p) \/ Crash(p) \/ Recover(p)
  PROVE  UNCHANGED request \/ Releases(p)
<1>1. p \in Proc /\ p \notin Workers /\ Control
  BY ProcAssumption, Known DEF Proc
<1>2. CASE Enqueue(p)
  BY <1>1, <1>2, EnqueueRemembers, UseExistingMoves, InsertRow DEF Enqueue
<1>3. CASE ApplyJob(p)
  BY <1>1, <1>3, ApplyRemembers
<1>4. CASE SupersedeCommit(p)
  <2> SUFFICES ASSUME request' # request  PROVE Releases(p)
    OBVIOUS
  <2>1. /\ loc[p].job \in JobId /\ Exists(loc[p].job)
    BY <1>1, <1>4, Known DEF SupersedeCommit, AtJob
  <2>2. /\ jobs[loc[p].job].state = "uncertain"
        /\ request' = Clear(request) /\ request.active = loc[p].job
        /\ jobs' = [jobs EXCEPT ![loc[p].job].state = "superseded",
                                ![loc[p].job].failure = "data"]
        /\ steps' = [steps EXCEPT ![loc[p].job] =
                       Resolved(loc[p].job, Dispatched(loc[p].job))]
    BY <1>4 DEF SupersedeCommit
  <2>3. Rewrites(loc[p].job, "superseded")
    BY <1>1, <2>1, <2>2, Known, RowUpdate DEF Data, JobStates, Codes, Finished
  <2> QED BY <1>4, <2>1, <2>2, <2>3 DEF Releases, Unfinished, Created, Finished
<1>5. CASE Crash(p) \/ (Recover(p) /\ ~SupersedeCommit(p))
  BY <1>5 DEF Crash, Recover, ManualEnqueue, ManualApply, ReconcileObserve,
     ReconcileCommit, SupersedeObserve
<1> QED BY <1>2, <1>3, <1>4, <1>5 DEF Act

\* A person's part.
LEMMA OperatorParks ==
  ASSUME IInv, ParkInv, NEW p \in Operators, Act(p) \/ Crash(p) \/ Recover(p)
  PROVE  ParkInv'
<1>1. /\ p \in Proc /\ p \notin Workers /\ Others(p)
      /\ \A w \in Workers : w \in Proc
  BY ProcAssumption, WhereFrom DEF Proc
<1>2. \A w \in Workers : pc'[w] = pc[w] /\ loc'[w] = loc[w]
  BY <1>1 DEF Others
<1>3. /\ FinishedStay
      /\ NoneNew \/ \A j \in Unfinished' : jobs'[j].auto = 0
  BY <1>1, RowActions, RowsStay
<1>4. CASE UNCHANGED request
  <2>1. QueueOwns'
    BY <1>3, <1>4, OwnsKept DEF ParkInv, QueueOwns
  <2> QED BY <1>2, <1>3, <1>4, <2>1, StandsStill
<1>5. CASE Releases(p)
  <2>1. request'.active = NoJob /\ request'.reason = "none"
    BY <1>5, SplitType DEF Releases, Clear, IInv, Data, Request
  <2>2. NoneNew
    BY <1>5, RowsStay DEF Releases, Unfinished, Created
  <2>3. loc[p].job \notin Unfinished'
    BY <1>5 DEF Releases, Rewrites, Unfinished, Finished
  <2>4. \A j \in Unfinished' : jobs'[j].auto # 0 => request.active # j
    BY <1>5, <2>3 DEF Releases
  <2>5. QueueOwns'
    BY <2>2, <2>4, OwnsKept DEF ParkInv
  <2> QED BY <1>2, <1>3, <2>1, <2>5, StandsStill DEF Parked
<1> QED BY <1>4, <1>5, OperatorRequest

\* What happens around the processes.
LEMMA OutsideRequest ==
  ASSUME IInv, LoseSessions \/ Environment \/ Quiet \/ UNCHANGED vars
  PROVE  /\ UNCHANGED <<jobs, pc, loc>> /\ request'.active = request.active
         /\ \/ UNCHANGED request
            \/ /\ request'.reason = "reconciliation_required" <=> Parked
               /\ Parked => request'.state = "needs_attention"
<1>1. /\ UNCHANGED <<jobs, pc, loc>>
      /\ request' = request \/ request' = Bump(request)
  BY DEF LoseSessions, Environment, Edit, Touch, Retire, Publish,
     ProcessHandoff, Disable, Deliver, Lose, ForeignWrite, Quiet, vars,
     RequestSync, ledgerVars
<1>2. request \in Request
  BY SplitType DEF IInv, Data
<1>3. CASE request' = Bump(request)
  <2> DEFINE s == request.reason = "reconciliation_required"
             d == request.desired + 1
             state == IF s THEN "needs_attention" ELSE "pending"
             reason == IF s THEN request.reason ELSE "none"
  <2>1. request' = [request EXCEPT !.desired = d, !.state = state, !.reason = reason]
    BY <1>3 DEF Bump
  <2>2. /\ request'.active = request.active /\ request'.state = state
        /\ request'.reason = reason
    <3> HIDE DEF d, state, reason
    <3> QED BY <1>2, <2>1 DEF Request
  <2> QED BY <1>1, <2>2 DEF Parked
<1> QED BY <1>1, <1>3

LEMMA OutsideParks ==
  ASSUME IInv, ParkInv, LoseSessions \/ Environment \/ Quiet \/ UNCHANGED vars
  PROVE  ParkInv'
<1>1. FinishedStay /\ NoneNew
  BY OutsideRequest, RowsStay
<1>2. QueueOwns'
  BY <1>1, OutsideRequest, OwnsKept DEF ParkInv
<1>3. \/ request'.reason # "reconciliation_required"
      \/ /\ request'.reason = request.reason
         /\ request'.state \in {request.state, "needs_attention"}
  BY OutsideRequest DEF Parked
<1> QED BY <1>1, <1>2, <1>3, OutsideRequest, StandsStill

LEMMA ParkInit == Init => ParkInv
<1> SUFFICES ASSUME Init  PROVE ParkInv
  OBVIOUS
<1>1. \A w \in Workers : pc[w] = "idle"
  BY DEF Init, Proc
<1>2. Unfinished = {} /\ ~Parked
  BY DEF Init, InitialRequest, Unfinished, Created, Exists, Parked
<1> QED BY <1>1, <1>2 DEF ParkInv, QueueOwns, Own, Park, Delivering

LEMMA ParkNext ==
  ASSUME OneWorker, IInv, ParkInv, [Next]_vars
  PROVE  ParkInv'
BY WorkerParks, OperatorParks, OutsideParks DEF Next, Proc

-----------------------------------------------------------------------------
\* Nobody's dispatch is forgotten.

\* A supersession resolves the only job that may have markers.
LEMMA ReleasedIsResolved ==
  ASSUME IInv, StepInv, LockInv, NEW p \in Operators, Releases(p), NEW k \in JobId,
         NEW f \in Fields
  PROVE  steps'[k][f] # "dispatched"
<1> DEFINE j == loc[p].job
<1>1. /\ j \in JobId /\ j \in Unfinished /\ steps \in [JobId -> [Fields -> StepStates]]
      /\ steps' = [steps EXCEPT ![j] = Resolved(j, Dispatched(j))]
  BY SplitType DEF Releases, IInv, Data, Unfinished, Created
<1> SUFFICES ASSUME steps'[k][f] = "dispatched"  PROVE FALSE
  OBVIOUS
<1> HIDE DEF j
<1>2. CASE k = j
  BY <1>1, <1>2 DEF Resolved, Dispatched
<1>3. CASE k # j
  <2>1. k \in Unfinished
    BY <1>1, <1>3, DispatchedLives
  <2> QED BY <1>1, <1>3, <2>1 DEF StepInv, StepRows, OneLane
<1> QED BY <1>2, <1>3

\* A receipt is consumed: what is unresolved is a person's.
LEMMA ReceiptOfAnother ==
  ASSUME IInv, StepInv, LockInv, ParkInv, Parked, NEW w \in Workers,
         ConsumeReceipt(w), NEW k \in JobId, NEW f \in Fields,
         steps'[k][f] = "dispatched"
  PROVE  /\ request.active # NoJob /\ jobs[request.active].state = "succeeded"
         /\ jobs[k].auto = 0
<1>1. UNCHANGED <<jobs, steps>> /\ pc[w] = "claimed"
  BY DEF ConsumeReceipt, ledgerVars
<1>2. request.active # NoJob /\ Succ(request.active)
  BY <1>1 DEF ParkInv, Park
<1>3. k \in Unfinished
  BY <1>1, DispatchedLives
<1>4. k # request.active
  BY <1>2, <1>3 DEF Succ, Unfinished, Finished
<1> QED BY <1>2, <1>3, <1>4 DEF ParkInv, QueueOwns, Succ

\* With one replica and while sessions are kept, a request parked for
\* reconciliation stays parked, through edits, publications, handoffs, crashes
\* and passes of the worker, until every dispatch is resolved; only the receipt
\* of its own succeeded job releases it earlier, and then what is unresolved
\* was planned by a person.
THEOREM ReconciliationSticks ==
  ASSUME OneWorker, NoLoss
  PROVE  Spec => StickyReconciliation
<1> DEFINE Inv == IInv /\ StepInv /\ LockInv /\ ParkInv
           Sticks == request.reason = "reconciliation_required"
                       => \/ request'.reason = "reconciliation_required"
                          \/ \A j \in JobId : Dispatched(j)' # {} =>
                               /\ request.active # NoJob /\ jobs[request.active].state = "succeeded"
                               /\ jobs[j].auto = 0
<1>1. Init => Inv
  BY InitLemma, StepInit, LockInit, ParkInit
<1>2. Inv /\ [Next]_vars => Inv'
  BY NextLemma, StepNext, LockNext, ParkNext
<1>3. Inv /\ [Next]_vars => Sticks
  <2> SUFFICES ASSUME Inv, [Next]_vars, Parked, ~Parked'  PROVE Sticks
    BY DEF Parked
  <2>1. ASSUME NEW w \in Workers, Act(w) \/ Poll(w) \/ RunProduct(w) \/ Crash(w)
        PROVE  Sticks
    <3>1. ConsumeReceipt(w)
      BY <2>1, ParkedMoves DEF ParkInv, Parked
    <3> QED BY <3>1, ReceiptOfAnother DEF Dispatched
  <2>2. ASSUME NEW p \in Operators, Act(p) \/ Crash(p) \/ Recover(p)
        PROVE  Sticks
    BY <2>2, OperatorRequest, ReleasedIsResolved DEF Parked, Dispatched
  <2>3. CASE LoseSessions \/ Environment \/ Quiet \/ UNCHANGED vars
    BY <2>3, OutsideRequest DEF Parked
  <2> QED BY <2>1, <2>2, <2>3 DEF Next, Proc
<1> HIDE DEF Inv
<1>4. Spec => [][Sticks]_vars
  BY <1>1, <1>2, <1>3, PTL DEF Spec
<1> QED BY <1>4 DEF StickyReconciliation
=============================================================================
