------------------------------ MODULE SyncJob -------------------------------
(***************************************************************************)
(* sync-job.service.js: enqueue, applyJob and supersedeUndispatched, run   *)
(* by an automatic worker or by a person.  Each action is one short        *)
(* transaction, one Magento read or one Magento write; the process holds   *)
(* only session locks between them, and works from what it read earlier    *)
(* (loc).  A Magento read is merged with the local step that follows it.   *)
(***************************************************************************)
EXTENDS SyncLedger

\* transient() of the worker: codes it retries.
Transient == {"read", "busy", "amber", "disabled"}

\* stale() of the worker: the snapshot or the publication moved.
Stale == {"amber", "binding"}

\* Codes that block a job in applyJob's catch.
Blocking == {"amber", "binding", "remote", "unresolved"}

-----------------------------------------------------------------------------
\* Leaving enqueue or applyJob.

Goto(p, label) == pc' = [pc EXCEPT ![p] = label]

\* The process continues at label, a worker remembering why; at "idle" the
\* call is over and its local variables are gone.
Leave(p, label, reason) ==
  /\ Goto(p, label)
  /\ loc' = [loc EXCEPT ![p] = IF label = "idle" THEN FreshLocal
                               ELSE [@ EXCEPT !.reason = reason]]

\* The attention reason of the worker's catch.
ThrownReason(code) ==
  IF code = "unresolved" THEN "reconciliation_required"
  ELSE IF code = "other" THEN "unexpected_failure" ELSE "data_or_binding"

\* The error reaches the caller: the worker's catch, or the person.
Throw(p, code) ==
  IF p \in Operators THEN Leave(p, "idle", "none")
  ELSE IF code \in Transient THEN Leave(p, "retry", "none")
  ELSE Leave(p, "attend", ThrownReason(code))

\* applyJob returns a job in this state: what the worker does next.
Return(p, state, code) ==
  IF p \in Operators THEN Leave(p, "idle", "none")
  ELSE IF state = "succeeded" THEN Leave(p, "acknowledge", "none")
  ELSE IF state = "uncertain" THEN Leave(p, "attend", "reconciliation_required")
  ELSE IF code \in Stale \/ (state = "retryable" /\ code \in Transient)
       THEN Leave(p, "retry", "none")
  ELSE Leave(p, "attend",
             IF code = "other" THEN "unexpected_failure" ELSE "data_or_binding")

\* applyJob's catch is entered with this code; the SKU lock is still held.
Fail(p, code) ==
  /\ Goto(p, "fail")
  /\ loc' = [loc EXCEPT ![p].code = code]

\* Mutant: guard() keeps the SKU lock.
KeepSku(p) == UNCHANGED lockVars

UnlockSku(p) == skuLock' = Unlocked(skuLock, p) /\ UNCHANGED idLock

Spend(kind) ==
  /\ \E b \in Budgets : spent[kind] < b[kind] /\ \A k \in Kinds : spent[k] <= b[k]
  /\ spent' = [spent EXCEPT ![kind] = @ + 1]

-----------------------------------------------------------------------------
\* enqueue

\* guard(): the blocking SKU lock, then readState.
EnqueueEnter(p) ==
  LET code == ReadStateCheck(p, loc[p].binding)
  IN  /\ pc[p] = "enqueue"
      /\ SkuFree
      /\ IF code = "none"
         THEN /\ skuLock' = p
              /\ Goto(p, "plan")
              /\ loc' = [loc EXCEPT ![p].snap = product]
         ELSE Throw(p, code) /\ UNCHANGED skuLock
      /\ UNCHANGED <<amberVars, request, ledgerVars, magentoVars, idLock,
                     historyVars, spent>>

\* Mutant: content alone identifies a succeeded job.
ReusableByContent(p, j) ==
  /\ Exists(j) /\ jobs[j].state # "superseded"
  /\ jobs[j].state = "succeeded" =>
       /\ jobs[j].binding = loc[p].binding
       /\ jobs[j].amber = loc[p].snap

\* Mutant: unfinished work is looked for by its content too.
ReusableIfEqual(p, j) ==
  /\ Exists(j) /\ jobs[j].state # "superseded"
  /\ jobs[j].binding = loc[p].binding
  /\ jobs[j].amber = loc[p].snap

\* The newest job enqueue returns instead of making another.
Reusable(p, j) ==
  /\ Exists(j) /\ jobs[j].state # "superseded"
  /\ jobs[j].state = "succeeded" =>
       /\ jobs[j].binding = loc[p].binding
       /\ jobs[j].amber = loc[p].snap
       /\ p \in Workers => jobs[j].auto = loc[p].gen
Newest(S) == CHOOSE j \in S : \A k \in S : k <= j
ExistingJob(p) ==
  LET found == {j \in JobId : Reusable(p, j)}
  IN  IF found = {} THEN NoJob ELSE Newest(found)

\* An existing job is returned, once its evidence is that of the snapshot;
\* the worker's request is attached to it in one transaction.
UseExisting(p) ==
  LET j    == ExistingJob(p)
      code == IF jobs[j].amber # loc[p].snap THEN "amber"
              ELSE IF jobs[j].binding # loc[p].binding THEN "binding"
              ELSE IF p \in Workers THEN AssertSnapshot(p) ELSE "none"
  IN  /\ pc[p] = "plan" /\ j # NoJob
      /\ IF code # "none" THEN Throw(p, code) /\ UNCHANGED request
         ELSE IF p \in Workers
         THEN /\ request' = Attach(request, j, loc[p].gen)
              /\ Goto(p, "syncing")
              /\ loc' = [loc EXCEPT ![p].job = j]
         ELSE Leave(p, "idle", "none") /\ UNCHANGED request
      /\ UnlockSku(p)
      /\ UNCHANGED <<amberVars, ledgerVars, magentoVars, historyVars, spent>>

\* Otherwise Magento is observed and a plan made; an inactive product has none.
PlanJob(p) ==
  /\ pc[p] = "plan" /\ ExistingJob(p) = NoJob
  /\ IF loc[p].snap.active
     THEN /\ Goto(p, "insert")
          /\ loc' = [loc EXCEPT ![p].ops  = PlanOps(loc[p].snap.input),
                                ![p].base = remote]
          /\ UNCHANGED lockVars
     ELSE Throw(p, "data") /\ UnlockSku(p)
  /\ UNCHANGED <<amberVars, request, ledgerVars, magentoVars, historyVars,
                 spent>>

\* The observation fails, or the report is not sendable.
PlanFault(p) ==
  /\ pc[p] = "plan" /\ ExistingJob(p) = NoJob
  /\ Spend("fault")
  /\ \E code \in {"read", "data"} : Throw(p, code)
  /\ UnlockSku(p)
  /\ UNCHANGED <<amberVars, request, ledgerVars, magentoVars, historyVars>>

\* magento_sync_one_unfinished and the two indexes of job identity: one job
\* per generation and binding, one per content and binding of a person's.
IndexViolation(p) ==
  \/ Unfinished # {}
  \/ \E j \in Created :
       /\ jobs[j].state # "superseded" /\ jobs[j].binding = loc[p].binding
       /\ IF p \in Workers
          THEN jobs[j].auto = loc[p].gen
          ELSE jobs[j].auto = 0 /\ jobs[j].amber = loc[p].snap

\* The job and its attachment commit together, if the snapshot still holds.
InsertJob(p) ==
  LET code == IF p \in Workers THEN AssertSnapshot(p) ELSE Revalidate(p)
      auto == IF p \in Workers THEN loc[p].gen ELSE 0
  IN  /\ pc[p] = "insert"
      /\ IF code # "none" \/ IndexViolation(p)
         THEN /\ Throw(p, IF code # "none" THEN code ELSE "other")
              /\ UNCHANGED <<request, jobs>>
         ELSE \E j \in JobId :
              /\ ~Exists(j) /\ \A k \in JobId : k < j => Exists(k)
              /\ jobs' = [jobs EXCEPT ![j] =
                   [state |-> "queued", auto |-> auto, amber |-> loc[p].snap,
                    binding |-> loc[p].binding, ops |-> loc[p].ops,
                    base |-> loc[p].base, failure |-> "none"]]
              /\ IF p \in Workers
                 THEN /\ request' = Attach(request, j, loc[p].gen)
                      /\ Goto(p, "syncing")
                      /\ loc' = [loc EXCEPT ![p].job = j]
                 ELSE Leave(p, "idle", "none") /\ UNCHANGED request
      /\ UnlockSku(p)
      /\ UNCHANGED <<amberVars, steps, magentoVars, historyVars, spent>>

-----------------------------------------------------------------------------
\* applyJob

\* guard(): the SKU lock is tried, never awaited.
ApplyBusy(p) ==
  /\ pc[p] = "apply" /\ ~SkuFree
  /\ Throw(p, "busy")
  /\ UNCHANGED <<amberVars, request, ledgerVars, magentoVars, lockVars,
                 historyVars, spent>>

\* A job whose binding is not the published one is refused inside guard();
\* applyJob's outer catch runs after the lock was released.
ApplyRefused(p) ==
  LET j == loc[p].job
  IN  /\ pc[p] = "apply" /\ SkuFree
      /\ ReadStateCheck(p, jobs[j].binding) = "binding"
      /\ IF jobs[j].state = "succeeded" THEN Throw(p, "binding")
                                        ELSE Leave(p, "refused", "none")
      /\ UNCHANGED <<amberVars, request, ledgerVars, magentoVars, lockVars,
                     historyVars, spent>>

\* saveState('blocked') of the outer catch: no lock, no look at the steps.
BlockRefused(p) ==
  LET j == loc[p].job
  IN  /\ pc[p] = "refused"
      /\ IF jobs[j].state \in Finished
         THEN Throw(p, "other") /\ UNCHANGED jobs
         ELSE /\ jobs' = [jobs EXCEPT ![j].state = "blocked",
                                      ![j].failure = "binding"]
              /\ Return(p, "blocked", "binding")
      /\ UNCHANGED <<amberVars, request, steps, magentoVars, lockVars,
                     historyVars, spent>>

\* What applyJob finds under the lock, before its try block.
EntryCode(p) ==
  LET j    == loc[p].job
      read == ReadStateCheck(p, jobs[j].binding)
  IN  IF read # "none" THEN read
      ELSE IF jobs[j].state = "superseded" THEN "data"
      ELSE IF loc[p].reviewed /\ Dispatched(j) # {} THEN "unresolved"
      ELSE IF p \in Workers
              /\ (jobs[j].state = "uncertain" \/ Dispatched(j) # {})
      THEN "unresolved" ELSE "none"

ApplyEnter(p) ==
  LET j    == loc[p].job
      code == EntryCode(p)
  IN  /\ pc[p] = "apply" /\ SkuFree /\ code # "binding"
      /\ IF code = "none" /\ jobs[j].state # "succeeded"
         THEN /\ skuLock' = p
              /\ Goto(p, IF jobs[j].amber = product THEN "begin" ELSE "fail")
              /\ loc' = [loc EXCEPT ![p].snap = product,
                                    ![p].binding = jobs[j].binding,
                                    ![p].code = "amber"]
         ELSE /\ UNCHANGED skuLock
              /\ IF code = "none" THEN Return(p, "succeeded", "none")
                                  ELSE Throw(p, code)
      /\ UNCHANGED <<amberVars, request, ledgerVars, magentoVars, idLock,
                     historyVars, spent>>

\* Observation, saveState('running'), assertSnapshot, replan and preflight.
Begin(p) ==
  LET j       == loc[p].job
      refusal == IF p \in Operators THEN Revalidate(p) ELSE "none"
      recheck == IF p \in Workers THEN AssertSnapshot(p) ELSE "none"
  IN  /\ pc[p] = "begin"
      /\ IF refusal # "none" \/ jobs[j].state \in Finished
         THEN /\ Fail(p, IF refusal # "none" THEN refusal ELSE "other")
              /\ UNCHANGED jobs
         ELSE /\ jobs' = [jobs EXCEPT ![j].state = "running",
                                      ![j].failure = "none"]
              /\ IF recheck # "none" THEN Fail(p, recheck)
                 ELSE IF ~Preflight(j) THEN Fail(p, "remote")
                 ELSE /\ Goto(p, "step")
                      /\ loc' = [loc EXCEPT ![p].todo = jobs[j].ops]
      /\ UNCHANGED <<amberVars, request, steps, magentoVars, lockVars,
                     historyVars, spent>>

\* The next operation: fresh read, preserve, then its step row decides.
NextStep(p) ==
  LET j == loc[p].job
      f == First(loc[p].todo)
  IN  /\ pc[p] = "step" /\ loc[p].todo # {}
      /\ IF ~Preserved(j) THEN Fail(p, "remote")
         ELSE IF ~Matches(j, f)
         THEN IF steps[j][f] # "none" THEN Fail(p, "unresolved")
              ELSE IF ~Precondition(j, f) THEN Fail(p, "remote")
              ELSE Goto(p, "mark") /\ UNCHANGED loc
         ELSE IF steps[j][f] = "verified"
              THEN /\ loc' = [loc EXCEPT ![p].todo = @ \ {f}]
                   /\ UNCHANGED pc
              ELSE Goto(p, "verify") /\ UNCHANGED loc
      /\ UNCHANGED <<amberVars, request, ledgerVars, magentoVars, lockVars,
                     historyVars, spent>>

\* The checks of the transaction that commits the dispatch marker.
MarkCode(p) ==
  LET j == loc[p].job
  IN  IF p \in Operators THEN Revalidate(p)
      ELSE IF ~gate THEN "disabled"
      ELSE IF published # jobs[j].binding THEN "binding" ELSE "none"

\* Mutants: the marker is upserted, always or while it is not verified.
StepUpserted(j, f) == TRUE
StepReopened(j, f) == steps[j][f] # "verified"

\* The primary key of magento_sync_steps.
StepFree(j, f) == steps[j][f] = "none"

\* The marker is committed before HTTP; the reply of the commit may be lost.
Mark(p) ==
  LET j    == loc[p].job
      f    == First(loc[p].todo)
      code == IF MarkCode(p) # "none" THEN MarkCode(p)
              ELSE IF StepFree(j, f) THEN "none" ELSE "other"
  IN  /\ pc[p] = "mark"
      /\ IF code # "none" THEN Fail(p, code) /\ UNCHANGED <<steps, spent>>
         ELSE /\ steps' = [steps EXCEPT ![j][f] = "dispatched"]
              /\ \/ Goto(p, "send") /\ UNCHANGED <<loc, spent>>
                 \/ Spend("fault") /\ Fail(p, "other")
      /\ UNCHANGED <<amberVars, request, jobs, magentoVars, lockVars,
                     historyVars>>

\* One HTTP mutation leaves.
Send(p) ==
  LET j == loc[p].job
      f == First(loc[p].todo)
  IN  /\ pc[p] = "send"
      /\ wire' = wire \cup {<<j, f>>}
      /\ sent' = [sent EXCEPT ![j][f] = @ + 1]
      /\ Goto(p, "readback")
      /\ UNCHANGED <<amberVars, request, ledgerVars, remote, lockVars, loc,
                     historyVars, spent>>

\* Whatever dispatch returned, a fresh read decides.
Readback(p) ==
  LET j == loc[p].job
      f == First(loc[p].todo)
  IN  /\ pc[p] = "readback"
      /\ IF Preserved(j) /\ Matches(j, f)
         THEN Goto(p, "verify") /\ UNCHANGED loc
         ELSE Fail(p, "remote")
      /\ UNCHANGED <<amberVars, request, ledgerVars, magentoVars, lockVars,
                     historyVars, spent>>

\* The step becomes verified.  The step guard refuses a second verification,
\* the job guard a finished job.
Verify(p) ==
  LET j == loc[p].job
      f == First(loc[p].todo)
  IN  /\ pc[p] = "verify"
      /\ IF steps[j][f] = "verified" \/ jobs[j].state \in Finished
         THEN Fail(p, "other") /\ UNCHANGED steps
         ELSE /\ steps' = [steps EXCEPT ![j][f] = "verified"]
              /\ Goto(p, "step")
              /\ loc' = [loc EXCEPT ![p].todo = @ \ {f}]
      /\ UNCHANGED <<amberVars, request, jobs, magentoVars, lockVars,
                     historyVars, spent>>

\* Every operation done: the final readback.
FinalReadback(p) ==
  /\ pc[p] = "step" /\ loc[p].todo = {}
  /\ IF VerifiedAll(loc[p].job) THEN Goto(p, "succeed") /\ UNCHANGED loc
                                ELSE Fail(p, "remote")
  /\ UNCHANGED <<amberVars, request, ledgerVars, magentoVars, lockVars,
                 historyVars, spent>>

\* saveState('succeeded'); the reply of the commit may be lost.
Succeed(p) ==
  LET j       == loc[p].job
      refusal == IF p \in Operators THEN Revalidate(p) ELSE "none"
  IN  /\ pc[p] = "succeed"
      /\ IF refusal # "none" \/ jobs[j].state \in Finished
         THEN /\ Fail(p, IF refusal # "none" THEN refusal ELSE "other")
              /\ UNCHANGED <<jobs, acked, lockVars, spent>>
         ELSE /\ jobs' = [jobs EXCEPT ![j].state = "succeeded",
                                      ![j].failure = "none"]
              /\ acked' = jobs[j].amber.input
              /\ \/ /\ Return(p, "succeeded", "none")
                    /\ UnlockSku(p)
                    /\ UNCHANGED spent
                 \/ Spend("fault") /\ Fail(p, "other") /\ UNCHANGED lockVars
      /\ UNCHANGED <<amberVars, request, steps, magentoVars, refuted>>

\* A Magento read fails, or the plan is refused for another reason.
ReadFault(p) ==
  /\ pc[p] \in {"begin", "step", "readback"}
  /\ Spend("fault")
  /\ \E code \in {"read", "data"} : Fail(p, code)
  /\ UNCHANGED <<amberVars, request, ledgerVars, magentoVars, lockVars,
                 historyVars>>

\* The state applyJob's catch records.
FailedState(j, code) ==
  IF Dispatched(j) # {} THEN "uncertain"
  ELSE IF code \in Blocking THEN "blocked" ELSE "retryable"

\* The catch, then guard() releases the SKU lock.
SaveFailure(p) ==
  LET j     == loc[p].job
      state == FailedState(j, loc[p].code)
  IN  /\ pc[p] = "fail"
      /\ IF jobs[j].state \in Finished
         THEN Throw(p, "other") /\ UNCHANGED jobs
         ELSE /\ jobs' = [jobs EXCEPT ![j].state = state,
                                      ![j].failure = loc[p].code]
              /\ Return(p, state, loc[p].code)
      /\ UnlockSku(p)
      /\ UNCHANGED <<amberVars, request, steps, magentoVars, historyVars,
                     spent>>

-----------------------------------------------------------------------------
\* supersedeUndispatched

\* guard_magento_sync_supersession, first part: no evidence at all.
Supersedable(j) ==
  /\ jobs[j].auto # 0
  /\ jobs[j].state \in {"queued", "running", "retryable", "blocked"}
  /\ ~HasStep(j)

SupersedeUndispatched(p) ==
  LET j == loc[p].job
  IN  /\ pc[p] = "supersede"
      /\ IF ~SkuFree THEN Throw(p, "busy") /\ UNCHANGED jobs
         ELSE IF ~gate THEN Throw(p, "disabled") /\ UNCHANGED jobs
         ELSE IF ~Supersedable(j) THEN Throw(p, "unresolved") /\ UNCHANGED jobs
         ELSE /\ jobs' = [jobs EXCEPT ![j].state = "superseded"]
              /\ Goto(p, "clear") /\ UNCHANGED loc
      /\ UNCHANGED <<amberVars, request, steps, magentoVars, lockVars,
                     historyVars, spent>>

-----------------------------------------------------------------------------
Enqueue(p) == EnqueueEnter(p) \/ UseExisting(p) \/ PlanJob(p) \/ PlanFault(p)
              \/ InsertJob(p)

ApplyJob(p) ==
  \/ ApplyBusy(p) \/ ApplyRefused(p) \/ BlockRefused(p) \/ ApplyEnter(p)
  \/ Begin(p) \/ NextStep(p) \/ Mark(p) \/ Send(p) \/ Readback(p)
  \/ Verify(p) \/ FinalReadback(p) \/ Succeed(p) \/ ReadFault(p)
  \/ SaveFailure(p)

=============================================================================
