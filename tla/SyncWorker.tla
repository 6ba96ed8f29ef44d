----------------------------- MODULE SyncWorker -----------------------------
(***************************************************************************)
(* automatic-sync-worker.js: tick() selects the request when it is due,    *)
(* runProduct() takes the identity lock, reads the request once, decides   *)
(* from the job and step rows, and runs enqueue and applyJob of SyncJob.   *)
(* The request row it read is used until the pass ends, whatever edits     *)
(* commit meanwhile.  Backoff delays are abstracted: a due time may always *)
(* have come.                                                              *)
(***************************************************************************)
EXTENDS SyncJob

\* Mutant: a request that waits for a person is never looked at.
DueUnattended == request.state \in {"pending", "syncing"}

\* tick(): pending work, or a finished job whose receipt was not consumed.
Due ==
  \/ request.state \in {"pending", "syncing"}
  \/ /\ request.state = "needs_attention"
     /\ request.active # NoJob /\ jobs[request.active].state = "succeeded"

Poll(p) ==
  /\ pc[p] = "idle" /\ gate /\ Due
  /\ Goto(p, "selected")
  /\ UNCHANGED <<amberVars, request, ledgerVars, magentoVars, lockVars, loc,
                 historyVars, spent>>

\* runProduct() up to the read of the request row.
Claim(p) ==
  /\ pc[p] = "selected"
  /\ IF idLock # NoProc \/ ~gate \/ request.state = "synced"
     THEN Goto(p, "idle") /\ UNCHANGED <<idLock, loc>>
     ELSE /\ idLock' = p
          /\ Goto(p, "claimed")
          /\ loc' = [loc EXCEPT ![p].gen = request.desired,
                                ![p].active = request.active,
                                ![p].activeGen = request.activeGen]
  /\ UNCHANGED <<amberVars, request, ledgerVars, magentoVars, skuLock,
                 historyVars, spent>>

\* The active job of the request read, or the SKU's unfinished job.
Found(p) ==
  IF loc[p].active # NoJob THEN loc[p].active
  ELSE IF Unfinished = {} THEN NoJob ELSE Newest(Unfinished)

\* The job was planned for another generation or publication, or failed
\* because one of them moved.
Obsolete(p, j) ==
  \/ jobs[j].auto # loc[p].gen
  \/ jobs[j].binding # published
  \/ jobs[j].failure \in Stale

\* Mutant: the job row alone tells whether a dispatch is unresolved.
NeedsReconciliationByState(j) ==
  jobs[j].state = "uncertain" \/ jobs[j].auto = 0

\* Work only a person may resolve.
NeedsReconciliation(j) ==
  jobs[j].state = "uncertain" \/ Dispatched(j) # {} \/ jobs[j].auto = 0

UnlockId(p) == idLock' = Unlocked(idLock, p) /\ UNCHANGED skuLock

\* The receipt of a job that succeeded before this pass is consumed.
ConsumeReceipt(p) ==
  /\ pc[p] = "claimed"
  /\ loc[p].active # NoJob /\ jobs[loc[p].active].state = "succeeded"
  /\ request' = Acknowledge(request, loc[p].activeGen)
  /\ Leave(p, "idle", "none")
  /\ UnlockId(p)
  /\ UNCHANGED <<amberVars, ledgerVars, magentoVars, historyVars, spent>>

\* Otherwise the job rows, the publication and the product decide.
Decide(p) ==
  LET j  == Found(p)
      To(label, reason) ==
        /\ Goto(p, label)
        /\ loc' = [loc EXCEPT ![p].job = j, ![p].reason = reason,
                              ![p].binding = published,
                              ![p].live = product.active]
  IN  /\ pc[p] = "claimed"
      /\ loc[p].active # NoJob => jobs[loc[p].active].state # "succeeded"
      /\ IF j = NoJob
         THEN IF product.active THEN To("enqueue", "none")
                                ELSE To("attend", "product_retired")
         ELSE IF NeedsReconciliation(j)
         THEN To("attend", "reconciliation_required")
         ELSE IF jobs[j].state = "superseded" THEN To("clear", "none")
         ELSE IF Obsolete(p, j) /\ ~HasStep(j) THEN To("supersede", "none")
         ELSE IF jobs[j].state = "blocked" \/ Obsolete(p, j)
         THEN To("attend", "data_or_binding")
         ELSE IF product.active THEN To("syncing", "none")
                                ELSE To("attend", "product_retired")
      /\ UNCHANGED <<amberVars, request, ledgerVars, magentoVars, lockVars,
                     historyVars, spent>>

\* The superseded job is dropped and the pass goes on with the product status
\* it read before.
ClearActive(p) ==
  /\ pc[p] = "clear"
  /\ request' = Clear(request)
  /\ IF loc[p].live THEN Leave(p, "enqueue", "none")
                    ELSE Leave(p, "attend", "product_retired")
  /\ UNCHANGED <<amberVars, ledgerVars, magentoVars, lockVars, historyVars,
                 spent>>

\* update("state='syncing'") right before applyJob.
Syncing(p) ==
  /\ pc[p] = "syncing"
  /\ request' = [request EXCEPT !.state = "syncing", !.reason = "none"]
  /\ Goto(p, "apply")
  /\ UNCHANGED <<amberVars, ledgerVars, magentoVars, lockVars, loc,
                 historyVars, spent>>

\* The three ways a pass ends; the identity lock is released.
EndPass(p, label, row) ==
  /\ pc[p] = label
  /\ request' = row
  /\ Leave(p, "idle", "none")
  /\ UnlockId(p)
  /\ UNCHANGED <<amberVars, ledgerVars, magentoVars, historyVars, spent>>

Attend(p)      == EndPass(p, "attend",
                          Attention(request, loc[p].gen, loc[p].reason))
RetryLater(p)  == EndPass(p, "retry", Retry(request))

\* Mutant: the generation the request asks for now.
AckNewest(p) == request.desired

\* The generation a success acknowledges: the one stored with the active job,
\* else the one this pass read.
AckGeneration(p) ==
  IF loc[p].job = loc[p].active THEN loc[p].activeGen ELSE loc[p].gen
AcknowledgeApplied(p) ==
  EndPass(p, "acknowledge", Acknowledge(request, AckGeneration(p)))

RunProduct(p) ==
  \/ Claim(p) \/ ConsumeReceipt(p) \/ Decide(p) \/ SupersedeUndispatched(p)
  \/ ClearActive(p) \/ Syncing(p) \/ Attend(p) \/ RetryLater(p)
  \/ AcknowledgeApplied(p)

=============================================================================
