---------------------------- MODULE SyncRecovery ----------------------------
(***************************************************************************)
(* What a person may start: the magento:sync command (enqueue, apply) and  *)
(* the reviewed recovery of sync-job-recovery.js (reconcile, continue,     *)
(* supersede).  A review is bound to a hash of all it observed and the     *)
(* operation observes again, so an accepted review equals one made at the  *)
(* operation's own observation; the actions below start there.             *)
(***************************************************************************)
EXTENDS SyncJob

\* A person starts a command.
Command(p) == p \in Operators /\ pc[p] = "idle" /\ Spend("command")

\* magento:sync --sku --binding: enqueue under the published binding.
ManualEnqueue(p) ==
  /\ Command(p)
  /\ Goto(p, "enqueue")
  /\ loc' = [loc EXCEPT ![p].binding = published]
  /\ UNCHANGED <<amberVars, request, ledgerVars, magentoVars, lockVars,
                 historyVars>>

\* magento:sync --job --apply, or the reviewed continuation of a job.
ManualApply(p) ==
  /\ Command(p)
  /\ \E j \in Created, reviewed \in BOOLEAN :
       loc' = [loc EXCEPT ![p].job = j, ![p].reviewed = reviewed]
  /\ Goto(p, "apply")
  /\ UNCHANGED <<amberVars, request, ledgerVars, magentoVars, lockVars,
                 historyVars>>

-----------------------------------------------------------------------------
\* reconcile

\* inspectInside finds no blocker: the evidence is the job's own, a dispatched
\* step shows its effect, a verified one still does.
Inspectable(j) ==
  /\ jobs[j].state # "superseded"
  /\ jobs[j].amber = product
  /\ Preflight(j)
  /\ \A f \in Fields : steps[j][f] # "none" => Matches(j, f)

CanReconcile(j) ==
  /\ jobs[j].state # "succeeded"
  /\ Inspectable(j)
  /\ Dispatched(j) # {} \/ VerifiedAll(j)

\* Under the SKU lock: readState and the fresh observation.
ReconcileObserve(p) ==
  /\ Command(p) /\ SkuFree
  /\ \E j \in Created :
       /\ jobs[j].binding = published
       /\ CanReconcile(j)
       /\ loc' = [loc EXCEPT ![p].job = j, ![p].snap = product,
                             ![p].binding = published,
                             ![p].seen = steps[j],
                             ![p].complete = VerifiedAll(j)]
  /\ skuLock' = p
  /\ Goto(p, "reconcile")
  /\ UNCHANGED <<amberVars, request, ledgerVars, magentoVars, idLock,
                 historyVars>>

\* Mutant: a complete observation records the job only.
RecordedIfPartial(p) ==
  IF loc[p].complete THEN {}
  ELSE {f \in Fields : loc[p].seen[f] = "dispatched"}

\* The steps a reconciliation records: what was dispatched, and every step of
\* the job when the whole of it was observed.
Recorded(p) ==
  IF loc[p].complete
  THEN {f \in jobs[loc[p].job].ops : loc[p].seen[f] # "verified"}
  ELSE {f \in Fields : loc[p].seen[f] = "dispatched"}

\* Mutant: what was observed as not applied keeps its marker.
ResolvedIfApplied(j, S) ==
  [f \in Fields |-> IF f \in S /\ Matches(j, f) THEN "verified"
                    ELSE steps[j][f]]

\* The step rows of job j once those of S are resolved.
Resolved(j, S) ==
  [f \in Fields |-> IF f \in S THEN "verified" ELSE steps[j][f]]

\* One transaction: revalidate, record the observed results.
ReconcileCommit(p) ==
  LET j == loc[p].job
  IN  /\ pc[p] = "reconcile"
      /\ IF \/ Revalidate(p) # "none"
            \/ jobs[j].state \in Finished
            \/ \E f \in Recorded(p) : steps[j][f] = "verified"
         THEN UNCHANGED <<jobs, steps, acked>>
         ELSE /\ steps' = [steps EXCEPT ![j] = Resolved(j, Recorded(p))]
              /\ jobs' = [jobs EXCEPT
                   ![j].state = IF loc[p].complete THEN "succeeded"
                                                   ELSE "uncertain",
                   ![j].failure = IF loc[p].complete THEN "none" ELSE "data"]
              /\ acked' = IF loc[p].complete THEN jobs[j].amber.input
                                             ELSE acked
      /\ Leave(p, "idle", "none")
      /\ UnlockSku(p)
      /\ UNCHANGED <<amberVars, request, magentoVars, refuted, spent>>

-----------------------------------------------------------------------------
\* supersede

\* dispatchedOutcome: only a category-link step has one.
NotApplied(j, f) == ~Matches(j, f) /\ Precondition(j, f)
Outcome(j, f)    == f \in LinkFields /\ (Matches(j, f) \/ NotApplied(j, f))

\* Under the SKU lock, with the current publication: supersedeInside.
SupersedeObserve(p) ==
  /\ Command(p) /\ SkuFree
  /\ \E j \in Created :
       /\ jobs[j].state = "uncertain"
       /\ Dispatched(j) # {}
       /\ \A f \in Dispatched(j) : Outcome(j, f)
       /\ loc' = [loc EXCEPT ![p].job = j, ![p].seen = steps[j],
                             ![p].absent = {f \in Dispatched(j) :
                                              NotApplied(j, f)}]
  /\ skuLock' = p
  /\ Goto(p, "retire")
  /\ UNCHANGED <<amberVars, request, ledgerVars, magentoVars, idLock,
                 historyVars>>

\* One transaction: every marker is resolved, the job is superseded, and a
\* request parked for it goes back to pending.
SupersedeCommit(p) ==
  LET j == loc[p].job
  IN  /\ pc[p] = "retire"
      /\ IF jobs[j].state # "uncertain" \/ steps[j] # loc[p].seen
         THEN UNCHANGED <<jobs, steps, request, refuted>>
         ELSE /\ steps' = [steps EXCEPT ![j] = Resolved(j, Dispatched(j))]
              /\ jobs' = [jobs EXCEPT ![j].state = "superseded",
                                      ![j].failure = "data"]
              /\ request' = IF /\ request.active = j
                               /\ request.reason = "reconciliation_required"
                            THEN Clear(request) ELSE request
              /\ refuted' = refuted \cup {<<j, f>> : f \in loc[p].absent}
      /\ Leave(p, "idle", "none")
      /\ UnlockSku(p)
      /\ UNCHANGED <<amberVars, magentoVars, acked, spent>>

-----------------------------------------------------------------------------
Recover(p) ==
  \/ ManualEnqueue(p) \/ ManualApply(p)
  \/ ReconcileObserve(p) \/ ReconcileCommit(p)
  \/ SupersedeObserve(p) \/ SupersedeCommit(p)

=============================================================================
