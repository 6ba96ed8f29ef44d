---------------------------- MODULE MagentoSync -----------------------------
(***************************************************************************)
(* Automatic Magento synchronisation of one product: the workers and the   *)
(* people of SyncWorker and SyncRecovery, interleaved with edits in Amber, *)
(* binding publications, the activation gate, Magento itself, and crashes. *)
(***************************************************************************)
EXTENDS SyncWorker, SyncRecovery

Labels == {"idle", "selected", "claimed", "attend", "retry", "supersede",
           "clear", "enqueue", "plan", "insert", "syncing", "apply",
           "refused", "begin", "step", "mark", "send", "readback", "verify",
           "succeed", "fail", "acknowledge", "reconcile", "retire"}

\* Types of every variable; the row constraints of migrations 042 and 044.
TypeOK ==
  /\ product \in Product /\ published \in Nat
  /\ gate \in BOOLEAN /\ handoff \in BOOLEAN
  /\ request \in Request
  /\ jobs \in [JobId -> Job \cup {NoRow}]
  /\ steps \in [JobId -> [Fields -> StepStates]]
  /\ remote \in [Fields -> Held]
  /\ wire \in SUBSET (JobId \X Fields)
  /\ sent \in [JobId -> [Fields -> Nat]]
  /\ idLock \in Proc \cup {NoProc} /\ skuLock \in Proc \cup {NoProc}
  /\ pc \in [Proc -> Labels]
  /\ loc \in [Proc -> Local]
  /\ acked \in Held
  /\ refuted \in SUBSET (JobId \X Fields)
  /\ spent \in [Kinds -> Nat]

-----------------------------------------------------------------------------
\* A product was saved with the gate on: its request is pending, generation 1.
InitialRequest == [desired |-> 1, synced |-> 0, active |-> NoJob,
                   activeGen |-> 0, state |-> "pending", reason |-> "none"]
Init ==
  /\ product = InitialProduct /\ published = 1
  /\ gate = TRUE /\ handoff = FALSE
  /\ request = InitialRequest
  /\ jobs  = [j \in JobId |-> NoRow]
  /\ steps = [j \in JobId |-> [f \in Fields |-> "none"]]
  /\ remote = [f \in Fields |-> Absent]
  /\ wire = {} /\ sent = [j \in JobId |-> [f \in Fields |-> 0]]
  /\ idLock = NoProc /\ skuLock = NoProc
  /\ pc = [p \in Proc |-> "idle"]
  /\ loc = [p \in Proc |-> FreshLocal]
  /\ acked = Absent /\ refuted = {}
  /\ spent = [k \in Kinds |-> 0]

-----------------------------------------------------------------------------
\* Amber.

\* The trigger of products fires in the transaction of the edit.
RequestSync == request' = IF gate THEN Bump(request) ELSE request

\* An input of the evaluator changes.
Edit ==
  /\ Spend("edit")
  /\ \E i \in Inputs \ {product.input} :
       product' = [product EXCEPT !.input = i]
  /\ RequestSync
  /\ UNCHANGED <<published, gate, handoff, ledgerVars, magentoVars, lockVars,
                 pc, loc, historyVars>>

\* Another column of the product or its lifecycle row changes: no request.
Touch ==
  /\ Spend("touch")
  /\ product' = [product EXCEPT !.other = @ + 1]
  /\ UNCHANGED <<published, gate, handoff, request, ledgerVars,
                 magentoVars, lockVars, pc, loc, historyVars>>

\* The product is archived.
Retire ==
  /\ Spend("retire") /\ product.active
  /\ product' = [product EXCEPT !.active = FALSE]
  /\ RequestSync
  /\ UNCHANGED <<published, gate, handoff, ledgerVars, magentoVars,
                 lockVars, pc, loc, historyVars>>

\* A binding is published; it may record a handoff for this product.
Publish ==
  /\ Spend("publish")
  /\ published' = published + 1
  /\ handoff' \in {handoff, TRUE}
  /\ UNCHANGED <<product, gate, request, ledgerVars, magentoVars,
                 lockVars, pc, loc, historyVars>>

\* Work a handoff must not disturb.
Protected ==
  \/ request.reason = "reconciliation_required"
  \/ \E j \in Unfinished : \/ jobs[j].auto = 0 \/ jobs[j].state = "uncertain"
                           \/ HasStep(j)

\* processHandoffs: the item is enrolled, protected or retired.
ProcessHandoff ==
  /\ gate /\ handoff
  /\ handoff' = FALSE
  /\ request' = IF product.active /\ ~Protected THEN Bump(request)
                                                ELSE request
  /\ UNCHANGED <<product, published, gate, ledgerVars, magentoVars, lockVars,
                 pc, loc, historyVars, spent>>

\* The emergency stop; nothing in the service switches the gate on again.
Disable ==
  /\ Spend("disable") /\ gate
  /\ gate' = FALSE
  /\ UNCHANGED <<product, published, handoff, request, ledgerVars,
                 magentoVars, lockVars, pc, loc, historyVars>>

-----------------------------------------------------------------------------
\* Magento.

\* A mutation on its way takes effect, however late.
Deliver ==
  /\ \E m \in wire :
       /\ wire' = wire \ {m}
       /\ remote' = [remote EXCEPT ![m[2]] = jobs[m[1]].amber.input]
  /\ UNCHANGED <<amberVars, request, ledgerVars, sent, lockVars, pc, loc,
                 historyVars, spent>>

\* It never will.
Lose ==
  /\ \E m \in wire : wire' = wire \ {m}
  /\ UNCHANGED <<amberVars, request, ledgerVars, remote, sent, lockVars, pc,
                 loc, historyVars, spent>>

\* Another Magento writer.
ForeignWrite ==
  /\ Spend("foreign")
  /\ \E f \in Fields : remote' = [remote EXCEPT ![f] = Foreign]
  /\ UNCHANGED <<amberVars, request, ledgerVars, wire, sent, lockVars, pc,
                 loc, historyVars>>

-----------------------------------------------------------------------------
\* Processes.

\* A process dies; PostgreSQL ends its sessions.
Crash(p) ==
  /\ pc[p] # "idle" /\ Spend("crash")
  /\ Goto(p, "idle")
  /\ loc' = [loc EXCEPT ![p] = FreshLocal]
  /\ idLock' = Unlocked(idLock, p) /\ skuLock' = Unlocked(skuLock, p)
  /\ UNCHANGED <<amberVars, request, ledgerVars, magentoVars, historyVars>>

\* PostgreSQL ends sessions whose processes have not noticed yet; each lock
\* is held by a session of its own, and a restart ends them all.
LoseSessions ==
  /\ Spend("loss")
  /\ idLock' \in {idLock, NoProc} /\ skuLock' \in {skuLock, NoProc}
  /\ <<idLock, skuLock>>' # <<idLock, skuLock>>
  /\ UNCHANGED <<amberVars, request, ledgerVars, magentoVars, pc, loc,
                 historyVars>>

\* A worker or person does its next thing.
Act(p) == Enqueue(p) \/ ApplyJob(p)
WorkerStep(w)   == RunProduct(w) \/ Act(w)
OperatorStep(o) == ReconcileCommit(o) \/ SupersedeCommit(o) \/ Act(o)

\* tick() finds nothing due and no command runs.
Quiet ==
  /\ \A p \in Proc : pc[p] = "idle"
  /\ ~gate \/ ~Due
  /\ UNCHANGED vars

Environment ==
  Edit \/ Touch \/ Retire \/ Publish \/ ProcessHandoff \/ Disable
  \/ Deliver \/ Lose \/ ForeignWrite

Next ==
  \/ \E w \in Workers : Poll(w) \/ RunProduct(w)
  \/ \E o \in Operators : Recover(o)
  \/ \E p \in Proc : Act(p) \/ Crash(p)
  \/ LoseSessions
  \/ Environment
  \/ Quiet

Spec == Init /\ [][Next]_vars

\* A started process goes on (every read and write it waits for has a
\* timeout) and the worker's timer always fires again.  Nothing obliges a
\* person, an edit, a crash or Magento.
Fairness ==
  /\ \A w \in Workers : WF_vars(WorkerStep(w)) /\ WF_vars(Poll(w))
  /\ \A o \in Operators : WF_vars(OperatorStep(o))

FairSpec == Spec /\ Fairness

-----------------------------------------------------------------------------
\* The dispatch ledger that this system implements, whoever dispatches.

Ledger == INSTANCE DispatchLedger
            WITH Step   <- JobId \X Fields,
                 marker <- [s \in JobId \X Fields |-> steps[s[1]][s[2]]],
                 sent   <- [s \in JobId \X Fields |-> sent[s[1]][s[2]]]
LedgerSpec == Ledger!Spec

-----------------------------------------------------------------------------
\* Safety.

\* No step is ever sent twice, through retries, crashes, reviewed
\* continuations and lost sessions (applyJob 247-299 and the step table).
AtMostOnce == \A j \in JobId, f \in Fields : sent[j][f] <= 1

\* At any time one dispatch at most is unresolved for the whole SKU: nobody
\* builds on, or sends past, an outcome that is not known.
OneUnresolved ==
  \A j, k \in JobId, f, g \in Fields :
    steps[j][f] = "dispatched" /\ steps[k][g] = "dispatched"
      => j = k /\ f = g

\* A superseded job is over: no marker of it is unresolved and no process is
\* about to commit one or to send.
SupersededIsOver ==
  \A j \in Created : jobs[j].state = "superseded" =>
    /\ Dispatched(j) = {}
    /\ \A p \in Proc : pc[p] \in {"mark", "send"} => loc[p].job # j

\* While the gate is on, a request that says synced was acknowledged with the
\* content the product has now, also when the content returned to an earlier
\* value; with the gate off an edit asks for nothing.
SyncedMeansDelivered ==
  gate /\ request.state = "synced" => acked = product.input

\* And Magento then shows it, operation by operation, unless a review declared
\* a sent mutation absent.
SyncedMeansMirrored ==
  gate /\ request.state = "synced" /\ refuted = {}
    => \A f \in Fields : remote[f] = product.input

\* A job succeeds with every one of its steps verified.
SucceededIsVerified ==
  \A j \in Created : jobs[j].state = "succeeded" =>
    \A f \in jobs[j].ops : steps[j][f] = "verified"

\* A plan is inserted into an empty lane: enqueue never meets the index that
\* allows one unfinished job per SKU.
LaneIsFree == \A p \in Proc : pc[p] = "insert" => Unfinished = {}

\* The row checks of migration 044 never abort an update of the request.
RequestChecks ==
  /\ request.synced <= request.desired
  /\ (request.active = NoJob) = (request.activeGen = 0)
  /\ request.activeGen <= request.desired
  /\ request.state = "synced" => request.synced = request.desired

\* A parked reconciliation is not forgotten while a dispatch is unresolved,
\* unless the receipt of its own job is consumed: then what is unresolved was
\* planned by a person.
StickyReconciliation ==
  [][request.reason = "reconciliation_required"
       => \/ request'.reason = "reconciliation_required"
          \/ \A j \in JobId : Dispatched(j)' # {} =>
               /\ request.active # NoJob /\ jobs[request.active].state = "succeeded"
               /\ jobs[j].auto = 0]_vars

-----------------------------------------------------------------------------
\* Liveness.

\* Queued work ends synced or in front of a person, unless the gate goes off.
QueueDrains ==
  request.state \in {"pending", "syncing"}
    ~> request.state \in {"synced", "needs_attention"} \/ ~gate

\* Queued work whose dispatch is unresolved is put before a person as such,
\* even when the pass that dispatched it died.
UnresolvedSurfaces ==
  request.state \in {"pending", "syncing"} /\ request.active # NoJob
    /\ Dispatched(request.active) # {}
    ~> request.reason = "reconciliation_required"
       \/ \A j \in JobId : Dispatched(j) = {}
       \/ ~gate

\* The receipt of a succeeded job is consumed, also by a request that waits
\* for a person and after any crash.
ReceiptConsumed ==
  request.active # NoJob /\ jobs[request.active].state = "succeeded"
    ~> request.active = NoJob \/ ~gate

-----------------------------------------------------------------------------
\* What documents and comments say, and the code does not do.

\* docs/MAGENTO_AUTOMATIC_SYNC.md:208: an unfinished manual job is never
\* automatically adopted for APPLY.
ManualNeverAdopted ==
  \A w \in Workers : pc[w] = "send" => jobs[loc[w].job].auto # 0

\* docs/MAGENTO_INTEGRATION.md:362-363: a reviewed supersession returns its
\* reconciliation_required request to pending.
SupersededReturned ==
  request.active # NoJob /\ jobs[request.active].state = "superseded"
    => request.reason # "reconciliation_required"

\* docs/MAGENTO_INTEGRATION.md:353-355: supersession is the exit of an
\* uncertain job after a newer publication; only an uncertain job may take it.
UnresolvedKeepsExit ==
  \A j \in Created : Dispatched(j) # {} => jobs[j].state # "blocked"

\* sync-job-recovery.js:229-230: what a review records as not applied is
\* provably absent.
RefutedIsAbsent == refuted \cap wire = {}

=============================================================================
