----------------------------- MODULE SyncLedger -----------------------------
(***************************************************************************)
(* The durable state of Magento product synchronisation and the statements *)
(* that change one row of it: the request of one public product identity,  *)
(* its sync jobs, their dispatch steps, the two session locks, and what    *)
(* Magento holds.  The modules SyncJob, SyncWorker and SyncRecovery are    *)
(* the programs that run over this state; MagentoSync composes them.       *)
(*                                                                         *)
(* One public identity is modelled: every row, lock key and index below is *)
(* per identity or per (origin, SKU), so products never share one.         *)
(***************************************************************************)
EXTENDS Naturals, FiniteSets

CONSTANTS
  Workers,     \* replicas of the automatic worker (one lane each)
  Operators,   \* CLI or recovery-API processes run by a person
  NoProc,      \* owner of a free lock
  Inputs,      \* contents of the product Magento must mirror
  Absent,      \* what Magento holds before the first delivery
  Foreign,     \* what another Magento writer leaves there
  Fields,      \* ordinals of the operations a plan may hold
  LinkFields,  \* those that are category-link operations
  MaxJobs,     \* bound: rows of magento_sync_jobs
  Budgets      \* bound: how often environment events happen together

\* The environment events that Budgets bounds; a behaviour stays within one
\* of its members.
Kinds == {"edit", "touch", "retire", "publish", "disable", "crash", "loss",
          "fault", "foreign", "command"}

Core   == 1                       \* ordinal of the coreProduct operation
Proc   == Workers \cup Operators
JobId  == 1..MaxJobs
NoJob  == 0
Held   == Inputs \cup {Absent, Foreign}

ASSUME ProcAssumption ==
  /\ NoProc \notin Proc
  /\ Workers \cap Operators = {}
ASSUME DataAssumption ==
  /\ Fields \subseteq Nat /\ Core \in Fields /\ LinkFields \subseteq Fields
  /\ IsFiniteSet(Fields)
  /\ Absent \notin Inputs /\ Foreign \notin Inputs /\ Inputs # {}
ASSUME BoundAssumption == MaxJobs \in Nat /\ Budgets \subseteq [Kinds -> Nat]

VARIABLES
  product,    \* the products row: its content, other columns, status
  published,  \* version of the published binding
  gate,       \* magento_auto_sync_activation.enabled
  handoff,    \* a pending magento_binding_handoff_items row
  request,    \* the magento_product_sync_requests row
  jobs,       \* magento_sync_jobs
  steps,      \* magento_sync_steps
  remote,     \* the product in Magento, per operation
  wire,       \* mutations sent that Magento has neither applied nor lost
  idLock,     \* session lock amber_magento_public_identity:<id>
  skuLock,    \* session lock amber_magento_sync:<origin>:<sku>
  pc,         \* where each process is
  loc,        \* what each process read earlier and still holds
  sent,       \* history: HTTP mutations issued per step
  acked,      \* history: content of the job acknowledged last
  refuted,    \* history: steps a review recorded as not applied
  spent       \* events used so far, per kind

amberVars   == <<product, published, gate, handoff>>
ledgerVars  == <<jobs, steps>>
magentoVars == <<remote, wire, sent>>
lockVars    == <<idLock, skuLock>>
historyVars == <<acked, refuted>>
vars == <<amberVars, request, ledgerVars, magentoVars, lockVars, pc, loc,
          historyVars, spent>>

-----------------------------------------------------------------------------
\* Rows.

JobStates == {"queued", "running", "retryable", "blocked", "uncertain",
              "succeeded", "superseded"}
Finished  == {"succeeded", "superseded"}
Reasons   == {"none", "data_or_binding", "reconciliation_required",
              "product_retired", "unexpected_failure"}

\* The failure codes, by what the code distinguishes: AMBER_CHANGED;
\* BINDING_CHANGED or PUBLISHED_CURRENT_BINDING_REQUIRED; other *_CHANGED and
\* *_MISMATCH; PREVIOUS_DISPATCH_UNRESOLVED; READ_FAILED and connectivity;
\* AUTO_DISABLED; SYNC_BUSY; a local database error; any other refusal.
Codes == {"none", "amber", "binding", "remote", "unresolved", "read",
          "disabled", "busy", "other", "data"}

Product == [input : Inputs, other : Nat, active : BOOLEAN]
Job == [state : JobStates, auto : Nat, amber : Product, binding : Nat,
        ops : SUBSET Fields, base : [Fields -> Held], failure : Codes]
Request == [desired : Nat, synced : Nat, active : JobId \cup {NoJob},
            activeGen : Nat,
            state : {"pending", "syncing", "synced", "needs_attention"},
            reason : Reasons]

\* A job id with no row yet.
NoRow == [state |-> "none"]
Exists(j) == jobs[j] # NoRow
Created   == {j \in JobId : Exists(j)}

\* magento_sync_one_unfinished: the jobs that index counts.
Unfinished == {j \in Created : jobs[j].state \notin Finished}

HasStep(j)    == \E f \in Fields : steps[j][f] # "none"
Dispatched(j) == {f \in Fields : steps[j][f] = "dispatched"}

StepStates == {"none", "dispatched", "verified"}

\* What a process holds in local variables while it runs, and a fresh scope.
Local == [job : JobId \cup {NoJob}, gen : Nat, active : JobId \cup {NoJob},
          activeGen : Nat, binding : Nat, live : BOOLEAN, snap : Product,
          reason : Reasons, code : Codes, ops : SUBSET Fields,
          base : [Fields -> Held], todo : SUBSET Fields,
          reviewed : BOOLEAN, complete : BOOLEAN,
          seen : [Fields -> StepStates], absent : SUBSET Fields]

InitialProduct == [input |-> CHOOSE i \in Inputs : TRUE, other |-> 0,
                   active |-> TRUE]
FreshLocal ==
  [job |-> NoJob, gen |-> 0, active |-> NoJob, activeGen |-> 0, binding |-> 0,
   live |-> TRUE, snap |-> InitialProduct, reason |-> "none", code |-> "none",
   ops |-> {}, base |-> [f \in Fields |-> Absent], todo |-> {},
   reviewed |-> FALSE, complete |-> FALSE,
   seen |-> [f \in Fields |-> "none"], absent |-> {}]

-----------------------------------------------------------------------------
\* Statements on the request row.

\* Mutant: an edit releases a parked reconciliation.
BumpReleases(r) ==
  [r EXCEPT !.desired = @ + 1, !.state = "pending", !.reason = "none"]

\* request_magento_product_sync: what an edit does to the request.
Bump(r) ==
  LET sticky == r.reason = "reconciliation_required"
  IN  [r EXCEPT !.desired = @ + 1,
                !.state  = IF sticky THEN "needs_attention" ELSE "pending",
                !.reason = IF sticky THEN @ ELSE "none"]

\* automatic.attachJob.
Attach(r, j, gen) ==
  [r EXCEPT !.active = j, !.activeGen = gen, !.state = "syncing",
            !.reason = "none"]

\* The worker's attention(): only the generation it looked at, unless the
\* reason is an unresolved dispatch.
Attention(r, gen, reason) ==
  IF r.desired = gen \/ reason = "reconciliation_required"
  THEN [r EXCEPT !.state = "needs_attention", !.reason = reason]
  ELSE [r EXCEPT !.state = "pending", !.reason = "none"]

\* Mutant: the state of a job is written to the request.
RetryAsJob(r) == [r EXCEPT !.state = "retryable", !.reason = "none"]

\* The worker's retry().
Retry(r) == [r EXCEPT !.state = "pending", !.reason = "none"]

\* Mutant: synced, whatever was asked for meanwhile.
AcknowledgeAll(r, gen) ==
  [r EXCEPT !.synced = gen, !.active = NoJob, !.activeGen = 0,
            !.state = "synced", !.reason = "none"]

\* The worker acknowledges generation gen.
Acknowledge(r, gen) ==
  [r EXCEPT !.synced = IF gen > @ THEN gen ELSE @,
            !.active = NoJob, !.activeGen = 0,
            !.state  = IF r.desired = gen THEN "synced" ELSE "pending",
            !.reason = "none"]

\* The worker, or a reviewed supersession, drops the active job.
Clear(r) == [r EXCEPT !.active = NoJob, !.activeGen = 0,
                      !.state = "pending", !.reason = "none"]

-----------------------------------------------------------------------------
\* The session locks, and the checks made in a short transaction.

\* Mutant: the holders use different lock keys.
SkuAlways == TRUE

\* pg_try_advisory_lock: the lock is free.
SkuFree == skuLock = NoProc

\* pg_advisory_unlock, or the end of the session.
Unlocked(lock, p) == IF lock = p THEN NoProc ELSE lock

\* transaction.readState with options.automatic, and the automatic part of
\* its failure: "none" when the gate is on and gen is still desired.
AutomaticCheck(gen) ==
  IF ~gate THEN "disabled"
  ELSE IF request.desired # gen THEN "amber" ELSE "none"

\* transaction.readState: the published binding must be the one asked for.
ReadStateCheck(p, binding) ==
  IF published # binding THEN "binding"
  ELSE IF p \in Workers THEN AutomaticCheck(loc[p].gen) ELSE "none"

\* automatic.assertSnapshot: gate, then the product read before, then the
\* generation.
AssertSnapshot(p) ==
  IF ~gate THEN "disabled"
  ELSE IF product # loc[p].snap \/ request.desired # loc[p].gen
       THEN "amber" ELSE "none"

\* transaction.revalidate, for work a person started.
Revalidate(p) ==
  IF published # loc[p].binding THEN "binding"
  ELSE IF product # loc[p].snap THEN "amber" ELSE "none"

-----------------------------------------------------------------------------
\* What a plan compares with Magento.

\* The operations of a plan run in the order of their ordinals.
First(S) == CHOOSE f \in S : \A g \in S : f <= g

\* plan.intent: the core operation always, the others where Magento differs.
PlanOps(input) == {Core} \cup {f \in Fields : remote[f] # input}

\* plan.matches: Magento shows the effect of operation f of job j.
Matches(j, f) == remote[f] = jobs[j].amber.input

\* plan.preserve: what the job does not write is as it was at planning.
Preserved(j) == \A f \in Fields \ jobs[j].ops : remote[f] = jobs[j].base[f]

\* plan.precondition: not yet applied, and unchanged since planning.
Precondition(j, f) == Matches(j, f) \/ remote[f] = jobs[j].base[f]

\* plan.preflight.
Preflight(j) == Preserved(j) /\ \A f \in jobs[j].ops : Precondition(j, f)

\* plan.verifyAll.
VerifiedAll(j) == Preserved(j) /\ \A f \in jobs[j].ops : Matches(j, f)

=============================================================================
