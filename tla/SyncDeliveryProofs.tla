------------------------- MODULE SyncDeliveryProofs -------------------------
(***************************************************************************)
(* Proof that a request of MagentoSync which says synced was acknowledged  *)
(* with the content the product has now, whatever sessions are lost: the   *)
(* generations that a job, a request and a worker carry tell for which     *)
(* content they speak.                                                     *)
(***************************************************************************)
EXTENDS SyncRowProofs

\* What was acknowledged last, and any work under way, is the product's
\* content of now.
Good ==
  /\ acked = product.input
  /\ \A u \in Unfinished : jobs[u].amber.input = product.input

\* Job j speaks for generation g: if that is the one desired now, the job was
\* planned for the content of now and its success delivered it.
Succ(j) == jobs[j].state = "succeeded"
About(j, g) ==
  g = request.desired => /\ jobs[j].amber.input = product.input
                         /\ Succ(j) => Good

\* Labels at which a worker will acknowledge its job if that succeeds.
Delivering == {"syncing", "apply", "refused", "begin", "step", "mark", "send",
               "readback", "verify", "succeed", "fail", "acknowledge"}

RequestOk ==
  /\ request.state = "synced" => Good
  /\ request.active # NoJob => About(request.active, request.activeGen)
RowsOk == \A j \in Created : About(j, jobs[j].auto)
WorkerOk(p) ==
  /\ loc[p].active # NoJob => About(loc[p].active, loc[p].activeGen)
  /\ pc[p] \in Delivering => About(loc[p].job, AckGeneration(p))
  /\ pc[p] = "acknowledge" => loc[p].job \in Created /\ Succ(loc[p].job)

\* No job was planned for a generation that was not asked for yet.
AutoKnown == \A j \in Created : jobs[j].auto <= request.desired

Deliveries   == RequestOk /\ RowsOk /\ \A p \in Workers : WorkerOk(p)
DeliveryInv  == AutoKnown /\ (gate => Deliveries)
Base         == IInv /\ RequestInv /\ StepInv

-----------------------------------------------------------------------------
\* The job rows.

\* What a step makes of the rows and of the acknowledged content.
RowsMove(p) ==
  \/ UNCHANGED <<jobs, acked>>
  \/ \E j \in JobId : \E s :
       Rewrites(j, s) /\ s # "succeeded" /\ UNCHANGED acked
  \/ \E j \in JobId : Rewrites(j, "succeeded") /\ acked' = jobs[j].amber.input
  \/ \E j \in JobId : /\ Inserts(p, j) /\ UNCHANGED acked
                      /\ loc[p].snap = product /\ loc[p].gen <= request.desired

\* The product and the generation desired stay as they are.
Steady == UNCHANGED <<product, gate>> /\ request'.desired = request.desired

\* Everything that speaks for a generation goes on doing so.
Kept ==
  /\ Good => Good'
  /\ \A j \in JobId : \A g : Exists(j) /\ About(j, g) => About(j, g)'
  /\ \A j \in JobId : Exists(j) /\ Succ(j) => Succ(j)' /\ Exists(j)'

LEMMA RowsKeep ==
  ASSUME Base, DeliveryInv, NEW p, RowsMove(p), Steady
  PROVE  Kept /\ AutoKnown' /\ (RowsOk => RowsOk')
<1>1. /\ \A j, k \in Unfinished : j = k
      /\ \A j \in Created : jobs[j].auto <= request.desired
      /\ request'.desired = request.desired /\ product' = product
  BY DEF Base, StepInv, StepRows, OneLane, DeliveryInv, AutoKnown, Steady
<1>2. CASE UNCHANGED <<jobs, acked>>
  <2>1. Unfinished' = Unfinished /\ Created' = Created
        /\ \A j \in JobId : Exists(j)' = Exists(j)
    BY <1>2 DEF Unfinished, Created, Exists
  <2> QED BY <1>1, <1>2, <2>1 DEF Kept, Good, About, Succ, AutoKnown, RowsOk
<1>3. ASSUME NEW j \in JobId, NEW s, Rewrites(j, s),
             \/ s # "succeeded" /\ UNCHANGED acked
             \/ s = "succeeded" /\ acked' = jobs[j].amber.input
      PROVE  Kept /\ AutoKnown' /\ (RowsOk => RowsOk')
  <2>1. /\ \A k \in JobId : Exists(k)' = Exists(k)
        /\ \A k \in JobId : Exists(k) =>
             jobs'[k].amber = jobs[k].amber /\ jobs'[k].auto = jobs[k].auto
        /\ j \in Unfinished
    BY <1>3 DEF Rewrites, Exists, Unfinished, Created
  <2>2. Created' = Created /\ Unfinished' \subseteq Unfinished
    BY <1>3, <2>1 DEF Rewrites, Created, Unfinished
  <2>3. Good => Good'
    BY <1>1, <1>3, <2>1, <2>2 DEF Good, Unfinished, Created
  <2>4. ASSUME NEW k \in JobId, Exists(k), NEW g, About(k, g)
        PROVE  About(k, g)'
    <3>1. CASE Succ(k)
      BY <1>1, <2>1, <2>3, <2>4, <3>1 DEF About
    <3>2. CASE ~Succ(k) /\ Succ(k)'
      <4>1. k = j /\ s = "succeeded"
        BY <1>3, <3>2 DEF Rewrites, Succ
      <4>2. Unfinished' = {}
        BY <1>1, <1>3, <2>1, <2>2, <4>1 DEF Unfinished, Rewrites, Finished
      <4> QED BY <1>1, <1>3, <2>1, <2>4, <4>1, <4>2 DEF About, Good
    <3>3. CASE ~Succ(k)'
      BY <1>1, <2>1, <2>4, <3>3 DEF About
    <3> QED BY <3>1, <3>2, <3>3
  <2>5. \A k \in JobId : Exists(k) /\ Succ(k) => Succ(k)' /\ Exists(k)'
    BY <1>3, <2>1 DEF Rewrites, Succ, Finished
  <2>6. AutoKnown'
    BY <1>1, <2>1, <2>2 DEF AutoKnown, Created
  <2>7. RowsOk => RowsOk'
    BY <2>1, <2>2, <2>4 DEF RowsOk, Created
  <2> QED BY <2>3, <2>4, <2>5, <2>6, <2>7 DEF Kept
<1>4. ASSUME NEW j \in JobId, Inserts(p, j), UNCHANGED acked,
             loc[p].snap = product, loc[p].gen <= request.desired
      PROVE  Kept /\ AutoKnown' /\ (RowsOk => RowsOk')
  <2>1. /\ \A k \in JobId \ {j} : Exists(k)' = Exists(k) /\ jobs'[k] = jobs[k]
        /\ ~Exists(j) /\ Exists(j)' /\ jobs'[j].state = "queued"
        /\ jobs'[j].amber = product
        /\ jobs'[j].auto = (IF p \in Workers THEN loc[p].gen ELSE 0)
    BY <1>4 DEF Inserts, Exists
  <2>2. Created' = Created \cup {j} /\ Unfinished' \subseteq Unfinished \cup {j}
    BY <2>1 DEF Created, Unfinished
  <2>3. Good => Good'
    BY <1>1, <1>4, <2>1, <2>2 DEF Good, Unfinished, Created
  <2>4. \A k \in JobId : \A g : Exists(k) /\ About(k, g) => About(k, g)'
    BY <1>1, <2>1, <2>3 DEF About, Succ
  <2>5. \A k \in JobId : Exists(k) /\ Succ(k) => Succ(k)' /\ Exists(k)'
    BY <2>1 DEF Succ
  <2>6. jobs'[j].auto <= request.desired
    <3>1. request.desired \in Nat
      BY SplitType DEF Base, IInv, Data, Request
    <3> QED BY <1>4, <2>1, <3>1
  <2>7. AutoKnown'
    BY <1>1, <2>1, <2>2, <2>6 DEF AutoKnown, Created
  <2>8. \A g : About(j, g)'
    BY <1>1, <2>1 DEF About, Succ
  <2>9. RowsOk => RowsOk'
    BY <2>1, <2>2, <2>4, <2>8 DEF RowsOk, Created
  <2> QED BY <2>3, <2>4, <2>5, <2>7, <2>9 DEF Kept
<1> QED BY <1>2, <1>3, <1>4 DEF RowsMove

-----------------------------------------------------------------------------
\* The request.

\* A row that says less: not synced, and with the same active job or none.
Quieter(r) ==
  /\ r.state # "synced"
  /\ \/ r.active = NoJob
     \/ r.active = request.active /\ r.activeGen = request.activeGen

LEMMA QuieterRows ==
  ASSUME request \in Request, NEW gen, NEW reason
  PROVE  /\ Quieter(Attention(request, gen, reason))
         /\ Quieter(Retry(request)) /\ Quieter(Clear(request))
         /\ Quieter([request EXCEPT !.state = "syncing", !.reason = "none"])
BY DEF Request, Quieter, Attention, Retry, Clear

LEMMA RequestKept ==
  ASSUME Base, RequestOk, Kept, Steady, UNCHANGED request \/ Quieter(request')
  PROVE  RequestOk'
<1>1. request.active # NoJob => request.active \in JobId /\ Exists(request.active)
  BY SplitType DEF Base, IInv, JobsExist, Data, Request
<1>2. ASSUME NEW j \in JobId, NEW g, Exists(j), About(j, g),
             request'.active = j, request'.activeGen = g
      PROVE  request'.active # NoJob => About(request.active, request.activeGen)'
  <2>1. About(j, g)'
    BY <1>2 DEF Kept
  <2> QED BY <1>2, <2>1 DEF About, Succ
<1> QED BY <1>1, <1>2 DEF RequestOk, Kept, Quieter

\* An acknowledgement of a success that speaks for generation g.
LEMMA AcknowledgeOk ==
  ASSUME Base, DeliveryInv, RequestOk, Kept, Steady, NEW j \in JobId, Exists(j),
         NEW g, About(j, g), Succ(j), request' = Acknowledge(request, g)
  PROVE  RequestOk'
<1>1. /\ request'.active = NoJob
      /\ request'.state = "synced" => request.desired = g
  BY SplitType DEF Base, IInv, Data, Request, Acknowledge
<1> QED BY <1>1 DEF RequestOk, About, Kept

\* A job is attached for the generation it speaks for.
LEMMA AttachOk ==
  ASSUME Base, NEW j \in JobId, NEW g, About(j, g)', request' = Attach(request, j, g)
  PROVE  RequestOk'
<1>1. request'.active = j /\ request'.activeGen = g /\ request'.state = "syncing"
  BY SplitType DEF Base, IInv, Data, Request, Attach
<1> QED BY <1>1 DEF RequestOk, About, Succ

-----------------------------------------------------------------------------
\* The workers.

LEMMA OtherWorkers ==
  ASSUME Base, NEW p, Others(p), Kept, Steady,
         \A q \in Workers : WorkerOk(q)
  PROVE  \A q \in Workers \ {p} : WorkerOk(q)'
<1> SUFFICES ASSUME NEW q \in Workers \ {p}  PROVE WorkerOk(q)'
  OBVIOUS
<1>1. q \in Proc /\ pc'[q] = pc[q] /\ loc'[q] = loc[q]
  BY DEF Proc, Others
<1>2. /\ loc[q].active # NoJob => loc[q].active \in JobId /\ Exists(loc[q].active)
      /\ pc[q] \in AtJob => loc[q].job \in JobId /\ Exists(loc[q].job)
  BY <1>1, Known DEF Base, IInv, JobsExist
<1>3. pc[q] \in Delivering => loc[q].job \in JobId /\ Exists(loc[q].job)
  BY <1>2 DEF Delivering, AtJob, WorkerOk, Created
<1>4. AckGeneration(q)' = AckGeneration(q)
  BY <1>1 DEF AckGeneration
<1>5. ASSUME NEW j, NEW g, j = loc[q].active, g = loc[q].activeGen, j # NoJob
      PROVE  About(loc[q].active, loc[q].activeGen)'
  <2>1. About(j, g)'
    BY <1>2, <1>5 DEF WorkerOk, Kept
  <2> QED BY <1>1, <1>5, <2>1
<1>6. ASSUME NEW j, NEW g, j = loc[q].job, g = AckGeneration(q), pc[q] \in Delivering
      PROVE  About(loc[q].job, AckGeneration(q))'
  <2>1. About(j, g)'
    BY <1>3, <1>6 DEF WorkerOk, Kept
  <2>2. loc'[q].job = j /\ AckGeneration(q)' = g
    BY <1>1, <1>4, <1>6
  <2> QED BY <2>1, <2>2
<1>7. pc[q] = "acknowledge" => loc'[q].job \in Created' /\ Succ(loc[q].job)'
  <2>1. ASSUME NEW j, j = loc[q].job, pc[q] = "acknowledge"
        PROVE  loc'[q].job \in Created' /\ Succ(loc[q].job)'
    <3>1. j \in JobId /\ Exists(j) /\ Succ(j)
      BY <2>1 DEF WorkerOk, Created
    <3>2. Succ(j)' /\ Exists(j)'
      BY <3>1 DEF Kept
    <3> QED BY <1>1, <2>1, <3>1, <3>2 DEF Created
  <2> QED BY <2>1
<1> QED BY <1>1, <1>5, <1>6, <1>7 DEF WorkerOk

\* A worker that keeps its request row and ends where it will acknowledge
\* nothing, or goes on with its job.
LEMMA WorkerStops ==
  ASSUME Base, NEW p \in Proc, Kept, Steady, \A q \in Workers : WorkerOk(q),
         NEW S, Stops(p, S),
         \A label \in S :
           \/ label \notin Delivering
           \/ /\ pc[p] \in Delivering
              /\ label = "acknowledge" => jobs'[loc[p].job].state = "succeeded"
  PROVE  \A q \in Workers : WorkerOk(q)'
<1>1. PICK label \in S :
        \E m : /\ Goes(p, label, m)
               /\ IF label = "idle" THEN m = FreshLocal ELSE SameWork(m, loc[p])
  BY DEF Stops
<1>2. \/ loc'[p] = FreshLocal
      \/ SameWork(loc'[p], loc[p])
  BY <1>1 DEF Goes
<1>3. pc'[p] = label /\ Others(p)
  BY <1>1 DEF Goes
<1>4. \A q \in Workers \ {p} : WorkerOk(q)'
  BY <1>3, OtherWorkers
<1>5. CASE p \in Workers /\ loc'[p] = FreshLocal /\ label \notin Delivering
  <2>1. WorkerOk(p)'
    BY <1>3, <1>5 DEF WorkerOk, FreshLocal, Delivering
  <2> QED BY <1>4, <2>1
<1>6. CASE p \in Workers /\ SameWork(loc'[p], loc[p])
  <2>1. /\ loc'[p].active = loc[p].active /\ loc'[p].activeGen = loc[p].activeGen
        /\ loc'[p].job = loc[p].job /\ loc'[p].gen = loc[p].gen
    BY <1>6 DEF SameWork, SameRequest
  <2>2. /\ loc[p].active # NoJob => loc[p].active \in JobId /\ Exists(loc[p].active)
        /\ pc[p] \in AtJob => loc[p].job \in JobId /\ Exists(loc[p].job)
    BY Known DEF Base, IInv, JobsExist
  <2>3. pc[p] \in Delivering => loc[p].job \in JobId /\ Exists(loc[p].job)
    BY <1>6, <2>2 DEF Delivering, AtJob, WorkerOk, Created
  <2>4. AckGeneration(p)' = AckGeneration(p)
    BY <2>1 DEF AckGeneration
  <2>5. ASSUME NEW j, NEW g, j = loc[p].active, g = loc[p].activeGen, j # NoJob
        PROVE  About(loc[p].active, loc[p].activeGen)'
    <3>1. About(j, g)'
      BY <1>6, <2>2, <2>5 DEF WorkerOk, Kept
    <3> QED BY <2>1, <2>5, <3>1
  <2>6. ASSUME NEW j, NEW g, j = loc[p].job, g = AckGeneration(p), pc[p] \in Delivering
        PROVE  About(loc[p].job, AckGeneration(p))'
    <3>1. About(j, g)'
      BY <1>6, <2>3, <2>6 DEF WorkerOk, Kept
    <3>2. loc'[p].job = j /\ AckGeneration(p)' = g
      BY <2>1, <2>4, <2>6
    <3> QED BY <3>1, <3>2
  <2>7. label = "acknowledge" => loc'[p].job \in Created' /\ Succ(loc[p].job)'
    <3> SUFFICES ASSUME label = "acknowledge"
                 PROVE  loc'[p].job \in Created' /\ Succ(loc[p].job)'
      OBVIOUS
    <3>1. pc[p] \in Delivering /\ jobs'[loc[p].job].state = "succeeded"
      BY DEF Delivering
    <3>2. loc[p].job \in JobId /\ jobs'[loc[p].job] # NoRow
      BY <2>3, <3>1 DEF NoRow
    <3> QED BY <2>1, <3>1, <3>2 DEF Created, Exists, Succ
  <2>8. WorkerOk(p)'
    BY <1>1, <1>3, <2>1, <2>5, <2>6, <2>7 DEF WorkerOk
  <2> QED BY <1>4, <2>8
<1>7. loc'[p] = FreshLocal => label \notin Delivering \/ SameWork(loc'[p], loc[p])
  BY <1>1 DEF Goes, Delivering
<1> QED BY <1>2, <1>4, <1>5, <1>6, <1>7

\* A worker that ends where it will acknowledge nothing.
LEMMA WorkerLeaves ==
  ASSUME Base, NEW p \in Proc, Kept, Steady, \A q \in Workers : WorkerOk(q),
         Others(p), pc'[p] \notin Delivering,
         loc'[p].active = loc[p].active, loc'[p].activeGen = loc[p].activeGen
  PROVE  \A q \in Workers : WorkerOk(q)'
<1>1. \A q \in Workers \ {p} : WorkerOk(q)'
  BY OtherWorkers
<1>2. loc[p].active # NoJob => loc[p].active \in JobId /\ Exists(loc[p].active)
  BY Known DEF Base, IInv, JobsExist
<1>3. ASSUME NEW j, NEW g, j = loc[p].active, g = loc[p].activeGen, j # NoJob,
             p \in Workers
      PROVE  About(loc[p].active, loc[p].activeGen)'
  <2>1. About(j, g)'
    BY <1>2, <1>3 DEF WorkerOk, Kept
  <2> QED BY <1>3, <2>1
<1>4. p \in Workers => WorkerOk(p)'
  BY <1>3 DEF WorkerOk, Delivering
<1> QED BY <1>1, <1>4

\* A worker takes up a job that speaks for the generation it read.
LEMMA WorkerTakes ==
  ASSUME Base, NEW p \in Proc, Kept, Steady, \A q \in Workers : WorkerOk(q),
         NEW j \in JobId, TakesJob(p, "syncing", j),
         NEW g, g = loc[p].gen, About(j, g)'
  PROVE  \A q \in Workers : WorkerOk(q)'
<1>1. /\ Others(p) /\ pc'[p] = "syncing" /\ loc'[p].job = j
      /\ loc'[p].active = loc[p].active /\ loc'[p].activeGen = loc[p].activeGen
      /\ loc'[p].gen = g
  BY DEF TakesJob, Goes, SameRequest
<1>2. \A q \in Workers \ {p} : WorkerOk(q)'
  BY <1>1, OtherWorkers
<1>3. loc[p].active # NoJob => loc[p].active \in JobId /\ Exists(loc[p].active)
  BY Known DEF Base, IInv, JobsExist
<1>4. ASSUME NEW k, NEW h, k = loc[p].active, h = loc[p].activeGen, k # NoJob,
             p \in Workers
      PROVE  About(k, h)'
  BY <1>3, <1>4 DEF WorkerOk, Kept
<1>5. j # NoJob
  BY DEF JobId, NoJob
<1>6. ASSUME NEW h, h = AckGeneration(p)', p \in Workers
      PROVE  About(j, h)'
  <2>1. CASE j = loc[p].active
    <3>1. h = loc[p].activeGen
      BY <1>1, <1>6, <2>1 DEF AckGeneration
    <3> QED BY <1>4, <1>5, <1>6, <2>1, <3>1
  <2>2. CASE j # loc[p].active
    <3>1. h = g
      BY <1>1, <1>6, <2>2 DEF AckGeneration
    <3> QED BY <3>1
  <2> QED BY <2>1, <2>2
<1>7. p \in Workers => About(loc[p].job, AckGeneration(p))'
  <2>1. ASSUME NEW h, h = AckGeneration(p)', p \in Workers
        PROVE  About(loc[p].job, AckGeneration(p))'
    <3>1. About(j, h)'
      BY <1>6, <2>1
    <3> QED BY <1>1, <2>1, <3>1
  <2> QED BY <2>1
<1>8. p \in Workers /\ loc[p].active # NoJob => About(loc[p].active, loc[p].activeGen)'
  <2>1. ASSUME NEW k, NEW h, k = loc[p].active, h = loc[p].activeGen, k # NoJob,
               p \in Workers
        PROVE  About(loc[p].active, loc[p].activeGen)'
    <3>1. About(k, h)'
      BY <1>4, <2>1
    <3> QED BY <1>1, <2>1, <3>1
  <2> QED BY <2>1
<1>9. p \in Workers => WorkerOk(p)'
  BY <1>1, <1>7, <1>8 DEF WorkerOk, Delivering
<1> QED BY <1>2, <1>9

\* A worker that goes on with its job.
LEMMA WorkerWorks ==
  ASSUME Base, NEW p \in Proc, Kept, Steady, \A q \in Workers : WorkerOk(q),
         Others(p), pc[p] \in Delivering \ {"acknowledge"}, pc'[p] = "step",
         loc'[p].job = loc[p].job, loc'[p].gen = loc[p].gen,
         loc'[p].active = loc[p].active, loc'[p].activeGen = loc[p].activeGen
  PROVE  \A q \in Workers : WorkerOk(q)'
<1>1. \A q \in Workers \ {p} : WorkerOk(q)'
  BY OtherWorkers
<1>2. /\ loc[p].active # NoJob => loc[p].active \in JobId /\ Exists(loc[p].active)
      /\ loc[p].job \in JobId /\ Exists(loc[p].job)
  BY Known DEF Base, IInv, JobsExist, Delivering, AtJob
<1>3. AckGeneration(p)' = AckGeneration(p)
  BY DEF AckGeneration
<1>4. ASSUME NEW j, NEW g, j = loc[p].active, g = loc[p].activeGen, j # NoJob,
             p \in Workers
      PROVE  About(loc[p].active, loc[p].activeGen)'
  <2>1. About(j, g)'
    BY <1>2, <1>4 DEF WorkerOk, Kept
  <2> QED BY <1>4, <2>1
<1>5. ASSUME NEW j, NEW g, j = loc[p].job, g = AckGeneration(p), p \in Workers
      PROVE  About(loc[p].job, AckGeneration(p))'
  <2>1. About(j, g)'
    BY <1>2, <1>5 DEF WorkerOk, Kept
  <2>2. loc'[p].job = j /\ AckGeneration(p)' = g
    BY <1>3, <1>5
  <2> QED BY <2>1, <2>2
<1>6. p \in Workers => WorkerOk(p)'
  BY <1>4, <1>5 DEF WorkerOk
<1> QED BY <1>1, <1>6

-----------------------------------------------------------------------------
\* Every action.

\* The parts of a step of p that leave the invariant true.
LEMMA Assemble ==
  ASSUME Base, DeliveryInv, NEW p \in Proc, RowsMove(p), Steady,
         Kept /\ Deliveries => RequestOk' /\ \A q \in Workers : WorkerOk(q)'
  PROVE  DeliveryInv'
<1>1. Kept /\ AutoKnown' /\ (RowsOk => RowsOk')
  BY RowsKeep
<1>2. gate' = gate
  BY DEF Steady
<1> QED BY <1>1, <1>2 DEF DeliveryInv, Deliveries

\* A step after which p acknowledges nothing, or goes on with its job.
LEMMA StopsDeliver ==
  ASSUME Base, DeliveryInv, NEW p \in Proc, RowsMove(p), Steady,
         UNCHANGED request \/ Quieter(request'), NEW S, Stops(p, S),
         \A label \in S :
           \/ label \notin Delivering
           \/ /\ pc[p] \in Delivering
              /\ label = "acknowledge" => jobs'[loc[p].job].state = "succeeded"
  PROVE  DeliveryInv'
<1>1. Kept /\ Deliveries => RequestOk' /\ \A q \in Workers : WorkerOk(q)'
  BY RequestKept, WorkerStops DEF Deliveries
<1> QED BY <1>1, Assemble

\* A step of an action that leaves the product alone.
LEMMA ProcessSteady ==
  ASSUME Base, NEW p \in Proc,
         Act(p) \/ Poll(p) \/ RunProduct(p) \/ Crash(p) \/ Recover(p)
  PROVE  Steady
<1>1. /\ Control /\ IInv /\ RequestInv
      /\ request \in Request /\ RowChecked(request) /\ request.desired \in Nat
  BY Known, RowChecks DEF Base, Data, Request
<1>2. request.desired <= request.desired
  BY <1>1
<1>3. Clear(request).desired = request.desired
  BY <1>1, <1>2, StatementsChecked
<1>4. request'.desired = request.desired
  BY <1>1, <1>3, EnqueueRemembers, AttachRequest, ApplyRemembers, PassRequest,
     RecoverRemembers DEF Act, Enqueue
<1>5. UNCHANGED amberVars
  BY DEF Act, Enqueue, EnqueueEnter, UseExisting, PlanJob, PlanFault,
     InsertJob, ApplyJob, ApplyBusy, ApplyRefused, BlockRefused, ApplyEnter,
     Begin, NextStep, Mark, Send, Readback, Verify, FinalReadback, Succeed,
     ReadFault, SaveFailure, Poll, RunProduct, Claim, ConsumeReceipt, Decide,
     SupersedeUndispatched, ClearActive, Syncing, Attend, RetryLater,
     AcknowledgeApplied, EndPass, Crash, Recover, ManualEnqueue, ManualApply,
     ReconcileObserve, ReconcileCommit, SupersedeObserve, SupersedeCommit
<1> QED BY <1>4, <1>5 DEF Steady, amberVars

\* A snapshot that was checked is the product.
LEMMA SnapshotIsProduct ==
  ASSUME NEW p
  PROVE  /\ AssertSnapshot(p) = "none" =>
              loc[p].snap = product /\ loc[p].gen = request.desired
         /\ Revalidate(p) = "none" => loc[p].snap = product
BY DEF AssertSnapshot, Revalidate

\* The job that enqueue returns is one it may reuse.
LEMMA ExistingReusable ==
  ASSUME NEW p \in Proc, ExistingJob(p) # NoJob
  PROVE  ExistingJob(p) \in JobId /\ Reusable(p, ExistingJob(p))
<1> DEFINE found == {j \in JobId : Reusable(p, j)}
<1>1. found # {} /\ ExistingJob(p) = Newest(found)
  BY DEF ExistingJob
<1>2. Newest(found) \in found
  BY <1>1, NewestType
<1> QED BY <1>1, <1>2

LEMMA EnqueueDelivers ==
  ASSUME Base, DeliveryInv, NEW p \in Proc, Enqueue(p)
  PROVE  DeliveryInv'
<1> USE DEF Thrown, Delivering
<1>1. /\ Control /\ Data /\ IInv /\ Steady /\ request \in Request
      /\ loc[p].gen \in Nat /\ loc[p].gen <= request.desired
  BY ProcessSteady, Known DEF Base, Data, Act, RequestInv, GensKnown
<1>2. CASE EnqueueEnter(p) \/ PlanJob(p) \/ PlanFault(p)
  <2>1. RowsMove(p) /\ UNCHANGED request
    BY <1>2 DEF EnqueueEnter, PlanJob, PlanFault, ledgerVars, historyVars, RowsMove
  <2> QED BY <1>1, <1>2, <2>1, EnqueueEnterMoves, PlanMoves, StopsDeliver
<1>3. CASE UseExisting(p)
  <2>1. RowsMove(p)
    BY <1>3 DEF UseExisting, ledgerVars, historyVars, RowsMove
  <2>2. CASE Stops(p, Thrown) /\ UNCHANGED request
    BY <1>1, <2>1, <2>2, StopsDeliver
  <2>3. ASSUME NEW j, j = ExistingJob(p), NEW g, g = loc[p].gen,
               p \in Workers, AssertSnapshot(p) = "none", jobs[j].amber = loc[p].snap,
               request' = Attach(request, j, g), TakesJob(p, "syncing", j)
        PROVE  DeliveryInv'
    <3>1. j \in JobId /\ Reusable(p, j) /\ Exists(j)
      BY <1>3, <2>3, ExistingReusable DEF UseExisting, Reusable
    <3>2. jobs[j].amber.input = product.input /\ g = request.desired
      BY <2>3, SnapshotIsProduct
    <3>3. Succ(j) => jobs[j].auto = g
      BY <2>3, <3>1 DEF Reusable, Succ
    <3>4. Deliveries => About(j, g)
      BY <3>1, <3>2, <3>3 DEF Deliveries, RowsOk, About, Created
    <3>5. Kept /\ Deliveries => RequestOk' /\ \A q \in Workers : WorkerOk(q)'
      <4> SUFFICES ASSUME Kept, Deliveries
                   PROVE  RequestOk' /\ \A q \in Workers : WorkerOk(q)'
        OBVIOUS
      <4>1. About(j, g)'
        BY <3>1, <3>4 DEF Kept
      <4> QED BY <1>1, <2>3, <3>1, <4>1, AttachOk, WorkerTakes DEF Deliveries
    <3> QED BY <1>1, <2>1, <3>5, Assemble
  <2> QED BY <1>1, <1>3, <2>2, <2>3, UseExistingMoves
<1>4. CASE InsertJob(p)
  <2>1. UNCHANGED acked
    BY <1>4 DEF InsertJob, historyVars
  <2>2. CASE Stops(p, Thrown) /\ UNCHANGED <<request, jobs>>
    BY <1>1, <2>1, <2>2, StopsDeliver DEF RowsMove
  <2>3. ASSUME NEW j \in JobId, NEW g, g = loc[p].gen, Inserts(p, j),
               (IF p \in Workers THEN AssertSnapshot(p) ELSE Revalidate(p)) = "none",
               IF p \in Workers
               THEN request' = Attach(request, j, g) /\ TakesJob(p, "syncing", j)
               ELSE Stops(p, Thrown) /\ UNCHANGED request
        PROVE  DeliveryInv'
    <3>1. loc[p].snap = product
      BY <2>3, SnapshotIsProduct
    <3>2. RowsMove(p)
      BY <1>1, <2>1, <2>3, <3>1 DEF RowsMove
    <3>3. CASE p \notin Workers
      BY <1>1, <2>3, <3>2, <3>3, StopsDeliver
    <3>4. CASE p \in Workers
      <4>1. jobs'[j].amber.input = product.input /\ jobs'[j].state = "queued"
        BY <2>3, <3>1 DEF Inserts
      <4>2. About(j, g)'
        BY <1>1, <4>1 DEF About, Succ, Steady
      <4>3. Kept /\ Deliveries => RequestOk' /\ \A q \in Workers : WorkerOk(q)'
        BY <1>1, <2>3, <3>4, <4>2, AttachOk, WorkerTakes DEF Deliveries
      <4> QED BY <1>1, <3>2, <4>3, Assemble
    <3> QED BY <3>3, <3>4
  <2> QED BY <1>1, <1>4, <2>2, <2>3, InsertRow
<1> QED BY <1>2, <1>3, <1>4 DEF Enqueue

LEMMA ApplyDelivers ==
  ASSUME Base, DeliveryInv, NEW p \in Proc, ApplyJob(p)
  PROVE  DeliveryInv'
<1> USE DEF Thrown, Answered, Delivering
<1> DEFINE j == loc[p].job
<1>1. Control /\ Steady /\ IInv /\ UNCHANGED request
  BY ProcessSteady, ApplyRemembers, Known DEF Base, Act
<1>2. CASE ApplyBusy(p) \/ ApplyRefused(p)
  <2>1. RowsMove(p) /\ pc[p] = "apply"
    BY <1>2 DEF ApplyBusy, ApplyRefused, ledgerVars, historyVars, RowsMove
  <2> QED BY <1>1, <1>2, <2>1, EarlyApplyMoves, StopsDeliver
<1>3. CASE BlockRefused(p)
  <2>1. UNCHANGED acked /\ j \in JobId
    BY <1>1, <1>3, Known DEF BlockRefused, historyVars, AtJob
  <2>2. RowsMove(p)
    BY <1>1, <1>3, <2>1, BlockRewrites DEF RowsMove
  <2> QED BY <1>1, <1>3, <2>2, EarlyApplyMoves, StopsDeliver
<1>4. CASE ApplyEnter(p)
  <2>1. RowsMove(p) /\ pc[p] = "apply" /\ UNCHANGED jobs
    BY <1>4 DEF ApplyEnter, ledgerVars, historyVars, RowsMove
  <2>2. CASE Stops(p, Thrown) \/ Stops(p, {"begin", "fail"})
    BY <1>1, <2>1, <2>2, StopsDeliver
  <2>3. CASE Stops(p, Answered) /\ jobs[j].state = "succeeded"
    BY <1>1, <2>1, <2>3, StopsDeliver
  <2> QED BY <1>1, <1>4, <2>2, <2>3, ApplyEnterMoves
<1>5. CASE Begin(p) \/ NextStep(p) \/ Verify(p)
  <2>1. UNCHANGED acked /\ pc[p] \in {"begin", "step", "verify"}
    BY <1>5 DEF Begin, NextStep, Verify, historyVars
  <2>2. j \in JobId
    BY <1>1, <2>1, Known DEF AtJob
  <2>3. RowsMove(p)
    <3>1. NextStep(p) \/ Verify(p) => UNCHANGED jobs
      BY DEF NextStep, Verify, ledgerVars
    <3> QED BY <1>1, <1>5, <2>1, <2>2, <3>1, BeginRewrites DEF RowsMove
  <2>4. CASE Stops(p, {"fail", "mark", "verify"}) \/ Stops(p, {"fail"})
    BY <1>1, <2>1, <2>3, <2>4, StopsDeliver
  <2>5. ASSUME NEW S, HasLeft(p, S)
        PROVE  DeliveryInv'
    <3>1. PICK m : /\ Goes(p, "step", m) /\ SameRequest(m, loc[p])
                   /\ m.job = loc[p].job
      BY <2>5 DEF HasLeft
    <3>2. /\ Others(p) /\ pc'[p] = "step" /\ loc'[p].job = loc[p].job
          /\ loc'[p].gen = loc[p].gen /\ loc'[p].active = loc[p].active
          /\ loc'[p].activeGen = loc[p].activeGen
      BY <3>1 DEF Goes, SameRequest
    <3>3. Kept /\ Deliveries => \A q \in Workers : WorkerOk(q)'
      BY <1>1, <2>1, <3>2, WorkerWorks DEF Deliveries
    <3>4. Kept /\ Deliveries => RequestOk'
      BY <1>1, RequestKept DEF Deliveries
    <3> QED BY <1>1, <2>3, <3>3, <3>4, Assemble
  <2> QED BY <1>1, <1>5, <2>4, <2>5, BeginMoves, NextStepMoves, VerifyMoves
<1>6. CASE Mark(p) \/ Send(p) \/ Readback(p) \/ FinalReadback(p) \/ ReadFault(p)
  <2>1. RowsMove(p) /\ pc[p] \in Delivering
    BY <1>6 DEF Mark, Send, Readback, FinalReadback, ReadFault, ledgerVars,
       historyVars, RowsMove
  <2> QED BY <1>1, <1>6, <2>1, StepMoves, StopsDeliver
<1>7. CASE Succeed(p)
  <2>1. pc[p] = "succeed" /\ j \in JobId
    BY <1>1, <1>7, Known DEF Succeed, AtJob
  <2>2. CASE UNCHANGED <<jobs, acked>> /\ Stops(p, {"fail"})
    BY <1>1, <2>1, <2>2, StopsDeliver DEF RowsMove
  <2>3. CASE /\ Rewrites(j, "succeeded") /\ acked' = jobs[j].amber.input
             /\ Stops(p, {"fail"}) \/ Stops(p, Answered)
    <3>1. RowsMove(p)
      BY <2>1, <2>3 DEF RowsMove
    <3>2. jobs'[j].state = "succeeded"
      BY <2>3 DEF Rewrites
    <3> QED BY <1>1, <2>1, <2>3, <3>1, <3>2, StopsDeliver
  <2> QED BY <1>1, <1>7, <2>2, <2>3, SucceedRewrites
<1>8. CASE SaveFailure(p)
  <2>1. UNCHANGED acked /\ j \in JobId
    BY <1>1, <1>8, Known DEF SaveFailure, historyVars, AtJob
  <2>2. RowsMove(p)
    BY <1>1, <1>8, <2>1, FailureRewrites DEF RowsMove
  <2> QED BY <1>1, <1>8, <2>2, StepMoves, StopsDeliver
<1> QED BY <1>2, <1>3, <1>4, <1>5, <1>6, <1>7, <1>8 DEF ApplyJob

LEMMA PassDelivers ==
  ASSUME Base, DeliveryInv, NEW p \in Workers, Poll(p) \/ RunProduct(p)
  PROVE  DeliveryInv'
<1> USE DEF Thrown, Delivering
<1> DEFINE j == loc[p].job
<1>1. /\ p \in Proc /\ Control /\ Steady /\ IInv /\ request \in Request
  BY ProcessSteady, Known DEF Base, Data, Proc
<1>2. CASE Poll(p) \/ ClearActive(p) \/ Syncing(p) \/ Attend(p) \/ RetryLater(p)
  <2>1. RowsMove(p)
    BY <1>2 DEF Poll, ClearActive, Syncing, Attend, RetryLater, EndPass,
       ledgerVars, historyVars, RowsMove
  <2>2. UNCHANGED request \/ Quieter(request')
    BY <1>1, <1>2, QuieterRows DEF Poll, ClearActive, Syncing, Attend,
       RetryLater, EndPass
  <2>3. Syncing(p) => pc[p] = "syncing"
    BY DEF Syncing
  <2>4. CASE Poll(p) \/ ClearActive(p) \/ Attend(p) \/ RetryLater(p)
    <3>1. \E S \in {{"selected"}, {"enqueue", "attend"}, {"idle"}} : Stops(p, S)
      BY <1>1, <2>4, PassMoves
    <3> QED BY <1>1, <2>1, <2>2, <3>1, StopsDeliver
  <2>5. CASE Syncing(p)
    <3>1. Stops(p, {"apply"})
      BY <1>1, <2>5, PassMoves
    <3> QED BY <1>1, <2>1, <2>2, <2>3, <2>5, <3>1, StopsDeliver
  <2> QED BY <1>2, <2>4, <2>5
<1>3. CASE SupersedeUndispatched(p)
  <2>1. UNCHANGED <<request, acked>> /\ j \in JobId
    BY <1>1, <1>3, Known DEF SupersedeUndispatched, historyVars, AtJob
  <2>2. RowsMove(p)
    BY <1>1, <1>3, <2>1, SupersedeRewrites DEF RowsMove
  <2>3. Stops(p, Thrown \cup {"clear"})
    BY <1>1, <1>3, PassMoves
  <2> QED BY <1>1, <2>1, <2>2, <2>3, StopsDeliver
<1>4. ASSUME NEW k \in JobId, NEW g, Exists(k), Succ(k), Stops(p, {"idle"}),
             request' = Acknowledge(request, g), UNCHANGED <<jobs, acked>>,
             Deliveries => About(k, g)
      PROVE  DeliveryInv'
  <2>1. RowsMove(p)
    BY <1>4 DEF RowsMove
  <2>2. Kept /\ Deliveries => RequestOk' /\ \A q \in Workers : WorkerOk(q)'
    BY <1>1, <1>4, AcknowledgeOk, WorkerStops DEF Deliveries
  <2> QED BY <1>1, <2>1, <2>2, Assemble
<1>5. CASE ConsumeReceipt(p)
  <2>1. ASSUME NEW k, NEW g, k = loc[p].active, g = loc[p].activeGen
        PROVE  DeliveryInv'
    <3>1. /\ k # NoJob /\ Succ(k) /\ request' = Acknowledge(request, g)
          /\ UNCHANGED <<jobs, acked>>
      BY <1>5, <2>1 DEF ConsumeReceipt, Succ, ledgerVars, historyVars
    <3>2. k \in JobId /\ Exists(k)
      BY <1>1, <2>1, <3>1, Known DEF IInv, JobsExist
    <3>3. Deliveries => About(k, g)
      BY <2>1, <3>1 DEF Deliveries, WorkerOk
    <3>4. Stops(p, {"idle"})
      BY <1>1, <1>5, PassMoves
    <3> QED BY <1>4, <3>1, <3>2, <3>3, <3>4
  <2> QED BY <2>1
<1>6. CASE AcknowledgeApplied(p)
  <2>1. ASSUME NEW k, NEW g, k = loc[p].job, g = AckGeneration(p)
        PROVE  DeliveryInv'
    <3>1. /\ pc[p] = "acknowledge" /\ request' = Acknowledge(request, g)
          /\ UNCHANGED <<jobs, acked>>
      BY <1>6, <2>1 DEF AcknowledgeApplied, EndPass, ledgerVars, historyVars
    <3>2. Deliveries => About(k, g) /\ k \in Created /\ Succ(k)
      BY <2>1, <3>1 DEF Deliveries, WorkerOk
    <3>3. Stops(p, {"idle"})
      BY <1>1, <1>6, PassMoves
    <3>4. RowsMove(p)
      BY <3>1 DEF RowsMove
    <3>5. Kept /\ Deliveries => RequestOk' /\ \A q \in Workers : WorkerOk(q)'
      BY <1>1, <3>1, <3>2, <3>3, AcknowledgeOk, WorkerStops DEF Deliveries, Created
    <3> QED BY <1>1, <3>4, <3>5, Assemble
  <2> QED BY <2>1
<1>7. CASE Claim(p) \/ Decide(p)
  <2>1. RowsMove(p) /\ UNCHANGED <<request, jobs>>
    BY <1>7 DEF Claim, Decide, ledgerVars, historyVars, RowsMove
  <2>2. Kept /\ Deliveries => RequestOk'
    BY <1>1, <2>1, RequestKept DEF Deliveries
  <2>3. ASSUME Kept, Deliveries  PROVE \A q \in Workers : WorkerOk(q)'
    <3>1. CASE \E label \in {"idle", "enqueue", "attend", "clear", "supersede"} :
                 \E m : /\ Goes(p, label, m) /\ m.active = loc[p].active
                        /\ m.activeGen = loc[p].activeGen
      <4>1. /\ Others(p) /\ pc'[p] \notin Delivering
            /\ loc'[p].active = loc[p].active
            /\ loc'[p].activeGen = loc[p].activeGen
        BY <3>1 DEF Goes
      <4> QED BY <1>1, <2>3, <4>1, WorkerLeaves DEF Deliveries
    <3>2. CASE \E m : /\ Goes(p, "claimed", m) /\ m.active = request.active
                      /\ m.activeGen = request.activeGen
      <4>1. /\ Others(p) /\ pc'[p] = "claimed"
            /\ loc'[p].active = request.active
            /\ loc'[p].activeGen = request.activeGen
        BY <3>2 DEF Goes
      <4>2. \A q \in Workers \ {p} : WorkerOk(q)'
        BY <1>1, <2>3, <4>1, OtherWorkers DEF Deliveries
      <4>3. ASSUME NEW k, NEW g, k = request.active, g = request.activeGen, k # NoJob
            PROVE  About(loc[p].active, loc[p].activeGen)'
        <5>1. k \in JobId /\ Exists(k) /\ About(k, g)
          BY <1>1, <2>3, <4>3 DEF Deliveries, RequestOk, IInv, JobsExist, Request
        <5>2. About(k, g)'
          BY <2>3, <5>1 DEF Kept
        <5> QED BY <4>1, <4>3, <5>2
      <4>4. WorkerOk(p)'
        BY <4>1, <4>3 DEF WorkerOk
      <4> QED BY <4>2, <4>4
    <3>3. ASSUME NEW k, k = Found(p), NEW g, g = loc[p].gen,
                 TakesJob(p, "syncing", k), k # NoJob, ~Obsolete(p, k)
          PROVE  \A q \in Workers : WorkerOk(q)'
      <4>1. k \in JobId /\ Exists(k) /\ jobs[k].auto = g
        BY <1>1, <3>3, FoundType DEF Obsolete
      <4>2. About(k, g)
        BY <2>3, <4>1 DEF Deliveries, RowsOk, Created
      <4>3. About(k, g)'
        BY <2>3, <4>1, <4>2 DEF Kept
      <4> QED BY <1>1, <2>3, <3>3, <4>1, <4>3, WorkerTakes DEF Deliveries
    <3>4. CASE Claim(p)
      BY <1>1, <3>1, <3>2, <3>4, ClaimMoves
    <3>5. CASE Decide(p)
      <4>1. \A label : TakesJob(p, label, Found(p)) =>
              \E m : /\ Goes(p, label, m) /\ m.active = loc[p].active
                     /\ m.activeGen = loc[p].activeGen
        BY DEF TakesJob, SameRequest
      <4> QED BY <1>1, <3>1, <3>3, <3>5, <4>1, DecideMoves
    <3> QED BY <1>7, <3>4, <3>5
  <2> QED BY <1>1, <2>1, <2>2, <2>3, Assemble
<1> QED BY <1>2, <1>3, <1>5, <1>6, <1>7 DEF RunProduct

LEMMA CrashDelivers ==
  ASSUME Base, DeliveryInv, NEW p \in Proc, Crash(p)
  PROVE  DeliveryInv'
<1>1. Control /\ Steady
  BY ProcessSteady, Known DEF Base
<1>2. RowsMove(p) /\ UNCHANGED request
  BY DEF Crash, ledgerVars, historyVars, RowsMove
<1>3. Stops(p, {"idle"})
  BY <1>1, PassMoves
<1> QED BY <1>1, <1>2, <1>3, StopsDeliver DEF Delivering

LEMMA RecoverDelivers ==
  ASSUME Base, DeliveryInv, NEW p \in Operators, Recover(p)
  PROVE  DeliveryInv'
<1>1. /\ p \in Proc /\ p \notin Workers /\ Control /\ Steady /\ IInv
      /\ request \in Request
  BY ProcessSteady, Known, ProcAssumption DEF Base, Data, Proc
<1>2. Others(p) /\ (UNCHANGED request \/ Quieter(request'))
  BY <1>1, RecoverRemembers, QuieterRows DEF Remembers
<1>3. RowsMove(p)
  <2>1. CASE ReconcileCommit(p)
    <3>1. loc[p].job \in JobId
      BY <1>1, <2>1, Known DEF ReconcileCommit, AtJob
    <3> QED BY <1>1, <2>1, <3>1, ReconcileRewrites DEF RowsMove
  <2>2. CASE SupersedeCommit(p)
    <3>1. loc[p].job \in JobId /\ UNCHANGED acked
      BY <1>1, <2>2, Known DEF SupersedeCommit, AtJob
    <3> QED BY <1>1, <2>2, <3>1, RetireRewrites DEF RowsMove
  <2>3. CASE ManualEnqueue(p) \/ ManualApply(p) \/ ReconcileObserve(p)
             \/ SupersedeObserve(p)
    BY <2>3 DEF ManualEnqueue, ManualApply, ReconcileObserve, SupersedeObserve,
       ledgerVars, historyVars, RowsMove
  <2> QED BY <2>1, <2>2, <2>3 DEF Recover
<1>4. ASSUME Kept, Deliveries  PROVE RequestOk' /\ \A q \in Workers : WorkerOk(q)'
  <2>1. \A q \in Workers \ {p} : WorkerOk(q)'
    BY <1>1, <1>2, <1>4, OtherWorkers DEF Deliveries
  <2>2. RequestOk'
    BY <1>1, <1>2, <1>4, RequestKept DEF Deliveries
  <2> QED BY <1>1, <2>1, <2>2
<1> QED BY <1>1, <1>3, <1>4, Assemble

\* A newer generation: no job and no process speaks for it yet.
LEMMA NewGeneration ==
  ASSUME Base, DeliveryInv, request' = Bump(request),
         UNCHANGED <<jobs, loc, pc, gate>>
  PROVE  DeliveryInv'
<1>1. /\ request \in Request /\ request.desired \in Nat
      /\ request'.desired = request.desired + 1 /\ request'.state # "synced"
      /\ request'.active = request.active /\ request'.activeGen = request.activeGen
      /\ request.activeGen \in Nat /\ request.activeGen <= request.desired
  BY SplitType DEF Base, IInv, RequestInv, RequestChecks, Data, Request, Bump
<1>2. ASSUME NEW j, NEW g \in Nat, g <= request.desired  PROVE About(j, g)'
  BY <1>1, <1>2 DEF About
<1>3. Created' = Created /\ \A j \in Created : j \in JobId /\ jobs[j].auto \in Nat
  <2>1. jobs \in [JobId -> Job \cup {NoRow}]
    BY SplitType DEF Base, IInv, Data
  <2> QED BY <2>1 DEF Created, Exists, Job
<1>4. AutoKnown /\ AutoKnown'
  BY <1>1, <1>3 DEF AutoKnown, DeliveryInv
<1>5. ASSUME NEW j \in Created  PROVE About(j, jobs[j].auto)'
  <2>1. ASSUME NEW g, g = jobs[j].auto  PROVE About(j, jobs[j].auto)'
    <3>1. About(j, g)'
      BY <1>2, <1>3, <1>4, <2>1 DEF AutoKnown
    <3> QED BY <2>1, <3>1
  <2> QED BY <2>1
<1>6. RequestOk'
  <2>1. ASSUME NEW j, NEW g, j = request.active, g = request.activeGen
        PROVE  About(request.active, request.activeGen)'
    <3>1. About(j, g)'
      BY <1>1, <1>2, <2>1
    <3> QED BY <1>1, <2>1, <3>1
  <2> QED BY <1>1, <2>1 DEF RequestOk
<1>7. ASSUME gate, NEW p \in Workers  PROVE WorkerOk(p)'
  <2>1. /\ p \in Proc /\ loc[p].gen \in Nat /\ loc[p].activeGen \in Nat
        /\ loc[p].gen <= request.desired /\ loc[p].activeGen <= request.desired
    BY Known DEF Proc, Base, RequestInv, GensKnown
  <2>2. ASSUME NEW j, NEW g, j = loc[p].active, g = loc[p].activeGen
        PROVE  About(loc[p].active, loc[p].activeGen)'
    <3>1. About(j, g)'
      BY <1>2, <2>1, <2>2
    <3> QED BY <2>2, <3>1
  <2>3. ASSUME NEW j, NEW g, j = loc[p].job, g = AckGeneration(p)
        PROVE  About(loc[p].job, AckGeneration(p))'
    <3>1. About(j, g)'
      BY <1>2, <2>1, <2>3 DEF AckGeneration
    <3>2. AckGeneration(p)' = g
      BY <2>3 DEF AckGeneration
    <3> QED BY <2>3, <3>1, <3>2
  <2>4. pc[p] = "acknowledge" => loc[p].job \in Created /\ Succ(loc[p].job)
    BY <1>7 DEF DeliveryInv, Deliveries, WorkerOk
  <2> QED BY <1>3, <2>2, <2>3, <2>4 DEF WorkerOk, Succ
<1>8. RowsOk'
  BY <1>3, <1>5 DEF RowsOk
<1> QED BY <1>4, <1>6, <1>7, <1>8 DEF DeliveryInv, Deliveries

\* A step that disturbs nothing the invariant speaks of, or ends the gate.
LEMMA CalmStep ==
  ASSUME DeliveryInv, UNCHANGED <<request, jobs, loc, pc, acked>>,
         gate' => gate /\ product'.input = product.input
  PROVE  DeliveryInv'
<1>1. /\ Created' = Created /\ Unfinished' = Unfinished
      /\ \A p : AckGeneration(p)' = AckGeneration(p)
  BY DEF Created, Unfinished, Exists, AckGeneration
<1>2. AutoKnown'
  BY <1>1 DEF DeliveryInv, AutoKnown
<1>3. gate' => (Good => Good')
  BY <1>1 DEF Good
<1>4. ASSUME gate'  PROVE Deliveries'
  BY <1>1, <1>3, <1>4 DEF DeliveryInv, Deliveries, RequestOk, RowsOk, WorkerOk,
     About, Succ
<1> QED BY <1>2, <1>4 DEF DeliveryInv

LEMMA EnvironmentDelivers ==
  ASSUME Base, DeliveryInv,
         LoseSessions \/ Environment \/ Quiet \/ UNCHANGED vars
  PROVE  DeliveryInv'
<1>1. UNCHANGED <<jobs, loc, pc, acked>>
  BY DEF LoseSessions, Environment, Edit, Touch, Retire, Publish,
     ProcessHandoff, Disable, Deliver, Lose, ForeignWrite, Quiet, vars,
     ledgerVars, historyVars
<1>2. CASE request' = Bump(request) /\ UNCHANGED gate
  BY <1>1, <1>2, NewGeneration
<1>3. CASE UNCHANGED request /\ (gate' => gate /\ product'.input = product.input)
  BY <1>1, <1>3, CalmStep
<1>4. CASE Edit \/ Retire
  BY <1>2, <1>3, <1>4 DEF Edit, Retire, RequestSync
<1>5. CASE Touch
  <2>1. product \in Product
    BY SplitType DEF Base, IInv, Data
  <2>2. product'.input = product.input /\ UNCHANGED <<gate, request>>
    BY <1>5, <2>1 DEF Touch, Product
  <2> QED BY <1>3, <2>2
<1>6. CASE ProcessHandoff
  BY <1>2, <1>3, <1>6 DEF ProcessHandoff
<1>7. CASE LoseSessions \/ Publish \/ Disable \/ Deliver \/ Lose
           \/ ForeignWrite \/ Quiet \/ UNCHANGED vars
  <2>1. UNCHANGED <<request, product>>
    BY <1>7 DEF LoseSessions, Publish, Disable, Deliver, Lose, ForeignWrite,
       Quiet, vars, amberVars
  <2>2. gate' = gate \/ gate' = FALSE
    BY <1>7 DEF LoseSessions, Publish, Disable, Deliver, Lose, ForeignWrite,
       Quiet, vars, amberVars
  <2> QED BY <1>3, <2>1, <2>2
<1> QED BY <1>4, <1>5, <1>6, <1>7 DEF Environment

LEMMA DeliveryInit == Init => DeliveryInv
<1> SUFFICES ASSUME Init  PROVE DeliveryInv
  OBVIOUS
<1>1. Created = {}
  BY DEF Init, Created, Exists
<1>2. /\ request.state = "pending" /\ request.active = NoJob
      /\ \A p \in Proc : pc[p] = "idle" /\ loc[p].active = NoJob
  BY DEF Init, InitialRequest, FreshLocal
<1>3. \A p \in Workers : WorkerOk(p)
  BY <1>2 DEF WorkerOk, Delivering, Proc
<1> QED BY <1>1, <1>2, <1>3 DEF DeliveryInv, Deliveries, AutoKnown, RequestOk, RowsOk

LEMMA DeliveryNext ==
  ASSUME Base, DeliveryInv, [Next]_vars
  PROVE  DeliveryInv'
<1>1. ASSUME NEW p \in Workers, Poll(p) \/ RunProduct(p)  PROVE DeliveryInv'
  BY <1>1, PassDelivers
<1>2. ASSUME NEW p \in Operators, Recover(p)  PROVE DeliveryInv'
  BY <1>2, RecoverDelivers
<1>3. ASSUME NEW p \in Proc, Act(p) \/ Crash(p)  PROVE DeliveryInv'
  BY <1>3, EnqueueDelivers, ApplyDelivers, CrashDelivers DEF Act
<1>4. CASE LoseSessions \/ Environment \/ Quiet \/ UNCHANGED vars
  BY <1>4, EnvironmentDelivers
<1> QED BY <1>1, <1>2, <1>3, <1>4 DEF Next

\* While the gate is on, a request that says synced was acknowledged with the
\* content the product has now, also when the content returned to an earlier
\* value and when sessions, processes and answers were lost: every late
\* acknowledgement names the generation its job was planned for.
THEOREM SyncedDelivered == Spec => []SyncedMeansDelivered
<1>1. Init => Base /\ DeliveryInv
  BY InitLemma, RequestInit, StepInit, DeliveryInit DEF Base
<1>2. Base /\ DeliveryInv /\ [Next]_vars => Base' /\ DeliveryInv'
  BY NextLemma, RequestNext, StepNext, DeliveryNext DEF Base
<1>3. DeliveryInv => SyncedMeansDelivered
  BY DEF DeliveryInv, Deliveries, RequestOk, Good, SyncedMeansDelivered
<1> QED BY <1>1, <1>2, <1>3, PTL DEF Spec
=============================================================================
