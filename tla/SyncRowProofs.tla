--------------------------- MODULE SyncRowProofs ----------------------------
(***************************************************************************)
(* Proofs about the rows of MagentoSync that need no lock: the request     *)
(* passes its row checks, and a job succeeds with all it planned verified. *)
(* They start from how a step may change the job rows and what a process   *)
(* keeps of what it read.                                                  *)
(***************************************************************************)
EXTENDS MagentoSyncProofs

-----------------------------------------------------------------------------
\* What a process keeps of what it read.

\* The scopes l and m have the same request row, and the same work.
SameRequest(m, l) ==
  m.gen = l.gen /\ m.active = l.active /\ m.activeGen = l.activeGen
SameWork(m, l) ==
  /\ SameRequest(m, l) /\ m.job = l.job /\ m.todo = l.todo
  /\ m.seen = l.seen /\ m.complete = l.complete

Others(p) == \A q \in Proc \ {p} : pc'[q] = pc[q] /\ loc'[q] = loc[q]

\* p goes to label with the scope m.
Goes(p, label, m) == Others(p) /\ pc'[p] = label /\ loc'[p] = m

LEMMA ScopeUpdates ==
  ASSUME NEW l \in Local, NEW x, NEW y, NEW z
  PROVE  /\ SameWork([l EXCEPT !.reason = x], l)
         /\ SameWork([l EXCEPT !.code = x], l)
         /\ SameWork([l EXCEPT !.snap = x], l)
         /\ SameWork([l EXCEPT !.ops = x, !.base = y], l)
         /\ SameWork([l EXCEPT !.snap = x, !.binding = y, !.code = z], l)
BY DEF SameWork, SameRequest, Local

LEMMA JobUpdate ==
  ASSUME NEW l \in Local, NEW x
  PROVE  /\ SameRequest([l EXCEPT !.job = x], l)
         /\ [l EXCEPT !.job = x].job = x
BY DEF SameRequest, Local

LEMMA TodoUpdate ==
  ASSUME NEW l \in Local, NEW x
  PROVE  /\ SameRequest([l EXCEPT !.todo = x], l)
         /\ [l EXCEPT !.todo = x].job = l.job
         /\ [l EXCEPT !.todo = x].todo = x
BY DEF SameRequest, Local

LEMMA GoesTo ==
  ASSUME Control, NEW p \in Proc, NEW label, NEW m, Goto(p, label),
         loc' = [loc EXCEPT ![p] = m]
  PROVE  Goes(p, label, m)
BY DEF Control, Goto, Goes, Others

LEMMA LeaveGoes ==
  ASSUME Control, NEW p \in Proc, NEW label, NEW reason,
         Leave(p, label, reason)
  PROVE  \E m : /\ Goes(p, label, m)
                /\ IF label = "idle" THEN m = FreshLocal ELSE SameWork(m, loc[p])
<1> DEFINE l == loc[p]
<1>1. l \in Local
  BY DEF Control
<1>2. CASE label = "idle"
  BY <1>2, GoesTo DEF Leave
<1>3. CASE label # "idle"
  <2> DEFINE m == [l EXCEPT !.reason = reason]
  <2>1. loc' = [loc EXCEPT ![p] = m] /\ Goto(p, label)
    BY <1>3 DEF Leave
  <2>2. SameWork(m, loc[p])
    <3> HIDE DEF l
    <3>1. SameWork(m, l) BY <1>1, ScopeUpdates
    <3> QED BY <3>1 DEF l
  <2> HIDE DEF m
  <2> QED BY <1>3, <2>1, <2>2, GoesTo
<1> QED BY <1>2, <1>3

\* p stops working on its job: it goes to a label of S.
Stops(p, S) ==
  \E label \in S : \E m :
    /\ Goes(p, label, m)
    /\ IF label = "idle" THEN m = FreshLocal ELSE SameWork(m, loc[p])

\* Where an error and a success lead.
Thrown   == {"idle", "retry", "attend"}
Answered == {"idle", "acknowledge"}

LEMMA ThrowStops ==
  ASSUME Control, NEW p \in Proc, NEW code, Throw(p, code)
  PROVE  Stops(p, Thrown)
<1>1. \E label \in Thrown : \E reason : Leave(p, label, reason)
  BY DEF Throw, Thrown
<1> QED BY <1>1, LeaveGoes DEF Stops, Thrown

\* Only a succeeded job is acknowledged.
LEMMA ReturnStops ==
  ASSUME Control, NEW p \in Proc, NEW state, NEW code, Return(p, state, code)
  PROVE  Stops(p, IF state = "succeeded" THEN Answered ELSE Thrown)
<1>1. \E label \in (IF state = "succeeded" THEN Answered ELSE Thrown) :
        \E reason : Leave(p, label, reason)
  BY DEF Return, Answered, Thrown
<1> QED BY <1>1, LeaveGoes DEF Stops

LEMMA FailStops ==
  ASSUME Control, NEW p \in Proc, NEW code, Fail(p, code)
  PROVE  Stops(p, {"fail"})
<1> DEFINE l == loc[p]
           m == [l EXCEPT !.code = code]
<1>1. l \in Local
  BY DEF Control
<1>2. SameWork(m, loc[p])
  <2> HIDE DEF l
  <2>1. SameWork(m, l) BY <1>1, ScopeUpdates
  <2> QED BY <2>1 DEF l
<1>3. Goes(p, "fail", m)
  BY GoesTo DEF Fail
<1> QED BY <1>2, <1>3 DEF Stops

LEMMA GotoGoes ==
  ASSUME Control, NEW p \in Proc, NEW label, Goto(p, label), UNCHANGED loc
  PROVE  Goes(p, label, loc[p]) /\ SameWork(loc[p], loc[p])
BY DEF Control, Goto, Goes, Others, SameWork, SameRequest
-----------------------------------------------------------------------------
\* Where each action takes its process, and with what.

\* p takes job j to label, or keeps its job with these operations left.
TakesJob(p, label, j) ==
  \E m : Goes(p, label, m) /\ SameRequest(m, loc[p]) /\ m.job = j
HasLeft(p, S) ==
  \E m : /\ Goes(p, "step", m) /\ SameRequest(m, loc[p])
         /\ m.job = loc[p].job /\ m.todo = S

LEMMA StopsMore ==
  ASSUME NEW p, NEW S, NEW T, Stops(p, S), S \subseteq T
  PROVE  Stops(p, T)
BY DEF Stops

\* p goes on at label with the scope m.
LEMMA GoesStops ==
  ASSUME NEW p, NEW S, NEW label \in S, NEW m, Goes(p, label, m),
         label # "idle", SameWork(m, loc[p])
  PROVE  Stops(p, S)
BY DEF Stops

LEMMA GotoStops ==
  ASSUME Control, NEW p \in Proc, NEW S, NEW label \in S, label # "idle",
         Goto(p, label), UNCHANGED loc
  PROVE  Stops(p, S)
BY GotoGoes, GoesStops

LEMMA LeaveStops ==
  ASSUME Control, NEW p \in Proc, NEW S, NEW label \in S, NEW reason,
         Leave(p, label, reason)
  PROVE  Stops(p, S)
BY LeaveGoes DEF Stops

LEMMA EnqueueEnterMoves ==
  ASSUME Control, NEW p \in Proc, EnqueueEnter(p)
  PROVE  Stops(p, Thrown \cup {"plan"})
<1> DEFINE l == loc[p]
           x == product
           m == [l EXCEPT !.snap = x]
<1>1. CASE \E code : Throw(p, code)
  BY <1>1, ThrowStops, StopsMore DEF Thrown
<1>2. CASE Goto(p, "plan") /\ loc' = [loc EXCEPT ![p] = m]
  <2>1. l \in Local
    BY DEF Control
  <2>2. SameWork(m, loc[p])
    <3>1. l = loc[p] OBVIOUS
    <3> HIDE DEF l, x
    <3> QED BY <2>1, <3>1, ScopeUpdates
  <2> HIDE DEF m
  <2> QED BY <1>2, <2>2, GoesTo, GoesStops
<1> QED BY <1>1, <1>2 DEF EnqueueEnter

LEMMA UseExistingMoves ==
  ASSUME Control, NEW p \in Proc, UseExisting(p)
  PROVE  \/ Stops(p, Thrown) /\ UNCHANGED request
         \/ /\ p \in Workers /\ AssertSnapshot(p) = "none"
            /\ jobs[ExistingJob(p)].amber = loc[p].snap
            /\ request' = Attach(request, ExistingJob(p), loc[p].gen)
            /\ TakesJob(p, "syncing", ExistingJob(p))
<1> DEFINE l == loc[p]
           x == ExistingJob(p)
           m == [l EXCEPT !.job = x]
<1>1. CASE UNCHANGED request /\ \E code : Throw(p, code)
  BY <1>1, ThrowStops
<1>3. CASE UNCHANGED request /\ Leave(p, "idle", "none")
  BY <1>3, LeaveStops DEF Thrown
<1>2. CASE /\ p \in Workers /\ AssertSnapshot(p) = "none"
           /\ jobs[ExistingJob(p)].amber = loc[p].snap
           /\ request' = Attach(request, ExistingJob(p), loc[p].gen)
           /\ Goto(p, "syncing") /\ loc' = [loc EXCEPT ![p] = m]
  <2>1. l \in Local
    BY DEF Control
  <2>2. SameRequest(m, loc[p]) /\ m.job = ExistingJob(p)
    <3>1. l = loc[p] /\ x = ExistingJob(p) OBVIOUS
    <3> HIDE DEF l, x
    <3> QED BY <2>1, <3>1, JobUpdate
  <2> HIDE DEF m
  <2> QED BY <1>2, <2>2, GoesTo DEF TakesJob
<1> QED BY <1>1, <1>2, <1>3 DEF UseExisting

LEMMA PlanMoves ==
  ASSUME Control, NEW p \in Proc, PlanJob(p) \/ PlanFault(p)
  PROVE  \/ Stops(p, Thrown)
         \/ Stops(p, {"insert"}) /\ UNCHANGED lockVars /\ ExistingJob(p) = NoJob
<1> DEFINE l == loc[p]
           x == PlanOps(loc[p].snap.input)
           y == remote
           m == [l EXCEPT !.ops = x, !.base = y]
<1>1. CASE \E code : Throw(p, code)
  BY <1>1, ThrowStops, StopsMore DEF Thrown
<1>2. CASE /\ Goto(p, "insert") /\ loc' = [loc EXCEPT ![p] = m]
           /\ UNCHANGED lockVars /\ ExistingJob(p) = NoJob
  <2>1. l \in Local
    BY DEF Control
  <2>2. SameWork(m, loc[p])
    <3>1. l = loc[p] OBVIOUS
    <3> HIDE DEF l, x, y
    <3> QED BY <2>1, <3>1, ScopeUpdates
  <2> HIDE DEF m
  <2> QED BY <1>2, <2>2, GoesTo, GoesStops
<1> QED BY <1>1, <1>2 DEF PlanJob, PlanFault

\* A job that p may work on next: its new one, or the one it found.
LEMMA InsertJobMoves ==
  ASSUME Control, NEW p \in Proc, InsertJob(p)
  PROVE  \/ Stops(p, Thrown) /\ UNCHANGED <<request, jobs>>
         \/ \E j \in JobId :
              /\ ~Exists(j) /\ ~IndexViolation(p)
              /\ (IF p \in Workers THEN AssertSnapshot(p) ELSE Revalidate(p)) = "none"
              /\ jobs' = [jobs EXCEPT ![j] =
                   [state |-> "queued",
                    auto |-> IF p \in Workers THEN loc[p].gen ELSE 0,
                    amber |-> loc[p].snap, binding |-> loc[p].binding,
                    ops |-> loc[p].ops, base |-> loc[p].base, failure |-> "none"]]
              /\ IF p \in Workers
                 THEN /\ request' = Attach(request, j, loc[p].gen)
                      /\ TakesJob(p, "syncing", j)
                 ELSE Stops(p, Thrown) /\ UNCHANGED request
<1> DEFINE l == loc[p]
<1>1. CASE UNCHANGED <<request, jobs>> /\ \E code : Throw(p, code)
  BY <1>1, ThrowStops
<1>2. ASSUME NEW j \in JobId, Goto(p, "syncing"),
             loc' = [loc EXCEPT ![p] = [l EXCEPT !.job = j]]
      PROVE  TakesJob(p, "syncing", j)
  <2> DEFINE m == [l EXCEPT !.job = j]
  <2>1. l \in Local
    BY DEF Control
  <2>2. SameRequest(m, loc[p]) /\ m.job = j
    <3>1. l = loc[p] OBVIOUS
    <3> HIDE DEF l
    <3> QED BY <2>1, <3>1, JobUpdate
  <2>3. loc' = [loc EXCEPT ![p] = m]
    BY <1>2
  <2> HIDE DEF m
  <2> QED BY <1>2, <2>2, <2>3, GoesTo DEF TakesJob
<1>3. ASSUME Leave(p, "idle", "none")  PROVE Stops(p, Thrown)
  BY <1>3, LeaveStops DEF Thrown
<1> HIDE DEF l
<1>4. \A j \in JobId : Goto(p, "syncing") /\ loc' = [loc EXCEPT ![p] = [l EXCEPT !.job = j]]
        => TakesJob(p, "syncing", j)
  BY <1>2
<1> QED BY <1>1, <1>3, <1>4 DEF InsertJob, l

LEMMA EarlyApplyMoves ==
  ASSUME Control, NEW p \in Proc
  PROVE  /\ ApplyBusy(p) => Stops(p, Thrown)
         /\ ApplyRefused(p) => Stops(p, Thrown \cup {"refused"})
         /\ BlockRefused(p) => Stops(p, Thrown)
<1>1. ASSUME NEW code, Throw(p, code)
      PROVE  Stops(p, Thrown) /\ Stops(p, Thrown \cup {"refused"})
  BY <1>1, ThrowStops, StopsMore
<1>2. Leave(p, "refused", "none") => Stops(p, Thrown \cup {"refused"})
  BY LeaveStops
<1>3. Return(p, "blocked", "binding") => Stops(p, Thrown)
  BY ReturnStops
<1> QED BY <1>1, <1>2, <1>3 DEF ApplyBusy, ApplyRefused, BlockRefused

LEMMA ApplyEnterMoves ==
  ASSUME Control, NEW p \in Proc, ApplyEnter(p)
  PROVE  \/ Stops(p, Thrown) /\ UNCHANGED skuLock
         \/ /\ EntryCode(p) = "none" /\ jobs[loc[p].job].state # "succeeded"
            /\ Stops(p, {"begin", "fail"}) /\ skuLock' = p
         \/ /\ EntryCode(p) = "none" /\ jobs[loc[p].job].state = "succeeded"
            /\ Stops(p, Answered) /\ UNCHANGED skuLock
<1> DEFINE l == loc[p]
           x == product
           y == jobs[loc[p].job].binding
           m == [l EXCEPT !.snap = x, !.binding = y, !.code = "amber"]
           label == IF jobs[loc[p].job].amber = product THEN "begin" ELSE "fail"
<1>1. CASE UNCHANGED skuLock /\ \E code : Throw(p, code)
  BY <1>1, ThrowStops
<1>2. CASE /\ EntryCode(p) = "none" /\ jobs[loc[p].job].state = "succeeded"
           /\ Return(p, "succeeded", "none") /\ UNCHANGED skuLock
  BY <1>2, ReturnStops
<1>3. CASE /\ EntryCode(p) = "none" /\ jobs[loc[p].job].state # "succeeded"
           /\ skuLock' = p
           /\ Goto(p, label) /\ loc' = [loc EXCEPT ![p] = m]
  <2>1. l \in Local
    BY DEF Control
  <2>2. SameWork(m, loc[p])
    <3>1. l = loc[p] OBVIOUS
    <3> HIDE DEF l, x, y
    <3> QED BY <2>1, <3>1, ScopeUpdates
  <2>3. label \in {"begin", "fail"} /\ label # "idle"
    OBVIOUS
  <2> HIDE DEF m, label
  <2> QED BY <1>3, <2>2, <2>3, GoesTo, GoesStops
<1> QED BY <1>1, <1>2, <1>3 DEF ApplyEnter

\* An update of the operations left.
LEMMA TodoMoves ==
  ASSUME Control, NEW p \in Proc, NEW S, Goto(p, "step"),
         loc' = [loc EXCEPT ![p].todo = S]
  PROVE  HasLeft(p, S)
<1> DEFINE l == loc[p]
           m == [l EXCEPT !.todo = S]
<1>1. l \in Local
  BY DEF Control
<1>2. SameRequest(m, loc[p]) /\ m.job = loc[p].job /\ m.todo = S
  <2>1. l = loc[p] OBVIOUS
  <2> HIDE DEF l
  <2> QED BY <1>1, <2>1, TodoUpdate
<1>3. loc' = [loc EXCEPT ![p] = m]
  OBVIOUS
<1> HIDE DEF m
<1> QED BY <1>2, <1>3, GoesTo DEF HasLeft

LEMMA BeginMoves ==
  ASSUME Control, NEW p \in Proc, Begin(p)
  PROVE  Stops(p, {"fail"}) \/ HasLeft(p, jobs[loc[p].job].ops)
BY FailStops, TodoMoves DEF Begin

LEMMA NextStepMoves ==
  ASSUME Control, NEW p \in Proc, NextStep(p)
  PROVE  \/ Stops(p, {"fail", "mark", "verify"})
         \/ /\ HasLeft(p, loc[p].todo \ {First(loc[p].todo)})
            /\ steps[loc[p].job][First(loc[p].todo)] = "verified"
<1> DEFINE j == loc[p].job
           f == First(loc[p].todo)
           S == loc[p].todo \ {f}
<1>1. CASE \E code : Fail(p, code)
  BY <1>1, FailStops, StopsMore
<1>2. CASE (Goto(p, "mark") \/ Goto(p, "verify")) /\ UNCHANGED loc
  BY <1>2, GotoStops
<1>3. CASE /\ steps[j][f] = "verified" /\ Goto(p, "step")
           /\ loc' = [loc EXCEPT ![p].todo = S]
  <2> HIDE DEF S
  <2>1. HasLeft(p, S)
    BY <1>3, TodoMoves
  <2> QED BY <1>3, <2>1 DEF S
<1>4. \/ \E code : Fail(p, code)
      \/ Goto(p, "mark") /\ UNCHANGED loc
      \/ Goto(p, "verify") /\ UNCHANGED loc
      \/ /\ steps[j][f] = "verified" /\ pc[p] = "step" /\ UNCHANGED pc
         /\ loc' = [loc EXCEPT ![p].todo = S]
  BY DEF NextStep
<1>5. pc[p] = "step" /\ UNCHANGED pc => Goto(p, "step")
  BY DEF Goto, Control
<1> QED BY <1>1, <1>2, <1>3, <1>4, <1>5

LEMMA StepMoves ==
  ASSUME Control, NEW p \in Proc
  PROVE  /\ Mark(p) => Stops(p, {"fail", "send"})
         /\ Send(p) => Stops(p, {"readback"})
         /\ Readback(p) => Stops(p, {"verify", "fail"})
         /\ FinalReadback(p) => Stops(p, {"succeed", "fail"})
         /\ ReadFault(p) => Stops(p, {"fail"})
         /\ SaveFailure(p) => Stops(p, Thrown)
<1>1. \A code : Fail(p, code) => /\ Stops(p, {"fail"}) /\ Stops(p, {"fail", "send"})
                                 /\ Stops(p, {"verify", "fail"})
                                 /\ Stops(p, {"succeed", "fail"})
  BY FailStops, StopsMore
<1>2. \A code : Throw(p, code) => Stops(p, Thrown)
  BY ThrowStops
<1>3. /\ Goto(p, "send") /\ UNCHANGED loc => Stops(p, {"fail", "send"})
      /\ Goto(p, "readback") /\ UNCHANGED loc => Stops(p, {"readback"})
      /\ Goto(p, "verify") /\ UNCHANGED loc => Stops(p, {"verify", "fail"})
      /\ Goto(p, "succeed") /\ UNCHANGED loc => Stops(p, {"succeed", "fail"})
  BY GotoStops
<1>4. Mark(p) => \/ \E code : Fail(p, code)
                 \/ Goto(p, "send") /\ UNCHANGED loc
  BY DEF Mark
<1>5. \A state, code : state # "succeeded" /\ Return(p, state, code) => Stops(p, Thrown)
  BY ReturnStops
<1>6. \A j, code : FailedState(j, code) # "succeeded"
  BY DEF FailedState
<1>7. SaveFailure(p) => \/ \E code : Throw(p, code)
                        \/ \E j, code, state : /\ state = FailedState(j, code)
                                               /\ Return(p, state, code)
  BY DEF SaveFailure
<1> QED BY <1>1, <1>2, <1>3, <1>4, <1>5, <1>6, <1>7
     DEF Send, Readback, FinalReadback, ReadFault

LEMMA VerifyMoves ==
  ASSUME Control, NEW p \in Proc, Verify(p)
  PROVE  \/ Stops(p, {"fail"}) /\ UNCHANGED steps
         \/ /\ HasLeft(p, loc[p].todo \ {First(loc[p].todo)})
            /\ steps' = [steps EXCEPT ![loc[p].job][First(loc[p].todo)] = "verified"]
<1> DEFINE S == loc[p].todo \ {First(loc[p].todo)}
<1>1. CASE Fail(p, "other") /\ UNCHANGED steps
  BY <1>1, FailStops
<1>2. CASE /\ Goto(p, "step") /\ loc' = [loc EXCEPT ![p].todo = S]
           /\ steps' = [steps EXCEPT ![loc[p].job][First(loc[p].todo)] = "verified"]
  <2> HIDE DEF S
  <2>1. HasLeft(p, S)
    BY <1>2, TodoMoves
  <2> QED BY <1>2, <2>1 DEF S
<1> QED BY <1>1, <1>2 DEF Verify

LEMMA SucceedMoves ==
  ASSUME Control, NEW p \in Proc, Succeed(p)
  PROVE  \/ Stops(p, {"fail"}) /\ UNCHANGED <<jobs, acked>>
         \/ /\ jobs[loc[p].job].state \notin Finished
            /\ jobs' = [jobs EXCEPT ![loc[p].job].state = "succeeded",
                                    ![loc[p].job].failure = "none"]
            /\ acked' = jobs[loc[p].job].amber.input
            /\ Stops(p, {"fail"}) \/ Stops(p, Answered)
<1>1. \A code : Fail(p, code) => Stops(p, {"fail"})
  BY FailStops
<1>2. Return(p, "succeeded", "none") => Stops(p, Answered)
  BY ReturnStops
<1> QED BY <1>1, <1>2 DEF Succeed

LEMMA PassMoves ==
  ASSUME Control, NEW p \in Proc
  PROVE  /\ SupersedeUndispatched(p) => Stops(p, Thrown \cup {"clear"})
         /\ Poll(p) => Stops(p, {"selected"})
         /\ ConsumeReceipt(p) => Stops(p, {"idle"})
         /\ ClearActive(p) => Stops(p, {"enqueue", "attend"})
         /\ Syncing(p) => Stops(p, {"apply"})
         /\ Attend(p) \/ RetryLater(p) \/ AcknowledgeApplied(p) => Stops(p, {"idle"})
         /\ Crash(p) => Stops(p, {"idle"})
<1>1. \A code : Throw(p, code) => Stops(p, Thrown \cup {"clear"})
  BY ThrowStops, StopsMore
<1>2. /\ Goto(p, "clear") /\ UNCHANGED loc => Stops(p, Thrown \cup {"clear"})
      /\ Goto(p, "selected") /\ UNCHANGED loc => Stops(p, {"selected"})
      /\ Goto(p, "apply") /\ UNCHANGED loc => Stops(p, {"apply"})
  BY GotoStops
<1>3. /\ Leave(p, "idle", "none") => Stops(p, {"idle"})
      /\ Leave(p, "enqueue", "none") => Stops(p, {"enqueue", "attend"})
      /\ Leave(p, "attend", "product_retired") => Stops(p, {"enqueue", "attend"})
  BY LeaveStops
<1>4. Crash(p) => Leave(p, "idle", "none")
  BY DEF Crash, Leave
<1> QED BY <1>1, <1>2, <1>3, <1>4
     DEF SupersedeUndispatched, Poll, ConsumeReceipt, ClearActive, Syncing,
         Attend, RetryLater, AcknowledgeApplied, EndPass

LEMMA ClaimMoves ==
  ASSUME Control, NEW p \in Proc, Claim(p)
  PROVE  \/ Goes(p, "idle", loc[p])
         \/ \E m : /\ Goes(p, "claimed", m)
                   /\ m.gen = request.desired /\ m.active = request.active
                   /\ m.activeGen = request.activeGen
<1> DEFINE l == loc[p]
           x == request.desired
           y == request.active
           z == request.activeGen
           m == [l EXCEPT !.gen = x, !.active = y, !.activeGen = z]
<1>1. CASE Goto(p, "idle") /\ UNCHANGED loc
  BY <1>1, GotoGoes
<1>2. CASE Goto(p, "claimed") /\ loc' = [loc EXCEPT ![p] = m]
  <2>1. l \in Local
    BY DEF Control
  <2>2. m.gen = x /\ m.active = y /\ m.activeGen = z
    <3> HIDE DEF l, x, y, z
    <3> QED BY <2>1 DEF Local
  <2> HIDE DEF m
  <2> QED BY <1>2, <2>2, GoesTo
<1> QED BY <1>1, <1>2 DEF Claim

\* What a pass goes on with: only work planned for the generation it read.
LEMMA DecideMoves ==
  ASSUME Control, NEW p \in Proc, Decide(p)
  PROVE  \/ TakesJob(p, "syncing", Found(p)) /\ Found(p) # NoJob /\ ~Obsolete(p, Found(p))
         \/ \E label \in {"enqueue", "attend", "clear", "supersede"} :
              /\ TakesJob(p, label, Found(p))
              /\ label = "supersede" => Found(p) # NoJob
<1> DEFINE l == loc[p]
           j == Found(p)
           x == published
           y == product.active
<1>1. ASSUME NEW label, NEW reason, Goto(p, label),
             loc' = [loc EXCEPT ![p] = [l EXCEPT !.job = j, !.reason = reason,
                                                 !.binding = x, !.live = y]]
      PROVE  TakesJob(p, label, Found(p))
  <2> DEFINE m == [l EXCEPT !.job = j, !.reason = reason, !.binding = x, !.live = y]
  <2>1. l \in Local
    BY DEF Control
  <2>2. SameRequest(m, loc[p]) /\ m.job = Found(p)
    <3>1. l = loc[p] /\ j = Found(p) OBVIOUS
    <3> HIDE DEF l, j, x, y
    <3> QED BY <2>1, <3>1 DEF SameRequest, Local
  <2>3. loc' = [loc EXCEPT ![p] = m]
    BY <1>1
  <2> HIDE DEF m
  <2> QED BY <1>1, <2>2, <2>3, GoesTo DEF TakesJob
<1>2. \/ DecidesTo(p, "enqueue", "none")
      \/ \E reason : DecidesTo(p, "attend", reason)
      \/ DecidesTo(p, "clear", "none")
      \/ Found(p) # NoJob /\ DecidesTo(p, "supersede", "none")
      \/ Found(p) # NoJob /\ ~Obsolete(p, Found(p)) /\ DecidesTo(p, "syncing", "none")
  BY DEF Decide, DecidesTo
<1>3. \A label, reason : DecidesTo(p, label, reason) => TakesJob(p, label, Found(p))
  <2> SUFFICES ASSUME NEW label, NEW reason, DecidesTo(p, label, reason)
               PROVE  TakesJob(p, label, Found(p))
    OBVIOUS
  <2>1. /\ Goto(p, label)
        /\ loc' = [loc EXCEPT ![p] = [l EXCEPT !.job = j, !.reason = reason,
                                               !.binding = x, !.live = y]]
    BY DEF DecidesTo
  <2> QED BY <1>1, <2>1
<1> QED BY <1>2, <1>3

\* A person's command begins.
LEMMA CommandMoves ==
  ASSUME Control, NEW p \in Proc
  PROVE  /\ ManualEnqueue(p) => \E m : Goes(p, "enqueue", m) /\ SameRequest(m, loc[p])
         /\ ManualApply(p) => \E j \in Created : TakesJob(p, "apply", j)
<1> DEFINE l == loc[p]
           x == published
<1>1. l \in Local
  BY DEF Control
<1>2. ASSUME ManualEnqueue(p)
      PROVE  \E m : Goes(p, "enqueue", m) /\ SameRequest(m, loc[p])
  <2> DEFINE m == [l EXCEPT !.binding = x]
  <2>1. SameRequest(m, loc[p])
    <3>1. l = loc[p] OBVIOUS
    <3> HIDE DEF l, x
    <3> QED BY <1>1, <3>1 DEF SameRequest, Local
  <2>2. Goto(p, "enqueue") /\ loc' = [loc EXCEPT ![p] = m]
    BY <1>2 DEF ManualEnqueue
  <2> HIDE DEF m
  <2> QED BY <2>1, <2>2, GoesTo
<1>3. ASSUME ManualApply(p)
      PROVE  \E j \in Created : TakesJob(p, "apply", j)
  <2>1. PICK j \in Created, reviewed \in BOOLEAN :
          loc' = [loc EXCEPT ![p] = [l EXCEPT !.job = j, !.reviewed = reviewed]]
    BY <1>3 DEF ManualApply
  <2> DEFINE m == [l EXCEPT !.job = j, !.reviewed = reviewed]
  <2>2. SameRequest(m, loc[p]) /\ m.job = j
    <3>1. l = loc[p] OBVIOUS
    <3> HIDE DEF l
    <3> QED BY <1>1, <3>1 DEF SameRequest, Local
  <2>3. Goto(p, "apply") /\ loc' = [loc EXCEPT ![p] = m]
    BY <1>3, <2>1 DEF ManualApply
  <2> HIDE DEF m
  <2> QED BY <2>2, <2>3, GoesTo DEF TakesJob
<1> QED BY <1>2, <1>3

\* A review starts from what it observes.
LEMMA ObserveMoves ==
  ASSUME Control, NEW p \in Proc
  PROVE  /\ ReconcileObserve(p) =>
              \E j \in Created : \E m :
                /\ jobs[j].state # "succeeded" /\ Goes(p, "reconcile", m)
                /\ SameRequest(m, loc[p]) /\ m.job = j /\ m.seen = steps[j]
         /\ SupersedeObserve(p) => \E j \in Created : TakesJob(p, "retire", j)
<1> DEFINE l == loc[p]
           x == product
           y == published
<1>1. l \in Local
  BY DEF Control
<1>2. ASSUME ReconcileObserve(p)
      PROVE  \E j \in Created : \E m :
                /\ jobs[j].state # "succeeded" /\ Goes(p, "reconcile", m)
                /\ SameRequest(m, loc[p]) /\ m.job = j /\ m.seen = steps[j]
  <2>1. PICK j \in Created :
          /\ CanReconcile(j)
          /\ loc' = [loc EXCEPT ![p] =
               [l EXCEPT !.job = j, !.snap = x, !.binding = y, !.seen = steps[j],
                         !.complete = VerifiedAll(j)]]
    <3>1. PICK j \in Created :
            /\ CanReconcile(j)
            /\ loc' = [loc EXCEPT ![p].job = j, ![p].snap = product,
                                  ![p].binding = published,
                                  ![p].seen = steps[j],
                                  ![p].complete = VerifiedAll(j)]
      BY <1>2 DEF ReconcileObserve
    <3> WITNESS j \in Created
    <3> QED BY <3>1
  <2> DEFINE s == steps[j]
             v == VerifiedAll(j)
             m == [l EXCEPT !.job = j, !.snap = x, !.binding = y, !.seen = s,
                            !.complete = v]
  <2>2. SameRequest(m, loc[p]) /\ m.job = j /\ m.seen = s
    <3>1. l = loc[p] OBVIOUS
    <3> HIDE DEF l, x, y, s, v
    <3> QED BY <1>1, <3>1 DEF SameRequest, Local
  <2>3. Goto(p, "reconcile") /\ loc' = [loc EXCEPT ![p] = m]
    BY <1>2, <2>1 DEF ReconcileObserve
  <2>4. s = steps[j] /\ jobs[j].state # "succeeded"
    BY <2>1 DEF CanReconcile
  <2> HIDE DEF m, s
  <2> QED BY <2>2, <2>3, <2>4, GoesTo
<1>3. ASSUME SupersedeObserve(p)
      PROVE  \E j \in Created : TakesJob(p, "retire", j)
  <2>1. PICK j \in Created :
          loc' = [loc EXCEPT ![p] =
            [l EXCEPT !.job = j, !.seen = steps[j],
                      !.absent = {f \in Dispatched(j) : NotApplied(j, f)}]]
    BY <1>3 DEF SupersedeObserve
  <2> DEFINE s == steps[j]
             a == {f \in Dispatched(j) : NotApplied(j, f)}
             m == [l EXCEPT !.job = j, !.seen = s, !.absent = a]
  <2>2. SameRequest(m, loc[p]) /\ m.job = j
    <3>1. l = loc[p] OBVIOUS
    <3> HIDE DEF l, s, a
    <3> QED BY <1>1, <3>1 DEF SameRequest, Local
  <2>3. Goto(p, "retire") /\ loc' = [loc EXCEPT ![p] = m]
    BY <1>3, <2>1 DEF SupersedeObserve
  <2> HIDE DEF m
  <2> QED BY <2>2, <2>3, GoesTo DEF TakesJob
<1> QED BY <1>2, <1>3

LEMMA ReviewEnds ==
  ASSUME Control, NEW p \in Proc, ReconcileCommit(p) \/ SupersedeCommit(p)
  PROVE  Stops(p, {"idle"})
<1>1. Leave(p, "idle", "none")
  BY DEF ReconcileCommit, SupersedeCommit
<1> QED BY <1>1, LeaveStops

-----------------------------------------------------------------------------
\* How a step changes the job rows.

\* An unfinished job gets the state s; what it was planned from stays.
Rewrites(j, s) ==
  /\ Exists(j) /\ jobs[j].state \notin Finished /\ jobs'[j] # NoRow
  /\ jobs'[j].state = s
  /\ jobs'[j].auto = jobs[j].auto /\ jobs'[j].amber = jobs[j].amber
  /\ jobs'[j].ops = jobs[j].ops /\ jobs'[j].base = jobs[j].base
  /\ \A k \in JobId \ {j} : jobs'[k] = jobs[k]

\* p commits its plan as the SKU's only unfinished job.
Inserts(p, j) ==
  /\ ~Exists(j) /\ Unfinished = {} /\ jobs'[j] # NoRow
  /\ jobs'[j].state = "queued" /\ jobs'[j].amber = loc[p].snap
  /\ jobs'[j].auto = (IF p \in Workers THEN loc[p].gen ELSE 0)
  /\ jobs'[j].ops = loc[p].ops /\ jobs'[j].base = loc[p].base
  /\ \A k \in JobId \ {j} : jobs'[k] = jobs[k]

LEMMA RowUpdate ==
  ASSUME jobs \in [JobId -> Job \cup {NoRow}], NEW j \in JobId, Exists(j),
         jobs[j].state \notin Finished, NEW s \in JobStates, NEW c \in Codes,
         \/ jobs' = [jobs EXCEPT ![j].state = s, ![j].failure = c]
         \/ jobs' = [jobs EXCEPT ![j].state = s]
  PROVE  Rewrites(j, s)
<1> DEFINE b == jobs[j]
<1>1. b \in Job
  BY DEF Exists
<1>2. PICK r \in Job : /\ jobs' = [jobs EXCEPT ![j] = r]
                       /\ r.state = s /\ r.auto = b.auto /\ r.amber = b.amber
                       /\ r.ops = b.ops /\ r.base = b.base
  <2> DEFINE r1 == [b EXCEPT !.state = s, !.failure = c]
             r2 == [b EXCEPT !.state = s]
  <2>1. /\ r1 \in Job /\ r1.state = s /\ r1.auto = b.auto /\ r1.amber = b.amber
        /\ r1.ops = b.ops /\ r1.base = b.base
    <3> HIDE DEF b
    <3> QED BY <1>1 DEF Job
  <2>2. /\ r2 \in Job /\ r2.state = s /\ r2.auto = b.auto /\ r2.amber = b.amber
        /\ r2.ops = b.ops /\ r2.base = b.base
    <3> HIDE DEF b
    <3> QED BY <1>1 DEF Job
  <2>3. jobs' = [jobs EXCEPT ![j] = r1] \/ jobs' = [jobs EXCEPT ![j] = r2]
    OBVIOUS
  <2> HIDE DEF r1, r2
  <2> QED BY <2>1, <2>2, <2>3
<1> QED BY <1>2, JobIsNoRow DEF Rewrites, Exists

LEMMA BlockRewrites ==
  ASSUME IInv, NEW p \in Proc, BlockRefused(p)
  PROVE  UNCHANGED jobs \/ Rewrites(loc[p].job, "blocked")
<1>1. Data /\ loc[p].job \in JobId /\ Exists(loc[p].job)
  BY Known DEF BlockRefused, AtJob
<1> QED BY <1>1, RowUpdate DEF BlockRefused, Data, JobStates, Codes

LEMMA BeginRewrites ==
  ASSUME IInv, NEW p \in Proc, Begin(p)
  PROVE  \/ UNCHANGED jobs
         \/ Rewrites(loc[p].job, "running")
<1>1. Data /\ loc[p].job \in JobId /\ Exists(loc[p].job)
  BY Known DEF Begin, AtJob
<1> QED BY <1>1, RowUpdate DEF Begin, Data, JobStates, Codes

LEMMA FailureRewrites ==
  ASSUME IInv, NEW p \in Proc, SaveFailure(p)
  PROVE  \/ UNCHANGED jobs
         \/ \E s \in {"uncertain", "blocked", "retryable"} : Rewrites(loc[p].job, s)
<1> DEFINE s == FailedState(loc[p].job, loc[p].code)
<1>1. Data /\ loc[p].job \in JobId /\ Exists(loc[p].job) /\ loc[p].code \in Codes
  BY Known DEF SaveFailure, AtJob
<1>2. s \in {"uncertain", "blocked", "retryable"}
  BY DEF FailedState
<1>3. \/ UNCHANGED jobs
      \/ /\ jobs[loc[p].job].state \notin Finished
         /\ jobs' = [jobs EXCEPT ![loc[p].job].state = s,
                                 ![loc[p].job].failure = loc[p].code]
  BY DEF SaveFailure
<1> HIDE DEF s
<1> QED BY <1>1, <1>2, <1>3, RowUpdate DEF Data, JobStates

LEMMA SupersedeRewrites ==
  ASSUME IInv, NEW p \in Proc, SupersedeUndispatched(p)
  PROVE  \/ UNCHANGED jobs
         \/ /\ Rewrites(loc[p].job, "superseded")
            /\ ~HasStep(loc[p].job) /\ SkuFree
<1>1. Data /\ loc[p].job \in JobId /\ Exists(loc[p].job)
  BY Known DEF SupersedeUndispatched, AtJob
<1> QED BY <1>1, RowUpdate DEF SupersedeUndispatched, Supersedable, Data,
         JobStates, Codes, Finished

LEMMA SucceedRewrites ==
  ASSUME IInv, NEW p \in Proc, Succeed(p)
  PROVE  \/ UNCHANGED <<jobs, acked>> /\ Stops(p, {"fail"})
         \/ /\ Rewrites(loc[p].job, "succeeded")
            /\ acked' = jobs[loc[p].job].amber.input
            /\ Stops(p, {"fail"}) \/ Stops(p, Answered)
<1>1. Data /\ Control /\ loc[p].job \in JobId /\ Exists(loc[p].job)
  BY Known DEF Succeed, AtJob
<1> QED BY <1>1, SucceedMoves, RowUpdate DEF Data, JobStates, Codes

LEMMA ReconcileRewrites ==
  ASSUME IInv, NEW p \in Proc, ReconcileCommit(p)
  PROVE  \/ UNCHANGED <<jobs, steps, acked>>
         \/ /\ \/ loc[p].complete /\ Rewrites(loc[p].job, "succeeded")
                  /\ acked' = jobs[loc[p].job].amber.input
               \/ ~loc[p].complete /\ Rewrites(loc[p].job, "uncertain")
                  /\ UNCHANGED acked
            /\ steps' = [steps EXCEPT ![loc[p].job] =
                           Resolved(loc[p].job, Recorded(p))]
<1>1. Data /\ loc[p].job \in JobId /\ Exists(loc[p].job)
  BY Known DEF ReconcileCommit, AtJob
<1>2. CASE ~UNCHANGED <<jobs, steps, acked>> /\ loc[p].complete
  BY <1>1, <1>2, RowUpdate DEF ReconcileCommit, Data, JobStates, Codes
<1>3. CASE ~UNCHANGED <<jobs, steps, acked>> /\ ~loc[p].complete
  BY <1>1, <1>3, RowUpdate DEF ReconcileCommit, Data, JobStates, Codes
<1> QED BY <1>2, <1>3

LEMMA RetireRewrites ==
  ASSUME IInv, NEW p \in Proc, SupersedeCommit(p)
  PROVE  \/ UNCHANGED <<jobs, steps>>
         \/ /\ Rewrites(loc[p].job, "superseded")
            /\ steps' = [steps EXCEPT ![loc[p].job] =
                           Resolved(loc[p].job, Dispatched(loc[p].job))]
<1>1. Data /\ loc[p].job \in JobId /\ Exists(loc[p].job)
  BY Known DEF SupersedeCommit, AtJob
<1> QED BY <1>1, RowUpdate DEF SupersedeCommit, Data, JobStates, Codes, Finished

LEMMA InsertRow ==
  ASSUME IInv, NEW p \in Proc, InsertJob(p)
  PROVE  \/ Stops(p, Thrown) /\ UNCHANGED <<request, jobs>>
         \/ \E j \in JobId :
              /\ Inserts(p, j)
              /\ (IF p \in Workers THEN AssertSnapshot(p) ELSE Revalidate(p)) = "none"
              /\ IF p \in Workers
                 THEN /\ request' = Attach(request, j, loc[p].gen)
                      /\ TakesJob(p, "syncing", j)
                 ELSE Stops(p, Thrown) /\ UNCHANGED request
<1>1. Data /\ Control
  BY Known
<1>2. ASSUME NEW j \in JobId, ~Exists(j), ~IndexViolation(p),
             jobs' = [jobs EXCEPT ![j] =
               [state |-> "queued",
                auto |-> IF p \in Workers THEN loc[p].gen ELSE 0,
                amber |-> loc[p].snap, binding |-> loc[p].binding,
                ops |-> loc[p].ops, base |-> loc[p].base, failure |-> "none"]]
      PROVE  Inserts(p, j)
  BY <1>1, <1>2 DEF Inserts, Data, Exists, NoRow, IndexViolation
<1> QED BY <1>1, <1>2, InsertJobMoves

-----------------------------------------------------------------------------
\* The request row.

\* No process remembers a generation that was not asked for yet.
GensKnown ==
  \A p \in Proc : /\ loc[p].gen <= request.desired
                  /\ loc[p].activeGen <= request.desired
RequestInv == RequestChecks /\ request.desired # 0 /\ GensKnown

\* The row checks of migration 044, and that something was asked for.
RowChecked(r) ==
  /\ r.synced <= r.desired /\ r.activeGen <= r.desired /\ r.desired # 0
  /\ (r.active = NoJob) = (r.activeGen = 0)
  /\ r.state = "synced" => r.synced = r.desired

LEMMA RowChecks == RequestInv <=> RowChecked(request) /\ GensKnown
BY DEF RequestInv, RequestChecks, RowChecked

\* Every statement on the request row respects its checks.
LEMMA StatementsChecked ==
  ASSUME NEW r \in Request, RowChecked(r), NEW gen \in Nat, NEW reason,
         gen <= r.desired
  PROVE  /\ RowChecked(Bump(r)) /\ r.desired <= Bump(r).desired
         /\ \A j \in JobId : r.desired = gen =>
              RowChecked(Attach(r, j, gen)) /\ Attach(r, j, gen).desired = r.desired
         /\ RowChecked(Attention(r, gen, reason))
         /\ Attention(r, gen, reason).desired = r.desired
         /\ RowChecked(Retry(r)) /\ Retry(r).desired = r.desired
         /\ RowChecked(Acknowledge(r, gen))
         /\ Acknowledge(r, gen).desired = r.desired
         /\ RowChecked(Clear(r)) /\ Clear(r).desired = r.desired
         /\ LET s == [r EXCEPT !.state = "syncing", !.reason = "none"]
            IN  RowChecked(s) /\ s.desired = r.desired
<1> USE DEF Request, RowChecked
<1>1. RowChecked(Bump(r)) /\ r.desired <= Bump(r).desired
  <2> DEFINE d == r.desired + 1
             sticky == r.reason = "reconciliation_required"
             t == IF sticky THEN "needs_attention" ELSE "pending"
             u == IF sticky THEN r.reason ELSE "none"
  <2>1. d \in Nat /\ r.desired <= d /\ d # 0 /\ t # "synced"
        /\ r.synced <= d /\ r.activeGen <= d
    OBVIOUS
  <2>2. Bump(r) = [r EXCEPT !.desired = d, !.state = t, !.reason = u]
    BY DEF Bump
  <2> HIDE DEF d, t, u
  <2> QED BY <2>1, <2>2
<1>2. ASSUME NEW j \in JobId, r.desired = gen
      PROVE  RowChecked(Attach(r, j, gen)) /\ Attach(r, j, gen).desired = r.desired
  <2>1. j # NoJob
    BY DEF JobId, NoJob
  <2> QED BY <1>2, <2>1 DEF Attach
<1>3. /\ RowChecked(Attention(r, gen, reason))
      /\ Attention(r, gen, reason).desired = r.desired
  BY DEF Attention
<1>4. RowChecked(Retry(r)) /\ Retry(r).desired = r.desired
  BY DEF Retry
<1>5. RowChecked(Acknowledge(r, gen)) /\ Acknowledge(r, gen).desired = r.desired
  <2> DEFINE s == IF gen > r.synced THEN gen ELSE r.synced
             t == IF r.desired = gen THEN "synced" ELSE "pending"
  <2>1. s <= r.desired /\ (t = "synced" => s = r.desired) /\ s \in Nat
    OBVIOUS
  <2>2. Acknowledge(r, gen) = [r EXCEPT !.synced = s, !.active = NoJob,
                                 !.activeGen = 0, !.state = t, !.reason = "none"]
    BY DEF Acknowledge
  <2> HIDE DEF s, t
  <2> QED BY <2>1, <2>2
<1>6. RowChecked(Clear(r)) /\ Clear(r).desired = r.desired
  BY DEF Clear
<1>7. LET s == [r EXCEPT !.state = "syncing", !.reason = "none"]
      IN  RowChecked(s) /\ s.desired = r.desired
  OBVIOUS
<1> QED BY <1>1, <1>2, <1>3, <1>4, <1>5, <1>6, <1>7

\* Where p may have its generations from after a step.
Remembers(p) ==
  /\ Others(p)
  /\ \/ loc'[p] = FreshLocal
     \/ SameRequest(loc'[p], loc[p])
     \/ loc'[p].gen = request.desired /\ loc'[p].activeGen = request.activeGen

LEMMA StopsRemembers ==
  ASSUME NEW p, NEW S, Stops(p, S)
  PROVE  Remembers(p)
BY DEF Stops, Remembers, Goes, SameWork

LEMMA TakesRemembers ==
  ASSUME NEW p
  PROVE  /\ \A label, j : TakesJob(p, label, j) => Remembers(p)
         /\ \A S : HasLeft(p, S) => Remembers(p)
         /\ \A label, m : Goes(p, label, m) /\ SameRequest(m, loc[p]) => Remembers(p)
BY DEF TakesJob, HasLeft, Remembers, Goes

LEMMA GensKept ==
  ASSUME Data, Control, RequestInv, NEW p \in Proc, Remembers(p),
         RowChecked(request'), Data', request.desired <= request'.desired
  PROVE  RequestInv'
<1>1. FreshLocal.gen = 0 /\ FreshLocal.activeGen = 0
  BY DEF FreshLocal
<1>2. /\ request.desired \in Nat /\ request'.desired \in Nat
      /\ request.activeGen \in Nat /\ request.activeGen <= request.desired
  BY DEF Data, Request, RequestInv, RequestChecks
<1>3. \A q \in Proc : loc[q].gen \in Nat /\ loc[q].activeGen \in Nat
  BY DEF Control, Local
<1>4. loc'[p].gen <= request'.desired /\ loc'[p].activeGen <= request'.desired
  BY <1>1, <1>2, <1>3 DEF Remembers, SameRequest, RequestInv, GensKnown
<1>5. GensKnown'
  BY <1>2, <1>3, <1>4 DEF Remembers, Others, RequestInv, GensKnown
<1> QED BY <1>5 DEF RequestInv, RequestChecks, RowChecked

\* The actions that leave the request row alone.
LEMMA EnqueueRemembers ==
  ASSUME Control, NEW p \in Proc,
         EnqueueEnter(p) \/ PlanJob(p) \/ PlanFault(p)
  PROVE  Remembers(p) /\ UNCHANGED request
<1>1. Remembers(p)
  BY EnqueueEnterMoves, PlanMoves, StopsRemembers
<1> QED BY <1>1 DEF EnqueueEnter, PlanJob, PlanFault

LEMMA ApplyRemembers ==
  ASSUME Control, NEW p \in Proc, ApplyJob(p)
  PROVE  Remembers(p) /\ UNCHANGED request
<1>1. CASE ApplyBusy(p) \/ ApplyRefused(p) \/ BlockRefused(p) \/ ApplyEnter(p)
  <2>1. Remembers(p)
    BY <1>1, EarlyApplyMoves, ApplyEnterMoves, StopsRemembers
  <2> QED BY <1>1, <2>1 DEF ApplyBusy, ApplyRefused, BlockRefused, ApplyEnter
<1>2. CASE Begin(p) \/ NextStep(p) \/ Verify(p)
  <2>1. Remembers(p)
    BY <1>2, BeginMoves, NextStepMoves, VerifyMoves, StopsRemembers, TakesRemembers
  <2> QED BY <1>2, <2>1 DEF Begin, NextStep, Verify
<1>3. CASE Mark(p) \/ Send(p) \/ Readback(p) \/ FinalReadback(p) \/ ReadFault(p)
           \/ SaveFailure(p)
  <2>1. Remembers(p)
    BY <1>3, StepMoves, StopsRemembers
  <2> QED BY <1>3, <2>1 DEF Mark, Send, Readback, FinalReadback, ReadFault,
       SaveFailure
<1>4. CASE Succeed(p)
  <2>1. Remembers(p)
    BY <1>4, SucceedMoves, StopsRemembers
  <2> QED BY <1>4, <2>1 DEF Succeed
<1> QED BY <1>1, <1>2, <1>3, <1>4 DEF ApplyJob

LEMMA RecoverRemembers ==
  ASSUME Control, NEW p \in Proc, Recover(p)
  PROVE  Remembers(p) /\ (UNCHANGED request \/ request' = Clear(request))
<1>1. CASE ManualEnqueue(p) \/ ManualApply(p)
  <2>1. Remembers(p)
    BY <1>1, CommandMoves, TakesRemembers
  <2> QED BY <1>1, <2>1 DEF ManualEnqueue, ManualApply
<1>2. CASE ReconcileObserve(p) \/ SupersedeObserve(p)
  <2>1. Remembers(p)
    BY <1>2, ObserveMoves, TakesRemembers
  <2> QED BY <1>2, <2>1 DEF ReconcileObserve, SupersedeObserve
<1>3. CASE ReconcileCommit(p) \/ SupersedeCommit(p)
  <2>1. Remembers(p)
    BY <1>3, ReviewEnds, StopsRemembers
  <2> QED BY <1>3, <2>1 DEF ReconcileCommit, SupersedeCommit
<1> QED BY <1>1, <1>2, <1>3 DEF Recover

\* What a pass of the worker makes of the row it looks at.
LEMMA PassRequest ==
  ASSUME IInv, RequestInv, NEW p \in Proc, Poll(p) \/ RunProduct(p) \/ Crash(p)
  PROVE  Remembers(p) /\ RowChecked(request') /\ request'.desired = request.desired
<1>1. /\ Data /\ Control /\ request \in Request /\ RowChecked(request)
      /\ loc[p].gen \in Nat /\ loc[p].activeGen \in Nat
  BY Known, RowChecks DEF Data
<1>2. loc[p].gen <= request.desired /\ loc[p].activeGen <= request.desired
  BY DEF RequestInv, GensKnown
<1>3. CASE /\ UNCHANGED request
           /\ Poll(p) \/ SupersedeUndispatched(p) \/ Crash(p)
  BY <1>1, <1>3, PassMoves, StopsRemembers
<1>4. Poll(p) \/ SupersedeUndispatched(p) \/ Crash(p) => UNCHANGED request
  BY DEF Poll, SupersedeUndispatched, Crash
<1>5. CASE ConsumeReceipt(p)
  <2>1. request' = Acknowledge(request, loc[p].activeGen)
    BY <1>5 DEF ConsumeReceipt
  <2> QED BY <1>1, <1>2, <1>5, <2>1, StatementsChecked, PassMoves, StopsRemembers
<1>6. CASE ClearActive(p)
  <2>1. request' = Clear(request)
    BY <1>6 DEF ClearActive
  <2> QED BY <1>1, <1>2, <1>6, <2>1, StatementsChecked, PassMoves, StopsRemembers
<1>7. CASE Syncing(p)
  <2>1. request' = [request EXCEPT !.state = "syncing", !.reason = "none"]
    BY <1>7 DEF Syncing
  <2> QED BY <1>1, <1>2, <1>7, <2>1, StatementsChecked, PassMoves, StopsRemembers
<1>8. CASE Attend(p)
  <2>1. request' = Attention(request, loc[p].gen, loc[p].reason)
    BY <1>8 DEF Attend, EndPass
  <2> QED BY <1>1, <1>2, <1>8, <2>1, StatementsChecked, PassMoves, StopsRemembers
<1>9. CASE RetryLater(p)
  <2>1. request' = Retry(request)
    BY <1>9 DEF RetryLater, EndPass
  <2> QED BY <1>1, <1>2, <1>9, <2>1, StatementsChecked, PassMoves, StopsRemembers
<1>10. CASE AcknowledgeApplied(p)
  <2>1. /\ request' = Acknowledge(request, AckGeneration(p))
        /\ AckGeneration(p) \in Nat /\ AckGeneration(p) <= request.desired
    BY <1>1, <1>2, <1>10 DEF AcknowledgeApplied, EndPass, AckGeneration
  <2> QED BY <1>1, <1>10, <2>1, StatementsChecked, PassMoves, StopsRemembers
<1>11. CASE Claim(p)
  <2>1. UNCHANGED request
    BY <1>11 DEF Claim
  <2>2. Remembers(p)
    BY <1>11, <1>1, ClaimMoves DEF Remembers, Goes, SameRequest
  <2> QED BY <1>1, <2>1, <2>2
<1>12. CASE Decide(p)
  <2>1. UNCHANGED request
    BY <1>12 DEF Decide
  <2>2. Remembers(p)
    BY <1>12, <1>1, DecideMoves, TakesRemembers
  <2> QED BY <1>1, <2>1, <2>2
<1> QED BY <1>3, <1>4, <1>5, <1>6, <1>7, <1>8, <1>9, <1>10, <1>11, <1>12
     DEF RunProduct

\* A worker attaches a job only for the generation that is desired.
LEMMA AttachRequest ==
  ASSUME IInv, RequestInv, NEW p \in Proc, UseExisting(p) \/ InsertJob(p)
  PROVE  Remembers(p) /\ RowChecked(request') /\ request'.desired = request.desired
<1>1. /\ Data /\ Control /\ request \in Request /\ RowChecked(request)
      /\ loc[p].gen \in Nat /\ loc[p].gen <= request.desired
  BY Known, RowChecks DEF Data, RequestInv, GensKnown
<1>2. ASSUME NEW j \in JobId, AssertSnapshot(p) = "none",
             request' = Attach(request, j, loc[p].gen),
             TakesJob(p, "syncing", j)
      PROVE  Remembers(p) /\ RowChecked(request') /\ request'.desired = request.desired
  <2>1. request.desired = loc[p].gen
    BY <1>2 DEF AssertSnapshot
  <2> QED BY <1>1, <1>2, <2>1, StatementsChecked, TakesRemembers
<1>3. ASSUME UNCHANGED request, Stops(p, Thrown)
      PROVE  Remembers(p) /\ RowChecked(request') /\ request'.desired = request.desired
  BY <1>1, <1>3, StopsRemembers
<1>4. CASE UseExisting(p)
  <2>1. ExistingJob(p) \in JobId
    BY <1>4, ExistingType DEF UseExisting
  <2> QED BY <1>1, <1>2, <1>3, <1>4, <2>1, UseExistingMoves
<1>5. CASE InsertJob(p)
  BY <1>1, <1>2, <1>3, <1>5, InsertRow
<1> QED BY <1>4, <1>5

LEMMA RequestInit == Init => RequestInv
BY DEF Init, RequestInv, RequestChecks, GensKnown, InitialRequest, FreshLocal, NoJob

LEMMA RequestNext ==
  ASSUME IInv, RequestInv, [Next]_vars, IInv'
  PROVE  RequestInv'
<1>1. Data /\ Control /\ Data' /\ RowChecked(request) /\ request \in Request
  BY RowChecks DEF IInv, Typed, Data, Control
<1>2. request.desired \in Nat /\ request.desired <= request.desired
  BY <1>1 DEF Request
<1>3. ASSUME NEW p \in Proc, Remembers(p), RowChecked(request'),
             request'.desired = request.desired
      PROVE  RequestInv'
  BY <1>1, <1>2, <1>3, GensKept
<1>4. ASSUME NEW p \in Proc, Enqueue(p)  PROVE RequestInv'
  BY <1>1, <1>3, <1>4, EnqueueRemembers, AttachRequest DEF Enqueue
<1>5. ASSUME NEW p \in Proc, ApplyJob(p)  PROVE RequestInv'
  BY <1>1, <1>3, <1>5, ApplyRemembers
<1>6. ASSUME NEW p \in Proc, Poll(p) \/ RunProduct(p) \/ Crash(p)  PROVE RequestInv'
  BY <1>3, <1>6, PassRequest
<1>7. ASSUME NEW p \in Proc, Recover(p)  PROVE RequestInv'
  <2>1. RowChecked(Clear(request)) /\ Clear(request).desired = request.desired
    BY <1>1, StatementsChecked, <1>2
  <2> QED BY <1>1, <1>3, <1>7, <2>1, RecoverRemembers
<1>8. CASE LoseSessions \/ Environment \/ Quiet \/ UNCHANGED vars
  <2>1. UNCHANGED loc /\ (request' = request \/ request' = Bump(request))
    BY <1>8 DEF LoseSessions, Environment, Edit, Touch, Retire, Publish,
       ProcessHandoff, Disable, Deliver, Lose, ForeignWrite, Quiet, vars,
       RequestSync
  <2>2. RowChecked(Bump(request)) /\ request.desired <= Bump(request).desired
    BY <1>1, <1>2, StatementsChecked
  <2>3. /\ RowChecked(request') /\ request.desired <= request'.desired
        /\ request'.desired \in Nat
    BY <1>1, <1>2, <2>1, <2>2 DEF Data, Request
  <2>4. \A p \in Proc : loc[p].gen \in Nat /\ loc[p].activeGen \in Nat
    BY <1>1 DEF Control, Local
  <2>5. GensKnown'
    BY <1>2, <2>1, <2>3, <2>4 DEF RequestInv, GensKnown
  <2> QED BY <2>3, <2>5 DEF RequestInv, RequestChecks, RowChecked
<1> QED BY <1>4, <1>5, <1>6, <1>7, <1>8 DEF Next, Act, Proc

\* The row checks of migration 044 never abort an update of the request: no
\* late acknowledgement, retry or attention of a worker, and no reviewed
\* supersession, writes a generation that was not asked for.
THEOREM RequestChecked == Spec => []RequestChecks
<1>1. IInv /\ RequestInv /\ [Next]_vars => IInv' /\ RequestInv'
  BY NextLemma, RequestNext
<1>2. RequestInv => RequestChecks
  BY DEF RequestInv
<1> QED BY <1>1, <1>2, InitLemma, RequestInit, PTL DEF Spec

-----------------------------------------------------------------------------
\* The steps of a job.

\* Labels at which applyJob works through the operations it has left.
Working == {"step", "mark", "send", "readback", "verify", "succeed"}

\* What is no longer left is verified, and what a review saw is still so.
Progress(p) ==
  LET j == loc[p].job
  IN  /\ pc[p] \in Working =>
           /\ loc[p].todo \subseteq jobs[j].ops
           /\ \A f \in jobs[j].ops \ loc[p].todo : steps[j][f] = "verified"
      /\ pc[p] = "succeed" => loc[p].todo = {}
      /\ pc[p] = "reconcile" =>
           \A f \in Fields : /\ loc[p].seen[f] = "verified" => steps[j][f] = "verified"
                             /\ loc[p].seen[f] # "none" => steps[j][f] # "none"

\* Steps exist for planned operations, and begin in their order.
StepsPlanned ==
  \A j \in JobId, f \in Fields :
    steps[j][f] # "none" => Exists(j) /\ f \in jobs[j].ops
InOrder ==
  \A j \in Created, f, g \in Fields :
    f \in jobs[j].ops /\ g \in jobs[j].ops /\ f < g /\ steps[j][g] # "none"
      => steps[j][f] = "verified"
OneLane == \A j, k \in Unfinished : j = k

StepRows == StepsPlanned /\ InOrder /\ SucceededIsVerified /\ OneLane
StepInv  == (\A p \in Proc : Progress(p)) /\ StepRows

\* Rows keep their plan, and steps only advance.
RowsKept ==
  \A j \in JobId : Exists(j) => Exists(j)' /\ jobs'[j].ops = jobs[j].ops
StepsGrow ==
  \A j \in JobId, f \in Fields :
    /\ steps[j][f] = "verified" => steps'[j][f] = "verified"
    /\ steps[j][f] # "none" => steps'[j][f] # "none"

LEMMA RowRelations ==
  /\ UNCHANGED jobs => RowsKept
  /\ \A j \in JobId : \A s : Rewrites(j, s) => RowsKept
  /\ \A p : \A j \in JobId : Inserts(p, j) => RowsKept
  /\ UNCHANGED steps => StepsGrow
BY DEF RowsKept, StepsGrow, Rewrites, Inserts, Exists

LEMMA ProgressKept ==
  ASSUME IInv, StepInv, RowsKept, StepsGrow, NEW q \in Proc,
         pc'[q] = pc[q], loc'[q] = loc[q]
  PROVE  Progress(q)'
<1>1. Working \subseteq AtJob /\ "reconcile" \in AtJob
  BY DEF Working, AtJob
<1>2. pc[q] \in AtJob => loc[q].job \in JobId /\ Exists(loc[q].job)
  BY Known
<1>3. loc[q].todo \in SUBSET Fields
  BY Known
<1>4. \A j \in JobId : Exists(j) => jobs[j].ops \in SUBSET Fields
  BY SplitType DEF IInv, Data, Exists, Job
<1> QED BY <1>1, <1>2, <1>3, <1>4 DEF StepInv, Progress, RowsKept, StepsGrow

\* A process that stops working, or works on with what it had.
LEMMA ProgressStops ==
  ASSUME IInv, StepInv, RowsKept, StepsGrow, NEW p \in Proc, NEW S,
         Stops(p, S),
         \A label \in S :
           \/ label \notin Working \cup {"reconcile"}
           \/ /\ label \in Working /\ pc[p] \in Working
              /\ label = "succeed" => loc[p].todo = {}
  PROVE  \A q \in Proc : Progress(q)'
<1>1. PICK label \in S :
        \E m : /\ Goes(p, label, m)
               /\ IF label = "idle" THEN m = FreshLocal ELSE SameWork(m, loc[p])
  BY DEF Stops
<1>2. PICK m : /\ Goes(p, label, m)
               /\ IF label = "idle" THEN m = FreshLocal ELSE SameWork(m, loc[p])
  BY <1>1
<1>3. \A q \in Proc \ {p} : Progress(q)'
  BY <1>2, ProgressKept DEF Goes, Others
<1>4. CASE label \notin Working \cup {"reconcile"}
  <2>1. Progress(p)'
    BY <1>2, <1>4 DEF Progress, Goes, Working
  <2> QED BY <1>3, <2>1
<1>5. CASE /\ label \in Working /\ pc[p] \in Working
           /\ label = "succeed" => loc[p].todo = {}
  <2>1. loc'[p].job = loc[p].job /\ loc'[p].todo = loc[p].todo /\ pc'[p] = label
    BY <1>2, <1>5 DEF Goes, SameWork, Working
  <2>2. Working \subseteq AtJob /\ "reconcile" \notin Working
    BY DEF Working, AtJob
  <2>3. loc[p].job \in JobId /\ Exists(loc[p].job)
    BY <1>5, <2>2, Known
  <2>4. jobs[loc[p].job].ops \in SUBSET Fields
    BY <1>5, <2>2, Known DEF Job
  <2>5. Progress(p)'
    BY <1>5, <2>1, <2>2, <2>3, <2>4 DEF StepInv, Progress, RowsKept, StepsGrow
  <2> QED BY <1>3, <2>5
<1> QED BY <1>2, <1>4, <1>5

LEMMA ProgressLeaves ==
  ASSUME IInv, StepInv, RowsKept, StepsGrow, NEW p \in Proc, NEW label, NEW m,
         Goes(p, label, m), label \notin Working \cup {"reconcile"}
  PROVE  \A q \in Proc : Progress(q)'
<1>1. \A q \in Proc \ {p} : Progress(q)'
  BY ProgressKept DEF Goes, Others
<1>2. Progress(p)'
  BY DEF Progress, Goes, Working
<1> QED BY <1>1, <1>2

\* A process with these operations left of its job.
LEMMA ProgressLeft ==
  ASSUME IInv, StepInv, RowsKept, StepsGrow, NEW p \in Proc, NEW S,
         HasLeft(p, S), pc[p] \in AtJob, S \subseteq jobs[loc[p].job].ops,
         \A f \in jobs[loc[p].job].ops \ S : steps'[loc[p].job][f] = "verified"
  PROVE  \A q \in Proc : Progress(q)'
<1>1. PICK m : /\ Goes(p, "step", m) /\ m.job = loc[p].job /\ m.todo = S
  BY DEF HasLeft
<1>2. \A q \in Proc \ {p} : Progress(q)'
  BY <1>1, ProgressKept DEF Goes, Others
<1>3. loc[p].job \in JobId /\ Exists(loc[p].job)
  BY Known
<1>4. Progress(p)'
  BY <1>1, <1>3 DEF Progress, Goes, RowsKept
<1> QED BY <1>2, <1>4
-----------------------------------------------------------------------------
\* How the rows stay in order.

LEMMA RowsSame ==
  ASSUME StepRows, UNCHANGED <<jobs, steps>>
  PROVE  StepRows'
BY DEF StepRows, StepsPlanned, InOrder, SucceededIsVerified, OneLane,
       Unfinished, Created, Exists

LEMMA RowsRewritten ==
  ASSUME StepRows, NEW j \in JobId, NEW s, Rewrites(j, s), StepsGrow,
         StepsPlanned', InOrder',
         s = "succeeded" => \A f \in jobs[j].ops : steps'[j][f] = "verified",
         IInv
  PROVE  StepRows'
<1>1. \A k \in JobId : Exists(k)' <=> Exists(k)
  BY DEF Rewrites, Exists
<1>2. \A k \in JobId : Exists(k) => /\ jobs'[k].ops = jobs[k].ops
                                    /\ jobs[k].ops \in SUBSET Fields
  BY SplitType DEF Rewrites, IInv, Data, Exists, Job
<1>3. Unfinished' \subseteq Unfinished
  BY <1>1 DEF Unfinished, Created, Rewrites
<1>4. SucceededIsVerified'
  BY <1>1, <1>2 DEF SucceededIsVerified, StepRows, Created, Rewrites, StepsGrow
<1>5. OneLane'
  BY <1>3 DEF OneLane, StepRows
<1> QED BY <1>4, <1>5 DEF StepRows

LEMMA OrderKept ==
  ASSUME StepRows, NEW j \in JobId, NEW s, Rewrites(j, s), UNCHANGED steps
  PROVE  StepsPlanned' /\ InOrder'
<1>1. \A k \in JobId : Exists(k)' <=> Exists(k)
  BY DEF Rewrites, Exists
<1>2. \A k \in JobId : Exists(k) => jobs'[k].ops = jobs[k].ops
  BY DEF Rewrites
<1> QED BY <1>1, <1>2 DEF StepRows, StepsPlanned, InOrder, Created

LEMMA RowsInserted ==
  ASSUME StepRows, NEW p, NEW j \in JobId, Inserts(p, j), UNCHANGED steps
  PROVE  StepRows'
<1>1. \A k \in JobId \ {j} : Exists(k)' <=> Exists(k)
  BY DEF Inserts, Exists
<1>2. \A f \in Fields : steps[j][f] = "none"
  BY DEF Inserts, StepRows, StepsPlanned
<1>3. StepsPlanned'
  BY <1>1, <1>2 DEF StepRows, StepsPlanned, Inserts
<1>4. InOrder'
  BY <1>1, <1>2 DEF StepRows, InOrder, Inserts, Created
<1>5. SucceededIsVerified'
  BY <1>1, <1>2 DEF StepRows, SucceededIsVerified, Inserts, Created
<1>6. OneLane'
  BY <1>1 DEF StepRows, OneLane, Unfinished, Inserts, Created
<1> QED BY <1>3, <1>4, <1>5, <1>6 DEF StepRows

\* One step of a job advances, when everything before it is verified.
LEMMA RowsAdvanced ==
  ASSUME Data, StepRows, NEW j \in JobId, Exists(j), NEW f \in Fields,
         f \in jobs[j].ops,
         NEW v \in {"dispatched", "verified"},
         steps[j][f] = "none" \/ v = "verified",
         \A g \in jobs[j].ops : g < f => steps[j][g] = "verified",
         UNCHANGED jobs, steps' = [steps EXCEPT ![j][f] = v]
  PROVE  StepRows' /\ StepsGrow
<1>1. \A k \in JobId, g \in Fields :
        steps'[k][g] = IF k = j /\ g = f THEN v ELSE steps[k][g]
  BY DEF Data
<1>2. StepsGrow
  BY <1>1 DEF StepsGrow
<1>3. \A k \in JobId : Exists(k)' <=> Exists(k)
  BY DEF Exists
<1>4. StepsPlanned'
  BY <1>1, <1>3 DEF StepRows, StepsPlanned
<1>5. InOrder'
  <2>1. f \in Nat /\ Fields \subseteq Nat
    BY DataAssumption
  <2> QED BY <1>1, <1>2, <1>3, <2>1 DEF StepRows, InOrder, StepsGrow, Created
<1>6. SucceededIsVerified'
  <2>1. \A k \in JobId : Exists(k) => jobs[k].ops \in SUBSET Fields
    BY DEF Data, Exists, Job
  <2> QED BY <1>2, <1>3, <2>1 DEF StepRows, SucceededIsVerified, StepsGrow, Created
<1>7. OneLane'
  BY <1>3 DEF StepRows, OneLane, Unfinished, Created
<1> QED BY <1>2, <1>4, <1>5, <1>6, <1>7 DEF StepRows

\* A review resolves steps: those that exist, or all of the job.
LEMMA RowsResolved ==
  ASSUME IInv, StepRows, NEW j \in JobId, NEW S \in SUBSET Fields, NEW s,
         Rewrites(j, s), steps' = [steps EXCEPT ![j] = Resolved(j, S)],
         S \subseteq jobs[j].ops,
         \/ s # "succeeded" /\ \A f \in S : steps[j][f] # "none"
         \/ \A f \in jobs[j].ops \ S : steps[j][f] = "verified"
  PROVE  StepRows' /\ StepsGrow
<1> DEFINE row == Resolved(j, S)
<1>1. \A g \in Fields : row[g] = IF g \in S THEN "verified" ELSE steps[j][g]
  BY DEF Resolved
<1>2. \A k \in JobId, g \in Fields :
        steps'[k][g] = IF k = j /\ g \in S THEN "verified" ELSE steps[k][g]
  <2>1. steps' = [steps EXCEPT ![j] = row]
    OBVIOUS
  <2> HIDE DEF row
  <2> QED BY <1>1, <2>1, SplitType DEF IInv, Data
<1> HIDE DEF row
<1>3. StepsGrow
  BY <1>2 DEF StepsGrow
<1>4. \A k \in JobId : Exists(k)' <=> Exists(k)
  BY DEF Rewrites, Exists
<1>5. \A k \in JobId : Exists(k) => /\ jobs'[k].ops = jobs[k].ops
                                    /\ jobs[k].ops \in SUBSET Fields
  BY SplitType DEF Rewrites, IInv, Data, Exists, Job
<1>6. Exists(j)
  BY DEF Rewrites
<1>7. StepsPlanned'
  BY <1>2, <1>4, <1>5, <1>6 DEF StepRows, StepsPlanned
<1>8. InOrder'
  <2> SUFFICES ASSUME NEW k \in JobId, Exists(k), NEW f \in Fields, NEW g \in Fields,
                      f \in jobs[k].ops, g \in jobs[k].ops, f < g,
                      steps'[k][g] # "none"
               PROVE  steps'[k][f] = "verified"
    BY <1>4, <1>5 DEF InOrder, Created
  <2>1. CASE steps[k][g] # "none"
    BY <1>3, <2>1 DEF StepRows, InOrder, Created, StepsGrow
  <2>2. CASE steps[k][g] = "none"
    BY <1>2, <2>2
  <2> QED BY <2>1, <2>2
<1>9. s = "succeeded" => \A f \in jobs[j].ops : steps'[j][f] = "verified"
  BY <1>2, <1>5, <1>6
<1> QED BY <1>3, <1>7, <1>8, <1>9, RowsRewritten

-----------------------------------------------------------------------------
\* Every action keeps the steps in order.

LEMMA FirstLeast ==
  ASSUME NEW S \in SUBSET Fields, S # {}
  PROVE  First(S) \in S /\ \A g \in S : First(S) <= g
<1>1. IsFiniteSet(S) /\ S \subseteq Nat
  BY DataAssumption, FS_Subset
<1>2. \E x \in S : \A y \in S : x <= y
  BY <1>1, LeastExists
<1> QED BY <1>2 DEF First

\* The first operation left, and that those before it are verified.
LEMMA FirstLeft ==
  ASSUME IInv, StepInv, NEW p \in Proc, pc[p] \in AtStep
  PROVE  /\ loc[p].job \in JobId /\ Exists(loc[p].job)
         /\ jobs[loc[p].job].ops \in SUBSET Fields
         /\ First(loc[p].todo) \in loc[p].todo
         /\ First(loc[p].todo) \in jobs[loc[p].job].ops
         /\ First(loc[p].todo) \in Fields
         /\ \A g \in jobs[loc[p].job].ops :
              g < First(loc[p].todo) => steps[loc[p].job][g] = "verified"
<1>1. AtStep \subseteq AtJob /\ AtStep \subseteq Working
  BY DEF AtStep, AtJob, Working
<1>2. /\ loc[p].job \in JobId /\ Exists(loc[p].job)
      /\ jobs[loc[p].job].ops \in SUBSET Fields
      /\ loc[p].todo \in SUBSET Fields /\ loc[p].todo # {}
  BY <1>1, Known DEF Job, IInv, TodoLeft
<1>3. /\ First(loc[p].todo) \in loc[p].todo
      /\ \A g \in loc[p].todo : First(loc[p].todo) <= g
  BY <1>2, FirstLeast
<1>4. /\ loc[p].todo \subseteq jobs[loc[p].job].ops
      /\ \A g \in jobs[loc[p].job].ops \ loc[p].todo : steps[loc[p].job][g] = "verified"
  BY <1>1 DEF StepInv, Progress
<1>5. Fields \subseteq Nat
  BY DataAssumption
<1>6. ASSUME NEW g \in jobs[loc[p].job].ops, g < First(loc[p].todo)
      PROVE  g \notin loc[p].todo
  BY <1>2, <1>3, <1>5, <1>6
<1> QED BY <1>2, <1>3, <1>4, <1>6

\* The rows stay in order while no step changes.
LEMMA RowsMoved ==
  ASSUME IInv, StepRows, UNCHANGED steps,
         \/ UNCHANGED jobs
         \/ \E j \in JobId : \E s :
              /\ Rewrites(j, s)
              /\ s = "succeeded" => \A f \in jobs[j].ops : steps[j][f] = "verified"
         \/ \E q \in Proc, j \in JobId : Inserts(q, j)
  PROVE  StepRows' /\ RowsKept /\ StepsGrow
<1>1. StepsGrow
  BY RowRelations
<1>2. CASE UNCHANGED jobs
  BY <1>1, <1>2, RowRelations, RowsSame
<1>3. ASSUME NEW j \in JobId, NEW s, Rewrites(j, s),
             s = "succeeded" => \A f \in jobs[j].ops : steps[j][f] = "verified"
      PROVE  StepRows' /\ RowsKept
  <2>1. StepsPlanned' /\ InOrder'
    BY <1>3, OrderKept
  <2>2. s = "succeeded" => \A f \in jobs[j].ops : steps'[j][f] = "verified"
    BY <1>3
  <2>3. StepRows'
    BY <1>1, <1>3, <2>1, <2>2, RowsRewritten
  <2> QED BY <1>3, <2>3, RowRelations
<1>4. ASSUME NEW q \in Proc, NEW j \in JobId, Inserts(q, j)
      PROVE  StepRows' /\ RowsKept
  <2>1. StepRows'
    BY <1>4, RowsInserted
  <2>2. RowsKept
    BY <1>4 DEF RowsKept, Inserts, Exists
  <2> QED BY <2>1, <2>2
<1> QED BY <1>1, <1>2, <1>3, <1>4

\* Work that leaves the rows alone, and ends where nothing is promised or goes
\* on with the operations left.
LEMMA StopsKeepsSteps ==
  ASSUME IInv, StepInv, NEW p \in Proc, NEW S, Stops(p, S),
         \A label \in S :
           \/ label \notin Working \cup {"reconcile"}
           \/ /\ label \in Working /\ pc[p] \in Working
              /\ label = "succeed" => loc[p].todo = {},
         UNCHANGED steps,
         \/ UNCHANGED jobs
         \/ \E j \in JobId : \E s : Rewrites(j, s) /\ s # "succeeded"
         \/ \E q \in Proc, j \in JobId : Inserts(q, j)
  PROVE  StepInv'
<1>1. StepRows' /\ RowsKept /\ StepsGrow
  BY RowsMoved DEF StepInv
<1>2. \A q \in Proc : Progress(q)'
  BY <1>1, ProgressStops
<1> QED BY <1>1, <1>2 DEF StepInv

LEMMA LeavesKeepsSteps ==
  ASSUME IInv, StepInv, NEW p \in Proc, NEW label, NEW m, Goes(p, label, m),
         label \notin Working \cup {"reconcile"}, UNCHANGED steps,
         \/ UNCHANGED jobs
         \/ \E q \in Proc, j \in JobId : Inserts(q, j)
  PROVE  StepInv'
<1>1. StepRows' /\ RowsKept /\ StepsGrow
  BY RowsMoved DEF StepInv
<1>2. \A q \in Proc : Progress(q)'
  BY <1>1, ProgressLeaves
<1> QED BY <1>1, <1>2 DEF StepInv

LEMMA EnqueueKeepsSteps ==
  ASSUME IInv, StepInv, NEW p \in Proc, Enqueue(p)
  PROVE  StepInv'
<1> USE DEF Thrown, Working
<1>1. Control
  BY Known
<1>2. CASE EnqueueEnter(p) \/ PlanJob(p) \/ PlanFault(p)
  <2>1. UNCHANGED <<jobs, steps>>
    BY <1>2 DEF EnqueueEnter, PlanJob, PlanFault, ledgerVars
  <2> QED BY <1>1, <1>2, <2>1, EnqueueEnterMoves, PlanMoves, StopsKeepsSteps
<1>3. CASE UseExisting(p)
  <2>1. UNCHANGED <<jobs, steps>>
    BY <1>3 DEF UseExisting, ledgerVars
  <2> QED BY <1>1, <1>3, <2>1, UseExistingMoves, StopsKeepsSteps,
          LeavesKeepsSteps DEF TakesJob
<1>4. CASE InsertJob(p)
  <2>1. UNCHANGED steps
    BY <1>4 DEF InsertJob
  <2> QED BY <1>4, <2>1, InsertRow, StopsKeepsSteps, LeavesKeepsSteps
          DEF TakesJob
<1> QED BY <1>2, <1>3, <1>4 DEF Enqueue

LEMMA ApplyKeepsSteps ==
  ASSUME IInv, StepInv, NEW p \in Proc, ApplyJob(p)
  PROVE  StepInv'
<1> USE DEF Thrown, Answered, Working
<1> DEFINE j == loc[p].job
           f == First(loc[p].todo)
<1>1. Control /\ Data
  BY Known
<1>2. CASE ApplyBusy(p) \/ ApplyRefused(p) \/ ApplyEnter(p)
  <2>1. UNCHANGED <<jobs, steps>>
    BY <1>2 DEF ApplyBusy, ApplyRefused, ApplyEnter, ledgerVars
  <2> QED BY <1>1, <1>2, <2>1, EarlyApplyMoves, ApplyEnterMoves, StopsKeepsSteps
<1>3. CASE Send(p) \/ Readback(p) \/ FinalReadback(p) \/ ReadFault(p)
  <2>1. UNCHANGED <<jobs, steps>>
    BY <1>3 DEF Send, Readback, FinalReadback, ReadFault, ledgerVars
  <2>2. /\ Send(p) => pc[p] = "send"
        /\ Readback(p) => pc[p] = "readback"
        /\ FinalReadback(p) => pc[p] = "step" /\ loc[p].todo = {}
    BY DEF Send, Readback, FinalReadback
  <2> QED BY <1>1, <1>3, <2>1, <2>2, StepMoves, StopsKeepsSteps
<1>4. CASE BlockRefused(p)
  <2>1. UNCHANGED steps /\ pc[p] = "refused"
    BY <1>4 DEF BlockRefused
  <2>2. j \in JobId
    BY <2>1, Known DEF AtJob
  <2> QED BY <1>1, <1>4, <2>1, <2>2, BlockRewrites, EarlyApplyMoves, StopsKeepsSteps
<1>5. CASE SaveFailure(p)
  <2>1. UNCHANGED steps /\ pc[p] = "fail"
    BY <1>5 DEF SaveFailure
  <2>2. j \in JobId
    BY <2>1, Known DEF AtJob
  <2> QED BY <1>1, <1>5, <2>1, <2>2, FailureRewrites, StepMoves, StopsKeepsSteps
<1>6. CASE Begin(p)
  <2>1. UNCHANGED steps /\ pc[p] = "begin"
    BY <1>6 DEF Begin
  <2>2. j \in JobId /\ pc[p] \in AtJob
    BY <2>1, Known DEF AtJob
  <2>3. UNCHANGED jobs \/ Rewrites(j, "running")
    BY <1>6, BeginRewrites
  <2>4. CASE Stops(p, {"fail"})
    BY <2>1, <2>2, <2>3, <2>4, StopsKeepsSteps
  <2>5. CASE HasLeft(p, jobs[j].ops)
    <3>1. StepRows' /\ RowsKept /\ StepsGrow
      BY <2>1, <2>2, <2>3, RowsMoved DEF StepInv
    <3>2. \A q \in Proc : Progress(q)'
      BY <2>2, <2>5, <3>1, ProgressLeft
    <3> QED BY <3>1, <3>2 DEF StepInv
  <2> QED BY <1>1, <1>6, <2>4, <2>5, BeginMoves
<1>7. CASE NextStep(p)
  <2>1. UNCHANGED <<jobs, steps>> /\ pc[p] = "step"
    BY <1>7 DEF NextStep, ledgerVars
  <2>2. CASE Stops(p, {"fail", "mark", "verify"})
    BY <2>1, <2>2, StopsKeepsSteps
  <2>3. CASE HasLeft(p, loc[p].todo \ {f}) /\ steps[j][f] = "verified"
    <3>1. StepRows' /\ RowsKept /\ StepsGrow
      BY <2>1, RowRelations, RowsSame DEF StepInv
    <3>2. /\ pc[p] \in AtJob /\ loc[p].todo \subseteq jobs[j].ops
          /\ \A g \in jobs[j].ops \ loc[p].todo : steps[j][g] = "verified"
      BY <2>1 DEF StepInv, Progress, AtJob
    <3>3. \A q \in Proc : Progress(q)'
      BY <2>1, <2>3, <3>1, <3>2, ProgressLeft
    <3> QED BY <3>1, <3>3 DEF StepInv
  <2> QED BY <1>1, <1>7, <2>2, <2>3, NextStepMoves
<1>8. CASE Mark(p)
  <2>1. UNCHANGED jobs /\ pc[p] = "mark" /\ pc[p] \in AtStep
    BY <1>8 DEF Mark, AtStep
  <2>2. \/ UNCHANGED steps
        \/ steps[j][f] = "none" /\ steps' = [steps EXCEPT ![j][f] = "dispatched"]
    BY <1>8 DEF Mark, StepFree
  <2>3. Stops(p, {"fail", "send"})
    BY <1>1, <1>8, StepMoves
  <2>4. CASE UNCHANGED steps
    BY <2>1, <2>3, <2>4, StopsKeepsSteps
  <2>5. CASE steps[j][f] = "none" /\ steps' = [steps EXCEPT ![j][f] = "dispatched"]
    <3>1. StepRows' /\ StepsGrow /\ RowsKept
      BY <1>1, <2>1, <2>5, FirstLeft, RowsAdvanced, RowRelations DEF StepInv
    <3>2. \A q \in Proc : Progress(q)'
      BY <2>1, <2>3, <3>1, ProgressStops
    <3> QED BY <3>1, <3>2 DEF StepInv
  <2> QED BY <2>2, <2>4, <2>5
<1>9. CASE Verify(p)
  <2>1. UNCHANGED jobs /\ pc[p] = "verify" /\ pc[p] \in AtStep
    BY <1>9 DEF Verify, AtStep
  <2>2. CASE Stops(p, {"fail"}) /\ UNCHANGED steps
    BY <2>1, <2>2, StopsKeepsSteps
  <2>3. CASE /\ HasLeft(p, loc[p].todo \ {f})
             /\ steps' = [steps EXCEPT ![j][f] = "verified"]
    <3>1. StepRows' /\ StepsGrow /\ RowsKept
      BY <1>1, <2>1, <2>3, FirstLeft, RowsAdvanced, RowRelations DEF StepInv
    <3>2. /\ pc[p] \in AtJob /\ loc[p].todo \subseteq jobs[j].ops
          /\ \A g \in jobs[j].ops \ loc[p].todo : steps[j][g] = "verified"
      BY <2>1 DEF StepInv, Progress, AtJob
    <3>3. j \in JobId /\ jobs[j].ops \in SUBSET Fields
      BY <2>1, FirstLeft
    <3>4. \A g \in jobs[j].ops \ (loc[p].todo \ {f}) : steps'[j][g] = "verified"
      BY <1>1, <2>3, <3>1, <3>2, <3>3 DEF StepsGrow, Data
    <3>5. \A q \in Proc : Progress(q)'
      BY <2>3, <3>1, <3>2, <3>4, ProgressLeft
    <3> QED BY <3>1, <3>5 DEF StepInv
  <2> QED BY <1>1, <1>9, <2>2, <2>3, VerifyMoves
<1>10. CASE Succeed(p)
  <2>1. UNCHANGED steps /\ pc[p] = "succeed"
    BY <1>10 DEF Succeed
  <2>2. j \in JobId /\ \A g \in jobs[j].ops : steps[j][g] = "verified"
    BY <2>1, Known DEF AtJob, StepInv, Progress
  <2>3. UNCHANGED jobs \/ Rewrites(j, "succeeded")
    BY <1>10, SucceedRewrites
  <2>4. StepRows' /\ RowsKept /\ StepsGrow
    BY <2>1, <2>2, <2>3, RowsMoved DEF StepInv
  <2>5. \A q \in Proc : Progress(q)'
    <3>1. Stops(p, {"fail"}) \/ Stops(p, Answered)
      BY <1>1, <1>10, SucceedMoves
    <3>2. \A label \in {"fail"} \cup Answered : label \notin Working \cup {"reconcile"}
      OBVIOUS
    <3> HIDE DEF Answered, Working
    <3> QED BY <2>4, <3>1, <3>2, ProgressStops
  <2> QED BY <2>4, <2>5 DEF StepInv
<1> QED BY <1>2, <1>3, <1>4, <1>5, <1>6, <1>7, <1>8, <1>9, <1>10 DEF ApplyJob

LEMMA PassKeepsSteps ==
  ASSUME IInv, StepInv, NEW p \in Proc, Poll(p) \/ RunProduct(p) \/ Crash(p)
  PROVE  StepInv'
<1> USE DEF Thrown, Working
<1>1. Control /\ UNCHANGED steps
  BY Known DEF Poll, RunProduct, Claim, ConsumeReceipt, Decide,
     SupersedeUndispatched, ClearActive, Syncing, Attend, RetryLater,
     AcknowledgeApplied, EndPass, Crash, ledgerVars
<1>2. CASE SupersedeUndispatched(p)
  <2>1. loc[p].job \in JobId
    BY <1>2, Known DEF SupersedeUndispatched, AtJob
  <2> QED BY <1>1, <1>2, <2>1, SupersedeRewrites, PassMoves, StopsKeepsSteps
<1>3. CASE ~SupersedeUndispatched(p)
  <2>1. UNCHANGED jobs
    BY <1>3 DEF Poll, RunProduct, Claim, ConsumeReceipt, Decide, ClearActive,
       Syncing, Attend, RetryLater, AcknowledgeApplied, EndPass, Crash, ledgerVars
  <2>2. CASE Poll(p) \/ ConsumeReceipt(p) \/ ClearActive(p) \/ Syncing(p) \/ Crash(p)
             \/ Attend(p) \/ RetryLater(p) \/ AcknowledgeApplied(p)
    BY <1>1, <2>1, <2>2, PassMoves, StopsKeepsSteps
  <2>3. CASE Claim(p)
    BY <1>1, <2>1, <2>3, ClaimMoves, LeavesKeepsSteps
  <2>4. CASE Decide(p)
    BY <1>1, <2>1, <2>4, DecideMoves, LeavesKeepsSteps DEF TakesJob
  <2> QED BY <1>3, <2>2, <2>3, <2>4 DEF RunProduct
<1> QED BY <1>2, <1>3

LEMMA RecoverKeepsSteps ==
  ASSUME IInv, StepInv, NEW p \in Proc, Recover(p)
  PROVE  StepInv'
<1> USE DEF Working
<1> DEFINE j == loc[p].job
<1>1. Control /\ Data
  BY Known
<1>2. CASE ManualEnqueue(p) \/ ManualApply(p) \/ SupersedeObserve(p)
  <2>1. UNCHANGED <<jobs, steps>>
    BY <1>2 DEF ManualEnqueue, ManualApply, SupersedeObserve, ledgerVars
  <2> QED BY <1>1, <1>2, <2>1, CommandMoves, ObserveMoves, LeavesKeepsSteps
          DEF TakesJob
<1>3. CASE ReconcileObserve(p)
  <2>1. UNCHANGED <<jobs, steps>>
    BY <1>3 DEF ReconcileObserve, ledgerVars
  <2>2. StepRows' /\ RowsKept /\ StepsGrow
    BY <2>1, RowsMoved DEF StepInv
  <2>3. PICK k \in Created : \E m : /\ Goes(p, "reconcile", m)
                                   /\ m.job = k /\ m.seen = steps[k]
    BY <1>1, <1>3, ObserveMoves
  <2>4. PICK m : Goes(p, "reconcile", m) /\ m.job = k /\ m.seen = steps[k]
    BY <2>3
  <2>5. \A q \in Proc \ {p} : Progress(q)'
    BY <2>2, <2>4, ProgressKept DEF Goes, Others
  <2>6. Progress(p)'
    BY <2>1, <2>4 DEF Progress, Goes
  <2> QED BY <2>2, <2>5, <2>6 DEF StepInv
<1>4. CASE ReconcileCommit(p)
  <2>1. pc[p] = "reconcile" /\ Stops(p, {"idle"})
    BY <1>1, <1>4, ReviewEnds DEF ReconcileCommit
  <2>2. /\ j \in JobId /\ Exists(j) /\ jobs[j].ops \in SUBSET Fields
    BY <2>1, Known DEF AtJob, Job
  <2>3. \A f \in Fields : /\ loc[p].seen[f] = "verified" => steps[j][f] = "verified"
                          /\ loc[p].seen[f] # "none" => steps[j][f] # "none"
    BY <2>1 DEF StepInv, Progress
  <2>4. CASE UNCHANGED <<jobs, steps, acked>>
    BY <2>1, <2>4, StopsKeepsSteps
  <2>5. ASSUME NEW s, Rewrites(j, s), loc[p].complete \/ s # "succeeded",
               steps' = [steps EXCEPT ![j] = Resolved(j, Recorded(p))]
        PROVE  StepInv'
    <3>1. Recorded(p) \in SUBSET Fields /\ Recorded(p) \subseteq jobs[j].ops
      BY <2>2, <2>3 DEF Recorded, StepInv, StepRows, StepsPlanned
    <3>2. \/ s # "succeeded" /\ \A f \in Recorded(p) : steps[j][f] # "none"
          \/ \A f \in jobs[j].ops \ Recorded(p) : steps[j][f] = "verified"
      BY <2>2, <2>3, <2>5 DEF Recorded
    <3>3. StepRows' /\ StepsGrow
      BY <2>2, <2>5, <3>1, <3>2, RowsResolved DEF StepInv
    <3>4. RowsKept
      BY <2>2, <2>5, RowRelations
    <3>5. \A q \in Proc : Progress(q)'
      BY <2>1, <3>3, <3>4, ProgressStops
    <3> QED BY <3>3, <3>5 DEF StepInv
  <2> QED BY <1>4, <2>4, <2>5, ReconcileRewrites
<1>5. CASE SupersedeCommit(p)
  <2>1. pc[p] = "retire" /\ Stops(p, {"idle"})
    BY <1>1, <1>5, ReviewEnds DEF SupersedeCommit
  <2>2. j \in JobId /\ Exists(j)
    BY <2>1, Known DEF AtJob
  <2>3. CASE UNCHANGED <<jobs, steps>>
    BY <2>1, <2>3, StopsKeepsSteps
  <2>4. CASE /\ Rewrites(j, "superseded")
             /\ steps' = [steps EXCEPT ![j] = Resolved(j, Dispatched(j))]
    <3>1. /\ Dispatched(j) \in SUBSET Fields /\ Dispatched(j) \subseteq jobs[j].ops
          /\ \A f \in Dispatched(j) : steps[j][f] # "none"
      BY <2>2 DEF Dispatched, StepInv, StepRows, StepsPlanned
    <3>2. StepRows' /\ StepsGrow
      BY <2>2, <2>4, <3>1, RowsResolved DEF StepInv
    <3>3. RowsKept
      BY <2>2, <2>4, RowRelations
    <3>4. \A q \in Proc : Progress(q)'
      BY <2>1, <3>2, <3>3, ProgressStops
    <3> QED BY <3>2, <3>4 DEF StepInv
  <2> QED BY <1>5, <2>3, <2>4, RetireRewrites
<1> QED BY <1>2, <1>3, <1>4, <1>5 DEF Recover

LEMMA StepInit == Init => StepInv
<1> SUFFICES ASSUME Init PROVE StepInv
  OBVIOUS
<1>1. Created = {}
  BY DEF Init, Created, Exists
<1>2. StepRows
  BY <1>1 DEF Init, StepRows, StepsPlanned, InOrder, SucceededIsVerified, OneLane,
     Unfinished
<1>3. \A p \in Proc : Progress(p)
  BY DEF Init, Progress, Working
<1> QED BY <1>2, <1>3 DEF StepInv

LEMMA StepNext ==
  ASSUME IInv, StepInv, [Next]_vars
  PROVE  StepInv'
<1>1. CASE LoseSessions \/ Environment \/ Quiet \/ UNCHANGED vars
  <2>1. UNCHANGED <<pc, loc, jobs, steps>>
    BY <1>1 DEF LoseSessions, Environment, Edit, Touch, Retire, Publish,
       ProcessHandoff, Disable, Deliver, Lose, ForeignWrite, Quiet, vars,
       ledgerVars
  <2>2. StepRows' /\ RowsKept /\ StepsGrow
    BY <2>1, RowsMoved DEF StepInv
  <2>3. \A p \in Proc : Progress(p)'
    BY <2>1, <2>2, ProgressKept
  <2> QED BY <2>2, <2>3 DEF StepInv
<1> QED BY <1>1, EnqueueKeepsSteps, ApplyKeepsSteps, PassKeepsSteps,
        RecoverKeepsSteps DEF Next, Act, Proc

\* A job succeeds with every one of its steps verified: applyJob reaches its
\* success with no operation left, a review that declares success resolves
\* them all, and no crash or second process in between takes one back.
THEOREM SucceededVerified == Spec => []SucceededIsVerified
<1>1. IInv /\ StepInv /\ [Next]_vars => IInv' /\ StepInv'
  BY NextLemma, StepNext
<1>2. StepInv => SucceededIsVerified
  BY DEF StepInv, StepRows
<1> QED BY <1>1, <1>2, InitLemma, StepInit, PTL DEF Spec
=============================================================================
