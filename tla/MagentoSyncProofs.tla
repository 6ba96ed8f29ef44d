------------------------- MODULE MagentoSyncProofs --------------------------
(***************************************************************************)
(* Proofs about MagentoSync, for any number of workers, people, fields,    *)
(* jobs and events: every variable has its type, no dispatch step is sent  *)
(* twice, and the ledger promise of DispatchLedger is kept.                *)
(***************************************************************************)
EXTENDS MagentoSync, TLAPS, FiniteSetTheorems

-----------------------------------------------------------------------------
\* The inductive invariant.

\* Labels at which a process works on the job it holds, and those at which it
\* works on the first operation that job has left.
AtJob  == {"supersede", "syncing", "apply", "refused", "begin", "step", "mark",
           "send", "readback", "verify", "succeed", "fail", "reconcile",
           "retire"}
AtStep == {"mark", "send", "readback", "verify"}

\* A process that stops working on a job goes to one of these.
Neutral == {"idle", "retry", "attend", "acknowledge"}

\* The types of pc and loc, and those of the rest.  Who holds the locks is kept
\* apart: what is proved from the invariant holds whoever else takes them.
Control == pc \in [Proc -> Labels] /\ loc \in [Proc -> Local]
Data ==
  /\ product \in Product /\ published \in Nat
  /\ gate \in BOOLEAN /\ handoff \in BOOLEAN
  /\ request \in Request
  /\ jobs \in [JobId -> Job \cup {NoRow}]
  /\ steps \in [JobId -> [Fields -> StepStates]]
  /\ remote \in [Fields -> Held]
  /\ wire \in SUBSET (JobId \X Fields)
  /\ sent \in [JobId -> [Fields -> Nat]]
  /\ acked \in Held
  /\ refuted \in SUBSET (JobId \X Fields)
  /\ spent \in [Kinds -> Nat]

Typed  == Data /\ Control
Locked == idLock \in Proc \cup {NoProc} /\ skuLock \in Proc \cup {NoProc}

\* Every job somebody refers to has a row.
JobsExist ==
  /\ request.active # NoJob => Exists(request.active)
  /\ \A p \in Proc : loc[p].active # NoJob => Exists(loc[p].active)
  /\ \A p \in Proc :
       pc[p] \in AtJob => loc[p].job # NoJob /\ Exists(loc[p].job)
  /\ \A j \in JobId, f \in Fields : <<j, f>> \in wire => Exists(j)

\* There is an operation to work on.
TodoLeft == \A p \in Proc : pc[p] \in AtStep => loc[p].todo # {}

\* Sends come after markers; a process about to send owns a marked step that
\* was never sent, and owns it alone, whatever happened to the locks.
Target(p) == <<loc[p].job, First(loc[p].todo)>>
UnmarkedUnsent ==
  \A j \in JobId, f \in Fields : steps[j][f] = "none" => sent[j][f] = 0
SenderOwns ==
  \A p \in Proc : pc[p] = "send" =>
    /\ steps[loc[p].job][First(loc[p].todo)] # "none"
    /\ sent[loc[p].job][First(loc[p].todo)] = 0
SendersDiffer ==
  \A p, q \in Proc : pc[p] = "send" /\ pc[q] = "send" /\ p # q
                       => Target(p) # Target(q)

Once == AtMostOnce /\ UnmarkedUnsent /\ SenderOwns /\ SendersDiffer
IInv == Typed /\ JobsExist /\ TodoLeft /\ Once

-----------------------------------------------------------------------------
\* Least and greatest elements, which First and Newest choose.

LEMMA LeastExists ==
  ASSUME NEW S, IsFiniteSet(S), S \subseteq Nat, S # {}
  PROVE  \E x \in S : \A y \in S : x <= y
<1> DEFINE Below(x) == {y \in S : y < x}
           T == {Below(x) : x \in S}
<1>1. T \subseteq SUBSET S /\ T # {}
  OBVIOUS
<1>2. PICK A \in T : \A B \in T : ~(<<B, A>> \in StrictSubsetOrdering(S))
  <2> HIDE DEF T
  <2>1. T \subseteq FiniteSubsetsOf(S)
    BY <1>1, FS_FiniteSubsetsOfFinite
  <2> QED BY <1>1, <2>1, WFMin, FS_StrictSubsetOrderingWellFounded
<1>3. PICK x \in S : A = Below(x)
  BY <1>2
<1>4. ASSUME NEW y \in S, y < x  PROVE FALSE
  <2>1. Below(y) \in T
    OBVIOUS
  <2>2. y \in Below(x) /\ y \notin Below(y)
    BY <1>4
  <2>3. ASSUME NEW z \in Below(y)  PROVE z \in Below(x)
    BY <1>4
  <2>4. <<Below(y), A>> \in StrictSubsetOrdering(S)
    <3> HIDE DEF T
    <3>1. Below(y) \subseteq Below(x) /\ Below(y) # Below(x)
      BY <2>2, <2>3
    <3>2. Below(y) \in SUBSET S /\ Below(x) \in SUBSET S
      OBVIOUS
    <3> HIDE DEF Below
    <3> QED BY <3>1, <3>2, <1>3 DEF StrictSubsetOrdering
  <2> QED BY <2>1, <2>4, <1>2
<1> QED BY <1>4

LEMMA GreatestExists ==
  ASSUME NEW S, IsFiniteSet(S), S \subseteq Nat, S # {}
  PROVE  \E x \in S : \A y \in S : y <= x
<1> DEFINE Above(x) == {y \in S : y > x}
           T == {Above(x) : x \in S}
<1>1. T \subseteq SUBSET S /\ T # {}
  OBVIOUS
<1>2. PICK A \in T : \A B \in T : ~(<<B, A>> \in StrictSubsetOrdering(S))
  <2> HIDE DEF T
  <2>1. T \subseteq FiniteSubsetsOf(S)
    BY <1>1, FS_FiniteSubsetsOfFinite
  <2> QED BY <1>1, <2>1, WFMin, FS_StrictSubsetOrderingWellFounded
<1>3. PICK x \in S : A = Above(x)
  BY <1>2
<1>4. ASSUME NEW y \in S, y > x  PROVE FALSE
  <2>1. Above(y) \in T
    OBVIOUS
  <2>2. y \in Above(x) /\ y \notin Above(y)
    BY <1>4
  <2>3. ASSUME NEW z \in Above(y)  PROVE z \in Above(x)
    BY <1>4
  <2>4. <<Above(y), A>> \in StrictSubsetOrdering(S)
    <3> HIDE DEF T
    <3>1. Above(y) \subseteq Above(x) /\ Above(y) # Above(x)
      BY <2>2, <2>3
    <3>2. Above(y) \in SUBSET S /\ Above(x) \in SUBSET S
      OBVIOUS
    <3> HIDE DEF Above
    <3> QED BY <3>1, <3>2, <1>3 DEF StrictSubsetOrdering
  <2> QED BY <2>1, <2>4, <1>2
<1> QED BY <1>4

LEMMA FirstType ==
  ASSUME NEW S, S \subseteq Fields, S # {}
  PROVE  First(S) \in S
<1>1. IsFiniteSet(S) /\ S \subseteq Nat
  BY DataAssumption, FS_Subset
<1>2. \E x \in S : \A y \in S : x <= y
  BY <1>1, LeastExists
<1> QED BY <1>2 DEF First

LEMMA NewestType ==
  ASSUME NEW S, S \subseteq JobId, S # {}
  PROVE  Newest(S) \in S
<1>1. IsFiniteSet(JobId) /\ JobId \subseteq Nat
  BY FS_Interval, BoundAssumption DEF JobId
<1>2. IsFiniteSet(S) /\ S \subseteq Nat
  BY <1>1, FS_Subset
<1>3. \E x \in S : \A y \in S : y <= x
  BY <1>2, GreatestExists
<1> QED BY <1>3 DEF Newest

-----------------------------------------------------------------------------
\* Types of the values the rows take.

LEMMA SplitType == Typed <=> Data /\ Control
BY DEF Typed

LEMMA FreshLocalType == FreshLocal \in Local
BY DataAssumption DEF FreshLocal, Local, InitialProduct, Product, NoJob,
                      Reasons, Codes, StepStates, Held

\* Each statement on the request row keeps its type, and touches the active
\* job only as it says.
LEMMA RequestRows ==
  ASSUME NEW r \in Request, NEW gen \in Nat, NEW j \in JobId,
         NEW reason \in Reasons
  PROVE  /\ Bump(r) \in Request /\ Bump(r).active = r.active
         /\ Attach(r, j, gen) \in Request /\ Attach(r, j, gen).active = j
         /\ Attention(r, gen, reason) \in Request
         /\ Attention(r, gen, reason).active = r.active
         /\ Retry(r) \in Request /\ Retry(r).active = r.active
         /\ Acknowledge(r, gen) \in Request
         /\ Acknowledge(r, gen).active = NoJob
         /\ Clear(r) \in Request /\ Clear(r).active = NoJob
<1> USE DEF Request, Reasons
<1>1. Bump(r) \in Request /\ Bump(r).active = r.active
  <2> DEFINE d == r.desired + 1
             sticky == r.reason = "reconciliation_required"
  <2>1. d \in Nat
    OBVIOUS
  <2>2. Bump(r) = [r EXCEPT !.desired = d,
                     !.state = IF sticky THEN "needs_attention" ELSE "pending",
                     !.reason = IF sticky THEN r.reason ELSE "none"]
    BY DEF Bump
  <2> HIDE DEF d
  <2> QED BY <2>1, <2>2
<1>2. Attach(r, j, gen) \in Request /\ Attach(r, j, gen).active = j
  BY DEF Attach
<1>3. /\ Attention(r, gen, reason) \in Request
      /\ Attention(r, gen, reason).active = r.active
  BY DEF Attention
<1>4. Retry(r) \in Request /\ Retry(r).active = r.active
  BY DEF Retry
<1>5. /\ Acknowledge(r, gen) \in Request
      /\ Acknowledge(r, gen).active = NoJob
  BY DEF Acknowledge
<1>6. Clear(r) \in Request /\ Clear(r).active = NoJob
  BY DEF Clear
<1> QED BY <1>1, <1>2, <1>3, <1>4, <1>5, <1>6

LEMMA JobIsNoRow == NoRow \notin Job
BY DEF NoRow, Job, JobStates

\* An update of an existing job row.
LEMMA JobRows ==
  ASSUME jobs \in [JobId -> Job \cup {NoRow}], NEW j \in JobId, Exists(j),
         NEW s \in JobStates, NEW c \in Codes,
         \/ jobs' = [jobs EXCEPT ![j].state = s, ![j].failure = c]
         \/ jobs' = [jobs EXCEPT ![j].state = s]
  PROVE  /\ jobs' \in [JobId -> Job \cup {NoRow}]
         /\ \A k \in JobId : Exists(k) => Exists(k)'
<1> DEFINE b == jobs[j]
<1>1. b \in Job
  BY DEF Exists
<1>2. PICK r \in Job : jobs' = [jobs EXCEPT ![j] = r]
  <2>1. [b EXCEPT !.state = s, !.failure = c] \in Job
    BY <1>1 DEF Job
  <2>2. [b EXCEPT !.state = s] \in Job
    BY <1>1 DEF Job
  <2>3. CASE jobs' = [jobs EXCEPT ![j].state = s, ![j].failure = c]
    BY <2>1, <2>3
  <2>4. CASE jobs' = [jobs EXCEPT ![j].state = s]
    BY <2>2, <2>4
  <2> QED BY <2>3, <2>4
<1> QED BY <1>2, JobIsNoRow DEF Exists

-----------------------------------------------------------------------------
\* How processes move.

\* What a process does to the control state when it leaves.
Moved(p, label) ==
  /\ Control'
  /\ pc'[p] = label
  /\ \A q \in Proc \ {p} : pc'[q] = pc[q] /\ loc'[q] = loc[q]
  /\ loc'[p].active \in {loc[p].active, request.active, NoJob}

LEMMA UpdateMoves ==
  ASSUME Control, NEW p \in Proc, NEW label \in Labels, NEW r \in Local,
         Goto(p, label), loc' = [loc EXCEPT ![p] = r],
         r.active \in {loc[p].active, request.active, NoJob}
  PROVE  Moved(p, label) /\ loc'[p] = r
BY DEF Goto, Control, Moved

LEMMA LeaveMoves ==
  ASSUME Control, NEW p \in Proc, NEW label \in Labels, NEW reason \in Reasons,
         Leave(p, label, reason)
  PROVE  /\ Moved(p, label)
         /\ label # "idle" => loc'[p].job = loc[p].job
<1>1. loc[p] \in Local
  BY DEF Control
<1>2. CASE label = "idle"
  BY <1>2, FreshLocalType, UpdateMoves DEF Leave, FreshLocal
<1>3. CASE label # "idle"
  <2> DEFINE r == [loc[p] EXCEPT !.reason = reason]
  <2>1. r \in Local /\ r.active = loc[p].active /\ r.job = loc[p].job
    <3> HIDE DEF r
    <3> DEFINE l == loc[p]
    <3>1. r = [l EXCEPT !.reason = reason] BY DEF r
    <3> HIDE DEF l
    <3> QED BY <1>1, <3>1 DEF Local, l
  <2>2. Goto(p, label) /\ loc' = [loc EXCEPT ![p] = r]
    BY <1>3 DEF Leave
  <2> QED BY <2>1, <2>2, UpdateMoves
<1> QED BY <1>2, <1>3

LEMMA ThrowMoves ==
  ASSUME Control, NEW p \in Proc, NEW code \in Codes, Throw(p, code)
  PROVE  \E label \in Neutral : Moved(p, label)
<1>1. \E label \in Neutral, reason \in Reasons : Leave(p, label, reason)
  BY DEF Throw, Neutral, Reasons, ThrownReason
<1> QED BY <1>1, LeaveMoves DEF Neutral, Labels

LEMMA ReturnMoves ==
  ASSUME Control, NEW p \in Proc, NEW state, NEW code,
         Return(p, state, code)
  PROVE  \E label \in Neutral : Moved(p, label)
<1>1. \E label \in Neutral, reason \in Reasons : Leave(p, label, reason)
  BY DEF Return, Neutral, Reasons
<1> QED BY <1>1, LeaveMoves DEF Neutral, Labels

LEMMA FailMoves ==
  ASSUME Control, NEW p \in Proc, NEW code \in Codes, Fail(p, code)
  PROVE  Moved(p, "fail") /\ loc'[p].job = loc[p].job
<1> DEFINE r == [loc[p] EXCEPT !.code = code]
<1>1. loc[p] \in Local
  BY DEF Control
<1>2. r \in Local /\ r.active = loc[p].active /\ r.job = loc[p].job
  BY <1>1 DEF Local
<1>3. Goto(p, "fail") /\ loc' = [loc EXCEPT ![p] = r]
  BY DEF Fail
<1>4. "fail" \in Labels BY DEF Labels
<1> QED BY <1>2, <1>3, <1>4, UpdateMoves

LEMMA GotoMoves ==
  ASSUME Control, NEW p \in Proc, NEW label \in Labels, Goto(p, label),
         UNCHANGED loc
  PROVE  Moved(p, label) /\ loc'[p] = loc[p]
BY DEF Goto, Control, Moved

-----------------------------------------------------------------------------
\* Steps that send nothing.

\* Nothing that exists goes away.
Grown ==
  /\ \A j \in JobId : Exists(j) => Exists(j)'
  /\ \A j \in JobId, f \in Fields : steps[j][f] # "none" => steps'[j][f] # "none"
  /\ request'.active = NoJob \/ request'.active = request.active
     \/ Exists(request.active)'
  /\ wire' \subseteq wire

LEMMA OnceKept ==
  ASSUME Once, UNCHANGED sent,
         \A j \in JobId, f \in Fields : steps[j][f] # "none" => steps'[j][f] # "none",
         Control, Control', TodoLeft, JobsExist,
         \A q \in Proc : pc'[q] = "send" => pc[q] = "send" /\ loc'[q] = loc[q]
  PROVE  Once'
<1>1. AtMostOnce' BY DEF Once, AtMostOnce
<1>2. UnmarkedUnsent' BY DEF Once, UnmarkedUnsent
<1>3. SenderOwns'
  <2> SUFFICES ASSUME NEW p \in Proc, pc'[p] = "send"
               PROVE  /\ steps'[loc'[p].job][First(loc'[p].todo)] # "none"
                      /\ sent'[loc'[p].job][First(loc'[p].todo)] = 0
    BY DEF SenderOwns
  <2>1. pc[p] = "send" /\ loc'[p] = loc[p] OBVIOUS
  <2>2. loc[p].todo # {} /\ loc[p].todo \subseteq Fields
    BY <2>1 DEF TodoLeft, AtStep, Control, Local
  <2>3. loc[p].job \in JobId
    BY <2>1 DEF JobsExist, AtJob, Control, Local
  <2>4. First(loc[p].todo) \in Fields
    BY <2>2, FirstType
  <2> QED BY <2>1, <2>3, <2>4 DEF Once, SenderOwns
<1>4. SendersDiffer' BY DEF Once, SendersDiffer, Target
<1> QED BY <1>1, <1>2, <1>3, <1>4 DEF Once

LEMMA QuietStep ==
  ASSUME IInv, NEW p \in Proc, NEW label \in Labels \ {"send"},
         Moved(p, label), Data', UNCHANGED sent, Grown,
         label \in AtJob => loc'[p].job # NoJob /\ Exists(loc[p].job)',
         label \in AtStep => loc'[p].todo # {}
  PROVE  IInv'
<1>1. Typed'
  BY DEF Moved, Typed, Data, Control
<1>2. JobsExist'
  <2>1. request'.active # NoJob => Exists(request.active)'
    BY DEF IInv, JobsExist, Grown, Exists, Typed, Data, Request
  <2>2. ASSUME NEW q \in Proc  PROVE loc'[q].active # NoJob => Exists(loc[q].active)'
    <3>1. loc[q] \in Local /\ request \in Request BY DEF IInv, Typed, Data, Control
    <3>2. loc'[q].active \in {loc[q].active, request.active, NoJob}
      BY DEF Moved
    <3>3. loc[q].active \in JobId \cup {NoJob} /\ request.active \in JobId \cup {NoJob}
      BY <3>1 DEF Local, Request
    <3> QED BY <3>2, <3>3 DEF IInv, JobsExist, Grown, Exists
  <2>3. ASSUME NEW q \in Proc, pc'[q] \in AtJob
        PROVE  loc'[q].job # NoJob /\ Exists(loc[q].job)'
    <3>1. CASE q = p BY <3>1, <2>3 DEF Moved, Exists
    <3>2. CASE q # p
      <4>1. pc'[q] = pc[q] /\ loc'[q] = loc[q] BY <3>2 DEF Moved
      <4>2. loc[q] \in Local BY DEF IInv, Typed, Control
      <4>3. loc[q].job \in JobId \cup {NoJob} BY <4>2 DEF Local
      <4> QED BY <4>1, <4>3, <2>3 DEF IInv, JobsExist, Grown, Exists
    <3> QED BY <3>1, <3>2
  <2>4. \A j \in JobId, f \in Fields : <<j, f>> \in wire' => Exists(j)'
    BY DEF IInv, JobsExist, Grown
  <2> QED BY <2>1, <2>2, <2>3, <2>4 DEF JobsExist
<1>3. TodoLeft'
  BY DEF IInv, TodoLeft, Moved
<1>4. Once'
  <2>1. Control /\ Control' BY <1>1, SplitType DEF IInv, Moved
  <2>2. \A q \in Proc : pc'[q] = "send" => pc[q] = "send" /\ loc'[q] = loc[q]
    BY DEF Moved
  <2> QED BY <2>1, <2>2, OnceKept DEF IInv, Grown
<1> QED BY <1>1, <1>2, <1>3, <1>4 DEF IInv

\* The environment's steps.
LEMMA OutsideStep ==
  ASSUME IInv, UNCHANGED <<pc, loc, sent>>, Data', Grown
  PROVE  IInv'
<1>1. Typed'
  BY DEF IInv, Typed, Data, Control
<1>2. JobsExist'
  <2>1. request'.active # NoJob => Exists(request.active)'
    BY DEF IInv, JobsExist, Grown, Exists, Typed, Data, Request
  <2>2. ASSUME NEW q \in Proc
        PROVE  loc[q].active \in JobId \cup {NoJob} /\ loc[q].job \in JobId \cup {NoJob}
    <3>1. loc[q] \in Local BY DEF IInv, Typed, Control
    <3> QED BY <3>1 DEF Local
  <2>3. \A j \in JobId, f \in Fields : <<j, f>> \in wire' => Exists(j)'
    BY DEF IInv, JobsExist, Grown
  <2> QED BY <2>1, <2>2, <2>3 DEF IInv, JobsExist, Grown, Exists
<1>3. TodoLeft'
  BY DEF IInv, TodoLeft
<1>4. Once'
  <2>1. Control /\ Control' BY <1>1, SplitType DEF IInv, Typed, Control
  <2> QED BY <2>1, OnceKept DEF IInv, Grown
<1> QED BY <1>1, <1>2, <1>3, <1>4 DEF IInv

-----------------------------------------------------------------------------
\* What every action lemma starts from.

LEMMA Known ==
  ASSUME IInv, NEW p \in Proc
  PROVE  /\ Data /\ Control /\ loc[p] \in Local
         /\ loc[p].job \in JobId \cup {NoJob}
         /\ loc[p].active \in JobId \cup {NoJob}
         /\ loc[p].gen \in Nat /\ loc[p].activeGen \in Nat
         /\ loc[p].binding \in Nat /\ loc[p].snap \in Product
         /\ loc[p].reason \in Reasons /\ loc[p].code \in Codes
         /\ loc[p].todo \in SUBSET Fields /\ loc[p].ops \in SUBSET Fields
         /\ loc[p].base \in [Fields -> Held]
         /\ loc[p].absent \in SUBSET Fields
         /\ pc[p] \in AtJob => /\ loc[p].job \in JobId
                               /\ Exists(loc[p].job)
                               /\ jobs[loc[p].job] \in Job
<1>1. Data /\ Control
  BY SplitType DEF IInv
<1>2. loc[p] \in Local
  BY <1>1 DEF Control
<1> QED BY <1>1, <1>2 DEF Local, IInv, JobsExist, Data, Exists

LEMMA CheckCodes ==
  ASSUME NEW p
  PROVE  /\ \A b : ReadStateCheck(p, b) \in Codes
         /\ AssertSnapshot(p) \in Codes /\ Revalidate(p) \in Codes
         /\ MarkCode(p) \in Codes /\ EntryCode(p) \in Codes
<1> USE DEF Codes, AutomaticCheck
<1>1. \A b : ReadStateCheck(p, b) \in Codes
  BY DEF ReadStateCheck
<1>2. AssertSnapshot(p) \in Codes /\ Revalidate(p) \in Codes /\ MarkCode(p) \in Codes
  BY DEF AssertSnapshot, Revalidate, MarkCode
<1>3. EntryCode(p) \in Codes
  BY <1>1 DEF EntryCode
<1> QED BY <1>1, <1>2, <1>3

LEMMA NeutralStep ==
  ASSUME IInv, NEW p \in Proc, \E label \in Neutral : Moved(p, label),
         Data', UNCHANGED sent, Grown
  PROVE  IInv'
<1>1. PICK label \in Neutral : Moved(p, label)
  OBVIOUS
<1>2. label \in Labels \ {"send"} /\ label \notin AtJob /\ label \notin AtStep
  BY <1>1 DEF Neutral, Labels, AtJob, AtStep
<1> QED BY <1>1, <1>2, QuietStep

\* A process that keeps its variables and goes on with its job.
LEMMA OnStep ==
  ASSUME IInv, NEW p \in Proc, NEW label \in Labels \ {"send"},
         Moved(p, label), loc'[p].job = loc[p].job, pc[p] \in AtJob,
         label \in AtStep => loc'[p].todo # {},
         Data', UNCHANGED sent, Grown
  PROVE  IInv'
<1>1. loc[p].job \in JobId /\ Exists(loc[p].job)
  BY Known
<1>2. loc'[p].job # NoJob /\ Exists(loc[p].job)'
  <2>1. loc[p].job # NoJob BY DEF IInv, JobsExist
  <2> QED BY <1>1, <2>1 DEF Grown, Exists
<1> QED BY <1>2, QuietStep

LEMMA SpendType ==
  ASSUME Data, NEW kind \in Kinds, Spend(kind)
  PROVE  spent' \in [Kinds -> Nat]
<1>1. spent[kind] + 1 \in Nat
  BY DEF Data
<1> QED BY <1>1 DEF Data, Spend

\* Steps that change control only, and at most the locks or the budget.
LEMMA DataSame ==
  ASSUME Data, UNCHANGED <<amberVars, request, ledgerVars, magentoVars,
                           historyVars>>,
         spent' \in [Kinds -> Nat]
  PROVE  Data' /\ Grown /\ UNCHANGED sent
BY DEF Data, Grown, Exists, amberVars, ledgerVars, magentoVars, historyVars

-----------------------------------------------------------------------------
\* enqueue

LEMMA EnqueueEnterStep ==
  ASSUME IInv, NEW p \in Proc, EnqueueEnter(p)
  PROVE  IInv'
<1> DEFINE code == ReadStateCheck(p, loc[p].binding)
<1>1. Data /\ Control /\ loc[p] \in Local
  BY Known
<1>2. Data' /\ Grown /\ UNCHANGED sent
  <2>1. spent' = spent
    BY <1>1 DEF EnqueueEnter, Data
  <2>2. spent \in [Kinds -> Nat] BY <1>1 DEF Data
  <2> QED BY <1>1, <2>1, <2>2, DataSame DEF EnqueueEnter
<1>3. CASE code = "none"
  <2> DEFINE r == [loc[p] EXCEPT !.snap = product]
  <2>1. r \in Local /\ r.active = loc[p].active
    BY <1>1 DEF Local, Data
  <2>2. Goto(p, "plan") /\ loc' = [loc EXCEPT ![p] = r]
    BY <1>3 DEF EnqueueEnter
  <2>3. "plan" \in Labels \ {"send"} /\ "plan" \notin AtJob /\ "plan" \notin AtStep
    BY DEF Labels, AtJob, AtStep
  <2>4. Moved(p, "plan")
    BY <1>1, <2>1, <2>2, <2>3, UpdateMoves
  <2> QED BY <1>2, <2>3, <2>4, QuietStep
<1>4. CASE code # "none"
  <2>1. Throw(p, code) /\ code \in Codes
    BY <1>4, CheckCodes DEF EnqueueEnter
  <2> HIDE DEF code
  <2> QED BY <1>1, <1>2, <2>1, ThrowMoves, NeutralStep
<1> QED BY <1>3, <1>4

LEMMA PlanJobStep ==
  ASSUME IInv, NEW p \in Proc, PlanJob(p)
  PROVE  IInv'
<1>1. Data /\ Control /\ loc[p] \in Local
  BY Known
<1>2. Data' /\ Grown /\ UNCHANGED sent
  <2>1. spent' = spent
    BY <1>1 DEF PlanJob, Data, lockVars
  <2>2. spent \in [Kinds -> Nat] BY <1>1 DEF Data
  <2> QED BY <1>1, <2>1, <2>2, DataSame DEF PlanJob
<1>3. CASE loc[p].snap.active
  <2> DEFINE r == [loc[p] EXCEPT !.ops = PlanOps(loc[p].snap.input),
                                 !.base = remote]
  <2>1. PlanOps(loc[p].snap.input) \in SUBSET Fields
    BY DataAssumption DEF PlanOps
  <2>2. r \in Local /\ r.active = loc[p].active
    BY <1>1, <2>1 DEF Local, Data
  <2>3. Goto(p, "insert") /\ loc' = [loc EXCEPT ![p] = r]
    BY <1>3 DEF PlanJob
  <2>4. "insert" \in Labels \ {"send"} /\ "insert" \notin AtJob /\ "insert" \notin AtStep
    BY DEF Labels, AtJob, AtStep
  <2>5. Moved(p, "insert")
    BY <1>1, <2>2, <2>3, <2>4, UpdateMoves
  <2> QED BY <1>2, <2>4, <2>5, QuietStep
<1>4. CASE ~loc[p].snap.active
  <2>1. Throw(p, "data") /\ "data" \in Codes
    BY <1>4 DEF PlanJob, Codes
  <2> QED BY <1>1, <1>2, <2>1, ThrowMoves, NeutralStep
<1> QED BY <1>3, <1>4

LEMMA PlanFaultStep ==
  ASSUME IInv, NEW p \in Proc, PlanFault(p)
  PROVE  IInv'
<1>1. Data /\ Control
  BY Known
<1>2. Data' /\ Grown /\ UNCHANGED sent
  <2>2. spent' \in [Kinds -> Nat]
    BY <1>1, SpendType DEF PlanFault, Kinds
  <2> QED BY <1>1, <2>2, DataSame DEF PlanFault
<1>3. PICK code \in {"read", "data"} : Throw(p, code)
  BY DEF PlanFault
<1>4. code \in Codes
  BY DEF Codes
<1> QED BY <1>1, <1>2, <1>3, <1>4, ThrowMoves, NeutralStep

LEMMA ExistingType ==
  ASSUME NEW p \in Proc, ExistingJob(p) # NoJob
  PROVE  ExistingJob(p) \in JobId /\ Exists(ExistingJob(p))
<1> DEFINE found == {j \in JobId : Reusable(p, j)}
<1>1. found # {} /\ ExistingJob(p) = Newest(found)
  BY DEF ExistingJob
<1>2. Newest(found) \in found
  BY <1>1, NewestType
<1> QED BY <1>1, <1>2 DEF Reusable

LEMMA UseExistingStep ==
  ASSUME IInv, NEW p \in Proc, UseExisting(p)
  PROVE  IInv'
<1> DEFINE j == ExistingJob(p)
           code == IF jobs[j].amber # loc[p].snap THEN "amber"
                   ELSE IF jobs[j].binding # loc[p].binding THEN "binding"
                   ELSE IF p \in Workers THEN AssertSnapshot(p) ELSE "none"
<1>1. Data /\ Control /\ loc[p] \in Local /\ loc[p].gen \in Nat
  BY Known
<1>2. j \in JobId /\ Exists(j)
  BY ExistingType DEF UseExisting
<1>3. code \in Codes
  BY CheckCodes DEF Codes
<1>4. request' \in {request, Attach(request, j, loc[p].gen)}
  BY DEF UseExisting
<1>5. Data' /\ Grown /\ UNCHANGED sent
  <2>2. request' \in Request /\ request'.active \in {request.active, j}
    <3>1. request \in Request BY <1>1 DEF Data
    <3>2. "none" \in Reasons BY DEF Reasons
    <3> HIDE DEF j
    <3> QED BY <1>1, <1>2, <1>4, <3>1, <3>2, RequestRows
  <2> HIDE DEF j
  <2> QED BY <1>1, <1>2, <2>2
       DEF UseExisting, Data, Grown, Exists, amberVars, ledgerVars,
            magentoVars, historyVars
<1>6. CASE code = "none" /\ p \in Workers
  <2> DEFINE r == [loc[p] EXCEPT !.job = j]
  <2>1. Goto(p, "syncing") /\ loc' = [loc EXCEPT ![p] = r]
    BY <1>6 DEF UseExisting
  <2>2. "syncing" \in Labels \ {"send"} /\ "syncing" \notin AtStep
    BY DEF Labels, AtStep
  <2> HIDE DEF j
  <2>3. r \in Local /\ r.active = loc[p].active /\ r.job = j
    BY <1>1, <1>2 DEF Local
  <2>4. Moved(p, "syncing") /\ loc'[p] = r
    BY <1>1, <2>1, <2>2, <2>3, UpdateMoves
  <2>5. loc'[p].job # NoJob /\ Exists(loc[p].job)'
    BY <1>2, <1>5, <2>3, <2>4 DEF JobId, NoJob, Grown, Exists
  <2> QED BY <1>5, <2>2, <2>4, <2>5, QuietStep
<1>7. CASE ~(code = "none" /\ p \in Workers)
  <2>1. Throw(p, code) \/ Leave(p, "idle", "none")
    BY <1>7 DEF UseExisting
  <2>2. \E label \in Neutral : Moved(p, label)
    <3>1. "idle" \in Labels /\ "idle" \in Neutral /\ "none" \in Reasons
      BY DEF Labels, Neutral, Reasons
    <3> HIDE DEF code
    <3> QED BY <1>1, <1>3, <2>1, <3>1, ThrowMoves, LeaveMoves
  <2> QED BY <1>5, <2>2, NeutralStep
<1> QED BY <1>6, <1>7

LEMMA InsertJobStep ==
  ASSUME IInv, NEW p \in Proc, InsertJob(p)
  PROVE  IInv'
<1> DEFINE code == IF p \in Workers THEN AssertSnapshot(p) ELSE Revalidate(p)
           auto == IF p \in Workers THEN loc[p].gen ELSE 0
           refused == code # "none" \/ IndexViolation(p)
           row == [state |-> "queued", auto |-> auto, amber |-> loc[p].snap,
                   binding |-> loc[p].binding, ops |-> loc[p].ops,
                   base |-> loc[p].base, failure |-> "none"]
<1>1. /\ Data /\ Control /\ loc[p] \in Local /\ loc[p].gen \in Nat
      /\ row \in Job
  BY Known DEF Job, JobStates, Codes
<1>3. CASE refused
  <2>1. Data' /\ Grown /\ UNCHANGED sent
    BY <1>1, <1>3 DEF InsertJob, Data, Grown, Exists, amberVars,
         magentoVars, historyVars
  <2>2. Throw(p, IF code # "none" THEN code ELSE "other")
    BY <1>3 DEF InsertJob
  <2>3. (IF code # "none" THEN code ELSE "other") \in Codes
    BY CheckCodes DEF Codes
  <2> QED BY <1>1, <2>1, <2>2, <2>3, ThrowMoves, NeutralStep
<1>4. CASE ~refused
  <2>1. PICK j \in JobId :
          /\ ~Exists(j)
          /\ jobs' = [jobs EXCEPT ![j] = row]
          /\ IF p \in Workers
             THEN /\ request' = Attach(request, j, loc[p].gen)
                  /\ Goto(p, "syncing")
                  /\ loc' = [loc EXCEPT ![p].job = j]
             ELSE Leave(p, "idle", "none") /\ UNCHANGED request
    BY <1>4 DEF InsertJob
  <2> HIDE DEF row
  <2>2. /\ jobs' \in [JobId -> Job \cup {NoRow}]
        /\ \A k \in JobId : Exists(k) => Exists(k)'
        /\ Exists(j)'
    BY <1>1, <2>1, JobIsNoRow DEF Data, Exists
  <2>3. request' \in Request /\ request'.active \in {request.active, j}
    <3>1. request \in Request BY <1>1 DEF Data
    <3>2. "none" \in Reasons BY DEF Reasons
    <3> QED BY <1>1, <2>1, <3>1, <3>2, RequestRows
  <2>4. Data' /\ Grown /\ UNCHANGED sent
    BY <1>1, <2>2, <2>3 DEF InsertJob, Data, Grown, Exists, amberVars,
         magentoVars, historyVars
  <2>5. CASE p \in Workers
    <3> DEFINE r == [loc[p] EXCEPT !.job = j]
    <3>1. Goto(p, "syncing") /\ loc' = [loc EXCEPT ![p] = r]
      BY <2>1, <2>5
    <3>2. "syncing" \in Labels \ {"send"} /\ "syncing" \notin AtStep
      BY DEF Labels, AtStep
    <3>3. r \in Local /\ r.active = loc[p].active /\ r.job = j
      BY <1>1 DEF Local
    <3>4. Moved(p, "syncing") /\ loc'[p] = r
      BY <1>1, <3>1, <3>2, <3>3, UpdateMoves
    <3>5. loc'[p].job # NoJob /\ Exists(loc[p].job)'
      BY <2>2, <3>3, <3>4 DEF JobId, NoJob, Exists
    <3> QED BY <2>4, <3>2, <3>4, <3>5, QuietStep
  <2>6. CASE p \notin Workers
    <3>1. "idle" \in Labels /\ "idle" \in Neutral /\ "none" \in Reasons
      BY DEF Labels, Neutral, Reasons
    <3> QED BY <1>1, <2>1, <2>4, <2>6, <3>1, LeaveMoves, NeutralStep
  <2> QED BY <2>5, <2>6
<1> QED BY <1>3, <1>4

-----------------------------------------------------------------------------
\* applyJob

LEMMA ApplyBusyStep ==
  ASSUME IInv, NEW p \in Proc, ApplyBusy(p)
  PROVE  IInv'
<1>1. Data /\ Control
  BY Known
<1>2. Data' /\ Grown /\ UNCHANGED sent
  BY <1>1, DataSame DEF ApplyBusy, Data, lockVars
<1>3. Throw(p, "busy") /\ "busy" \in Codes
  BY DEF ApplyBusy, Codes
<1> QED BY <1>1, <1>2, <1>3, ThrowMoves, NeutralStep

LEMMA ApplyRefusedStep ==
  ASSUME IInv, NEW p \in Proc, ApplyRefused(p)
  PROVE  IInv'
<1>1. Data /\ Control /\ pc[p] = "apply"
  BY Known DEF ApplyRefused
<1>2. Data' /\ Grown /\ UNCHANGED sent
  BY <1>1, DataSame DEF ApplyRefused, Data, lockVars
<1>3. CASE Throw(p, "binding")
  <2>1. "binding" \in Codes BY DEF Codes
  <2> QED BY <1>1, <1>2, <1>3, <2>1, ThrowMoves, NeutralStep
<1>4. CASE Leave(p, "refused", "none")
  <2>1. /\ "refused" \in Labels \ {"send"} /\ "none" \in Reasons
        /\ "refused" \notin AtStep /\ "refused" # "idle" /\ "apply" \in AtJob
    BY DEF Labels, AtStep, Reasons, AtJob
  <2>2. Moved(p, "refused") /\ loc'[p].job = loc[p].job
    BY <1>1, <1>4, <2>1, LeaveMoves
  <2> QED BY <1>1, <1>2, <2>1, <2>2, OnStep
<1> QED BY <1>3, <1>4 DEF ApplyRefused

LEMMA BlockRefusedStep ==
  ASSUME IInv, NEW p \in Proc, BlockRefused(p)
  PROVE  IInv'
<1> DEFINE j == loc[p].job
<1>1. Data /\ Control /\ j \in JobId /\ Exists(j)
  BY Known DEF BlockRefused, AtJob
<1>2. /\ jobs' \in [JobId -> Job \cup {NoRow}]
      /\ \A k \in JobId : Exists(k) => Exists(k)'
  <2>1. "blocked" \in JobStates /\ "binding" \in Codes
    BY DEF JobStates, Codes
  <2>2. jobs' = jobs \/ jobs' = [jobs EXCEPT ![j].state = "blocked",
                                             ![j].failure = "binding"]
    BY DEF BlockRefused
  <2> HIDE DEF j
  <2> QED BY <1>1, <2>1, <2>2, JobRows DEF Data, Exists
<1>3. Data' /\ Grown /\ UNCHANGED sent
  BY <1>1, <1>2 DEF BlockRefused, Data, Grown, Exists, amberVars, magentoVars,
       historyVars, lockVars
<1>4. \E label \in Neutral : Moved(p, label)
  <2>1. Throw(p, "other") \/ Return(p, "blocked", "binding")
    BY DEF BlockRefused
  <2>2. "other" \in Codes BY DEF Codes
  <2> QED BY <1>1, <2>1, <2>2, ThrowMoves, ReturnMoves
<1> QED BY <1>3, <1>4, NeutralStep

LEMMA ApplyEnterStep ==
  ASSUME IInv, NEW p \in Proc, ApplyEnter(p)
  PROVE  IInv'
<1> DEFINE j    == loc[p].job
           code == EntryCode(p)
<1>1. /\ Data /\ Control /\ loc[p] \in Local /\ pc[p] = "apply"
      /\ pc[p] \in AtJob /\ jobs[j] \in Job
  BY Known DEF ApplyEnter, AtJob
<1>2. Data' /\ Grown /\ UNCHANGED sent
  <2>1. spent' = spent
    BY <1>1 DEF ApplyEnter, Data
  <2>2. spent \in [Kinds -> Nat] BY <1>1 DEF Data
  <2> QED BY <1>1, <2>1, <2>2, DataSame DEF ApplyEnter
<1>3. CASE code = "none" /\ jobs[j].state # "succeeded"
  <2> DEFINE label == IF jobs[j].amber = product THEN "begin" ELSE "fail"
             r == [loc[p] EXCEPT !.snap = product,
                                 !.binding = jobs[j].binding,
                                 !.code = "amber"]
  <2>1. Goto(p, label) /\ loc' = [loc EXCEPT ![p] = r]
    BY <1>3 DEF ApplyEnter
  <2>2. label \in Labels \ {"send"} /\ label \notin AtStep
    BY DEF Labels, AtStep
  <2>3. r \in Local /\ r.active = loc[p].active /\ r.job = loc[p].job
    <3>1. jobs[j].binding \in Nat /\ product \in Product /\ "amber" \in Codes
      BY <1>1 DEF Job, Data, Codes
    <3> DEFINE b == jobs[j].binding
    <3> HIDE DEF b
    <3>2. b \in Nat BY <3>1 DEF b
    <3>3. r = [loc[p] EXCEPT !.snap = product, !.binding = b, !.code = "amber"]
      BY DEF b
    <3> HIDE DEF r
    <3> QED BY <1>1, <3>1, <3>2, <3>3 DEF Local
  <2> HIDE DEF label, r
  <2>4. Moved(p, label) /\ loc'[p] = r
    BY <1>1, <2>1, <2>2, <2>3, UpdateMoves
  <2> QED BY <1>1, <1>2, <2>2, <2>3, <2>4, OnStep
<1>4. CASE ~(code = "none" /\ jobs[j].state # "succeeded")
  <2>1. Return(p, "succeeded", "none") \/ Throw(p, code)
    BY <1>4 DEF ApplyEnter
  <2>2. code \in Codes
    BY CheckCodes
  <2> QED BY <1>1, <1>2, <2>1, <2>2, ThrowMoves, ReturnMoves, NeutralStep
<1> QED BY <1>3, <1>4

LEMMA BeginStep ==
  ASSUME IInv, NEW p \in Proc, Begin(p)
  PROVE  IInv'
<1> DEFINE j       == loc[p].job
           refusal == IF p \in Operators THEN Revalidate(p) ELSE "none"
           recheck == IF p \in Workers THEN AssertSnapshot(p) ELSE "none"
<1>1. /\ Data /\ Control /\ loc[p] \in Local /\ pc[p] \in AtJob
      /\ j \in JobId /\ Exists(j) /\ jobs[j] \in Job
  BY Known DEF Begin, AtJob
<1>2. /\ jobs' \in [JobId -> Job \cup {NoRow}]
      /\ \A k \in JobId : Exists(k) => Exists(k)'
  <2>1. "running" \in JobStates /\ "none" \in Codes
    BY DEF JobStates, Codes
  <2>2. jobs' = jobs \/ jobs' = [jobs EXCEPT ![j].state = "running",
                                             ![j].failure = "none"]
    BY DEF Begin
  <2> HIDE DEF j
  <2> QED BY <1>1, <2>1, <2>2, JobRows DEF Data, Exists
<1>3. Data' /\ Grown /\ UNCHANGED sent
  BY <1>1, <1>2 DEF Begin, Data, Grown, Exists, amberVars, magentoVars,
       historyVars, lockVars
<1>4. refusal \in Codes /\ recheck \in Codes
  BY CheckCodes DEF Codes
<1>5. \/ \E code \in Codes : Fail(p, code)
      \/ Goto(p, "step") /\ loc' = [loc EXCEPT ![p].todo = jobs[j].ops]
  <2>1. "other" \in Codes /\ "remote" \in Codes BY DEF Codes
  <2> HIDE DEF refusal, recheck
  <2>2. \/ Fail(p, refusal) \/ Fail(p, "other") \/ Fail(p, recheck) \/ Fail(p, "remote")
        \/ Goto(p, "step") /\ loc' = [loc EXCEPT ![p].todo = jobs[j].ops]
    BY DEF Begin, refusal, recheck
  <2> QED BY <1>4, <2>1, <2>2
<1>6. CASE \E code \in Codes : Fail(p, code)
  <2>1. "fail" \in Labels \ {"send"} /\ "fail" \notin AtStep
    BY DEF Labels, AtStep
  <2>2. Moved(p, "fail") /\ loc'[p].job = loc[p].job
    BY <1>1, <1>6, FailMoves
  <2> QED BY <1>1, <1>3, <2>1, <2>2, OnStep
<1>7. CASE Goto(p, "step") /\ loc' = [loc EXCEPT ![p].todo = jobs[j].ops]
  <2> DEFINE b == jobs[j].ops
             r == [loc[p] EXCEPT !.todo = b]
  <2>1. b \in SUBSET Fields
    BY <1>1 DEF Job
  <2>2. loc' = [loc EXCEPT ![p] = r]
    BY <1>7
  <2> HIDE DEF b
  <2>3. r \in Local /\ r.active = loc[p].active /\ r.job = loc[p].job
    BY <1>1, <2>1 DEF Local
  <2>4. "step" \in Labels \ {"send"} /\ "step" \notin AtStep
    BY DEF Labels, AtStep
  <2>5. Moved(p, "step") /\ loc'[p] = r
    BY <1>1, <1>7, <2>2, <2>3, <2>4, UpdateMoves
  <2> QED BY <1>1, <1>3, <2>3, <2>4, <2>5, OnStep
<1> QED BY <1>5, <1>6, <1>7

\* The two common outcomes of an action of applyJob.
LEMMA FailStep ==
  ASSUME IInv, NEW p \in Proc, pc[p] \in AtJob, NEW code \in Codes,
         Fail(p, code), Data', UNCHANGED sent, Grown
  PROVE  IInv'
<1>1. "fail" \in Labels \ {"send"} /\ "fail" \notin AtStep
  BY DEF Labels, AtStep
<1>2. Moved(p, "fail") /\ loc'[p].job = loc[p].job
  BY Known, FailMoves
<1> QED BY <1>1, <1>2, OnStep

LEMMA GotoStep ==
  ASSUME IInv, NEW p \in Proc, pc[p] \in AtJob,
         NEW label \in Labels \ {"send"}, Goto(p, label), UNCHANGED loc,
         label \in AtStep => loc[p].todo # {},
         Data', UNCHANGED sent, Grown
  PROVE  IInv'
<1>1. Moved(p, label) /\ loc'[p] = loc[p]
  BY Known, GotoMoves
<1> QED BY <1>1, OnStep

\* An operation is done.
LEMMA DoneStep ==
  ASSUME IInv, NEW p \in Proc, pc[p] \in AtJob, NEW f, Goto(p, "step"),
         loc' = [loc EXCEPT ![p].todo = @ \ {f}],
         Data', UNCHANGED sent, Grown
  PROVE  IInv'
<1> DEFINE b == loc[p].todo \ {f}
           r == [loc[p] EXCEPT !.todo = b]
<1>1. Control /\ loc[p] \in Local /\ b \in SUBSET Fields
  BY Known
<1>2. loc' = [loc EXCEPT ![p] = r]
  OBVIOUS
<1> HIDE DEF b
<1>3. r \in Local /\ r.active = loc[p].active /\ r.job = loc[p].job
  BY <1>1 DEF Local
<1>4. "step" \in Labels \ {"send"} /\ "step" \notin AtStep
  BY DEF Labels, AtStep
<1>5. Moved(p, "step") /\ loc'[p] = r
  BY <1>1, <1>2, <1>3, <1>4, UpdateMoves
<1> QED BY <1>3, <1>4, <1>5, OnStep

LEMMA NextStepStep ==
  ASSUME IInv, NEW p \in Proc, NextStep(p)
  PROVE  IInv'
<1> DEFINE f == First(loc[p].todo)
<1>1. Data /\ Control /\ pc[p] = "step" /\ pc[p] \in AtJob /\ loc[p].todo # {}
  BY Known DEF NextStep, AtJob
<1>2. Data' /\ Grown /\ UNCHANGED sent
  BY <1>1, DataSame DEF NextStep, Data, lockVars
<1>3. CASE \E code \in {"remote", "unresolved"} : Fail(p, code)
  <2>1. \A code \in {"remote", "unresolved"} : code \in Codes
    BY DEF Codes
  <2> QED BY <1>1, <1>2, <1>3, <2>1, FailStep
<1>4. CASE \E label \in {"mark", "verify"} : Goto(p, label) /\ UNCHANGED loc
  <2>1. \A label \in {"mark", "verify"} : label \in Labels \ {"send"}
    BY DEF Labels
  <2> QED BY <1>1, <1>2, <1>4, <2>1, GotoStep
<1>5. CASE loc' = [loc EXCEPT ![p].todo = @ \ {f}] /\ UNCHANGED pc
  <2>1. Goto(p, "step")
    BY <1>1, <1>5 DEF Goto, Control
  <2> QED BY <1>1, <1>2, <1>5, <2>1, DoneStep
<1> QED BY <1>3, <1>4, <1>5 DEF NextStep

\* The marker of an unmarked step is committed.  The step of every process at
\* "send" was marked before, so it is another one.
LEMMA MarkKeeps ==
  ASSUME IInv, NEW p \in Proc, Mark(p)
  PROVE  IInv'
<1> DEFINE j    == loc[p].job
           f    == First(loc[p].todo)
           code == IF MarkCode(p) # "none" THEN MarkCode(p)
                   ELSE IF StepFree(j, f) THEN "none" ELSE "other"
<1>1. /\ Data /\ Control /\ loc[p] \in Local /\ pc[p] \in AtJob
      /\ j \in JobId /\ Exists(j) /\ loc[p].todo # {}
  BY Known DEF Mark, AtJob, IInv, TodoLeft, AtStep
<1>2. f \in Fields
  BY <1>1, FirstType DEF Local
<1>3. CASE code # "none"
  <2>1. Data' /\ Grown /\ UNCHANGED sent
    BY <1>1, <1>3, DataSame DEF Mark, Data, lockVars, ledgerVars
  <2>2. Fail(p, code) /\ code \in Codes
    BY <1>3, CheckCodes DEF Mark, Codes
  <2> HIDE DEF code
  <2> QED BY <1>1, <2>1, <2>2, FailStep
<1>4. CASE code = "none"
  <2> HIDE DEF f, j
  <2>1. /\ StepFree(j, f)
        /\ steps' = [steps EXCEPT ![j][f] = "dispatched"]
        /\ \/ Goto(p, "send") /\ UNCHANGED <<loc, spent>>
           \/ Spend("fault") /\ Fail(p, "other")
    BY <1>4 DEF Mark, f, j
  <2>2. spent' \in [Kinds -> Nat]
    BY <1>1, <2>1, SpendType DEF Data, Kinds
  <2>3. Data' /\ Grown /\ UNCHANGED sent
    <3>1. steps' \in [JobId -> [Fields -> StepStates]]
      BY <1>1, <1>2, <2>1 DEF Data, StepStates
    <3>2. \A k \in JobId, g \in Fields : steps[k][g] # "none" => steps'[k][g] # "none"
      BY <1>1, <1>2, <2>1 DEF Data
    <3> QED BY <1>1, <2>2, <3>1, <3>2
         DEF Mark, Data, Grown, Exists, amberVars, magentoVars, historyVars,
              lockVars
  <2>4. CASE Fail(p, "other")
    <3>1. "other" \in Codes BY DEF Codes
    <3> QED BY <1>1, <2>3, <2>4, <3>1, FailStep
  <2>5. CASE Goto(p, "send") /\ UNCHANGED loc
    <3>1. "send" \in Labels BY DEF Labels
    <3>2. Moved(p, "send")
      BY <1>1, <2>5, <3>1, GotoMoves
    <3>3. Typed'
      BY <2>3, <3>2 DEF Moved, Typed, Data, Control
    <3>4. JobsExist'
      <4>1. \A q \in Proc : pc'[q] \in AtJob => pc[q] \in AtJob
        BY <1>1, <3>2 DEF Moved
      <4>2. \A q \in Proc : /\ loc[q].job \in JobId \cup {NoJob}
                            /\ loc[q].active \in JobId \cup {NoJob}
        BY Known
      <4>3. request' = request /\ jobs' = jobs /\ wire' = wire
        BY DEF Mark, magentoVars
      <4> QED BY <2>5, <4>1, <4>2, <4>3 DEF IInv, JobsExist, Exists
    <3>5. TodoLeft'
      BY <1>1, <2>5, <3>2 DEF IInv, TodoLeft, Moved
    <3>6. AtMostOnce' /\ UnmarkedUnsent'
      BY <2>3 DEF IInv, Once, AtMostOnce, UnmarkedUnsent, Grown
    <3>7. steps[j][f] = "none" /\ steps'[j][f] # "none" /\ sent[j][f] = 0
      BY <1>1, <1>2, <2>1 DEF StepFree, Data, IInv, Once, UnmarkedUnsent
    <3>8. \A q \in Proc \ {p} : pc'[q] = "send" => pc[q] = "send"
      BY <3>2 DEF Moved
    <3>9. \A q \in Proc \ {p} : pc[q] = "send" =>
            /\ loc[q].job \in JobId /\ First(loc[q].todo) \in Fields
            /\ steps[loc[q].job][First(loc[q].todo)] # "none"
            /\ sent[loc[q].job][First(loc[q].todo)] = 0
            /\ Target(q) # <<j, f>>
      <4> SUFFICES ASSUME NEW q \in Proc \ {p}, pc[q] = "send"
                   PROVE  /\ loc[q].job \in JobId /\ First(loc[q].todo) \in Fields
                          /\ steps[loc[q].job][First(loc[q].todo)] # "none"
                          /\ sent[loc[q].job][First(loc[q].todo)] = 0
                          /\ Target(q) # <<j, f>>
        OBVIOUS
      <4>1. loc[q].job \in JobId
        BY Known DEF AtJob
      <4>2. First(loc[q].todo) \in Fields
        BY Known, FirstType DEF IInv, TodoLeft, AtStep
      <4>3. /\ steps[loc[q].job][First(loc[q].todo)] # "none"
            /\ sent[loc[q].job][First(loc[q].todo)] = 0
        BY DEF IInv, Once, SenderOwns
      <4> QED BY <3>7, <4>1, <4>2, <4>3 DEF Target
    <3>10. SenderOwns'
      <4> SUFFICES ASSUME NEW q \in Proc, pc'[q] = "send"
                   PROVE  /\ steps'[loc[q].job][First(loc[q].todo)] # "none"
                          /\ sent[loc[q].job][First(loc[q].todo)] = 0
        BY <2>3, <2>5 DEF SenderOwns
      <4>1. CASE q = p
        BY <3>7, <4>1 DEF f, j
      <4>2. CASE q # p
        BY <2>3, <3>8, <3>9, <4>2 DEF Grown
      <4> QED BY <4>1, <4>2
    <3>11. SendersDiffer'
      <4>1. Target(p) = <<j, f>> BY DEF Target, f, j
      <4>2. \A q \in Proc : Target(q)' = Target(q)
        BY <2>5 DEF Target
      <4> QED BY <3>8, <3>9, <4>1, <4>2 DEF IInv, Once, SendersDiffer
    <3> QED BY <3>3, <3>4, <3>5, <3>6, <3>10, <3>11 DEF IInv, Once
  <2> QED BY <2>1, <2>4, <2>5
<1> QED BY <1>3, <1>4

\* The mutation leaves: its process owned the step, so nobody else sends it.
LEMMA SendKeeps ==
  ASSUME IInv, NEW p \in Proc, Send(p)
  PROVE  IInv'
<1> DEFINE j == loc[p].job
           f == First(loc[p].todo)
<1>1. /\ Data /\ Control /\ loc[p] \in Local /\ pc[p] = "send"
      /\ j \in JobId /\ Exists(j) /\ loc[p].todo # {}
  BY Known DEF Send, AtJob, IInv, TodoLeft, AtStep
<1>2. f \in Fields
  BY <1>1, FirstType DEF Local
<1>3. steps[j][f] # "none" /\ sent[j][f] = 0
  BY <1>1 DEF IInv, Once, SenderOwns
<1> HIDE DEF j, f
<1>4. /\ wire' = wire \cup {<<j, f>>}
      /\ sent' = [sent EXCEPT ![j][f] = @ + 1]
      /\ Goto(p, "readback") /\ UNCHANGED loc
  BY DEF Send, j, f
<1>5. /\ sent' \in [JobId -> [Fields -> Nat]] /\ sent'[j][f] = 1
      /\ \A k \in JobId, g \in Fields :
           <<k, g>> # <<j, f>> => sent'[k][g] = sent[k][g]
  BY <1>1, <1>2, <1>3, <1>4 DEF Data
<1>6. Moved(p, "readback")
  <2>1. "readback" \in Labels BY DEF Labels
  <2> QED BY <1>1, <1>4, <2>1, GotoMoves
<1>7. Typed'
  BY <1>1, <1>2, <1>4, <1>5, <1>6
     DEF Send, Moved, Typed, Data, Control, amberVars, ledgerVars,
          historyVars, lockVars
<1>8. JobsExist'
  <2>1. \A q \in Proc : pc'[q] \in AtJob => pc[q] \in AtJob
    BY <1>1, <1>6 DEF Moved, AtJob
  <2>2. request' = request /\ jobs' = jobs
    BY DEF Send, ledgerVars
  <2>3. \A k \in JobId, g \in Fields : <<k, g>> \in wire' => Exists(k)'
    BY <1>1, <1>4, <2>2 DEF IInv, JobsExist, Exists
  <2> QED BY <1>4, <2>1, <2>2, <2>3 DEF IInv, JobsExist, Exists
<1>9. TodoLeft'
  BY <1>1, <1>4, <1>6 DEF IInv, TodoLeft, Moved
<1>10. AtMostOnce'
  BY <1>5 DEF IInv, Once, AtMostOnce
<1>11. UnmarkedUnsent'
  <2>1. steps' = steps BY DEF Send, ledgerVars
  <2> QED BY <1>3, <1>5, <2>1 DEF IInv, Once, UnmarkedUnsent
<1>12. \A q \in Proc : pc'[q] = "send" => q # p /\ pc[q] = "send"
  BY <1>6 DEF Moved
<1>13. SenderOwns'
  <2> SUFFICES ASSUME NEW q \in Proc, pc'[q] = "send"
               PROVE  /\ steps[loc[q].job][First(loc[q].todo)] # "none"
                      /\ sent'[loc[q].job][First(loc[q].todo)] = 0
    BY <1>4 DEF SenderOwns, Send, ledgerVars
  <2>1. q # p /\ pc[q] = "send" BY <1>12
  <2>2. loc[q].job \in JobId
    BY <2>1, Known DEF AtJob
  <2>3. First(loc[q].todo) \in Fields
    BY <2>1, Known, FirstType DEF IInv, TodoLeft, AtStep
  <2>4. <<loc[q].job, First(loc[q].todo)>> # <<j, f>>
    BY <1>1, <2>1 DEF IInv, Once, SendersDiffer, Target, j, f
  <2> QED BY <1>5, <2>1, <2>2, <2>3, <2>4 DEF IInv, Once, SenderOwns
<1>14. SendersDiffer'
  <2>1. \A q \in Proc : Target(q)' = Target(q)
    BY <1>4 DEF Target
  <2> QED BY <1>12, <2>1 DEF IInv, Once, SendersDiffer
<1> QED BY <1>7, <1>8, <1>9, <1>10, <1>11, <1>13, <1>14 DEF IInv, Once

LEMMA ReadbackStep ==
  ASSUME IInv, NEW p \in Proc, Readback(p)
  PROVE  IInv'
<1>1. Data /\ Control /\ pc[p] \in AtJob /\ loc[p].todo # {}
  BY Known DEF Readback, AtJob, IInv, TodoLeft, AtStep
<1>2. Data' /\ Grown /\ UNCHANGED sent
  BY <1>1, DataSame DEF Readback, Data, lockVars
<1>3. CASE Goto(p, "verify") /\ UNCHANGED loc
  <2>1. "verify" \in Labels \ {"send"} BY DEF Labels
  <2> QED BY <1>1, <1>2, <1>3, <2>1, GotoStep
<1>4. CASE Fail(p, "remote")
  <2>1. "remote" \in Codes BY DEF Codes
  <2> QED BY <1>1, <1>2, <1>4, <2>1, FailStep
<1> QED BY <1>3, <1>4 DEF Readback

LEMMA VerifyStep ==
  ASSUME IInv, NEW p \in Proc, Verify(p)
  PROVE  IInv'
<1> DEFINE j == loc[p].job
           f == First(loc[p].todo)
<1>1. /\ Data /\ Control /\ pc[p] \in AtJob
      /\ j \in JobId /\ loc[p].todo # {} /\ loc[p].todo \subseteq Fields
  BY Known DEF Verify, AtJob, IInv, TodoLeft, AtStep
<1>2. f \in Fields
  BY <1>1, FirstType
<1>3. Data' /\ Grown /\ UNCHANGED sent
  <2> HIDE DEF j, f
  <2>1. steps' = steps \/ steps' = [steps EXCEPT ![j][f] = "verified"]
    BY DEF Verify, j, f
  <2>2. steps' \in [JobId -> [Fields -> StepStates]]
    <3>1. CASE steps' = steps
      BY <1>1, <3>1 DEF Data
    <3>2. CASE steps' = [steps EXCEPT ![j][f] = "verified"]
      BY <1>1, <1>2, <3>2 DEF Data, StepStates
    <3> QED BY <2>1, <3>1, <3>2
  <2>3. \A k \in JobId, g \in Fields : steps[k][g] # "none" => steps'[k][g] # "none"
    BY <1>1, <1>2, <2>1 DEF Data
  <2> QED BY <1>1, <2>2, <2>3
       DEF Verify, Data, Grown, Exists, amberVars, magentoVars, historyVars,
            lockVars
<1>4. CASE Fail(p, "other")
  <2>1. "other" \in Codes BY DEF Codes
  <2> QED BY <1>1, <1>3, <1>4, <2>1, FailStep
<1>5. CASE Goto(p, "step") /\ loc' = [loc EXCEPT ![p].todo = @ \ {f}]
  BY <1>1, <1>3, <1>5, DoneStep
<1> QED BY <1>4, <1>5 DEF Verify

LEMMA FinalReadbackStep ==
  ASSUME IInv, NEW p \in Proc, FinalReadback(p)
  PROVE  IInv'
<1>1. Data /\ Control /\ pc[p] \in AtJob
  BY Known DEF FinalReadback, AtJob
<1>2. Data' /\ Grown /\ UNCHANGED sent
  BY <1>1, DataSame DEF FinalReadback, Data, lockVars
<1>3. CASE Goto(p, "succeed") /\ UNCHANGED loc
  <2>1. "succeed" \in Labels \ {"send"} /\ "succeed" \notin AtStep
    BY DEF Labels, AtStep
  <2> QED BY <1>1, <1>2, <1>3, <2>1, GotoStep
<1>4. CASE Fail(p, "remote")
  <2>1. "remote" \in Codes BY DEF Codes
  <2> QED BY <1>1, <1>2, <1>4, <2>1, FailStep
<1> QED BY <1>3, <1>4 DEF FinalReadback

LEMMA SucceedStep ==
  ASSUME IInv, NEW p \in Proc, Succeed(p)
  PROVE  IInv'
<1> DEFINE j == loc[p].job
           refusal == IF p \in Operators THEN Revalidate(p) ELSE "none"
<1>1. /\ Data /\ Control /\ pc[p] \in AtJob
      /\ j \in JobId /\ Exists(j) /\ jobs[j] \in Job
  BY Known DEF Succeed, AtJob
<1>2. /\ jobs' \in [JobId -> Job \cup {NoRow}]
      /\ \A k \in JobId : Exists(k) => Exists(k)'
  <2>1. "succeeded" \in JobStates /\ "none" \in Codes
    BY DEF JobStates, Codes
  <2>2. jobs' = jobs \/ jobs' = [jobs EXCEPT ![j].state = "succeeded",
                                             ![j].failure = "none"]
    BY DEF Succeed
  <2> HIDE DEF j
  <2> QED BY <1>1, <2>1, <2>2, JobRows DEF Data, Exists
<1>3. acked' \in Held
  <2>1. jobs[j].amber.input \in Inputs
    BY <1>1 DEF Job, Product
  <2> QED BY <1>1, <2>1 DEF Succeed, Data, Held
<1>5. spent' \in [Kinds -> Nat]
  BY <1>1, SpendType DEF Succeed, Data, Kinds
<1>6. Data' /\ Grown /\ UNCHANGED sent
  BY <1>1, <1>2, <1>3, <1>5
     DEF Succeed, Data, Grown, Exists, amberVars, magentoVars
<1>7. CASE \E code \in Codes : Fail(p, code)
  BY <1>1, <1>6, <1>7, FailStep
<1>8. CASE Return(p, "succeeded", "none")
  BY <1>1, <1>6, <1>8, ReturnMoves, NeutralStep
<1>9. refusal \in Codes /\ "other" \in Codes
  BY CheckCodes DEF Codes
<1> QED BY <1>7, <1>8, <1>9 DEF Succeed

LEMMA ReadFaultStep ==
  ASSUME IInv, NEW p \in Proc, ReadFault(p)
  PROVE  IInv'
<1>1. Data /\ Control /\ pc[p] \in AtJob
  BY Known DEF ReadFault, AtJob
<1>2. Data' /\ Grown /\ UNCHANGED sent
  <2>1. spent' \in [Kinds -> Nat]
    BY <1>1, SpendType DEF ReadFault, Kinds
  <2> QED BY <1>1, <2>1, DataSame DEF ReadFault, Data, lockVars
<1>3. PICK code \in {"read", "data"} : Fail(p, code)
  BY DEF ReadFault
<1>4. code \in Codes
  BY DEF Codes
<1> QED BY <1>1, <1>2, <1>3, <1>4, FailStep

LEMMA SaveFailureStep ==
  ASSUME IInv, NEW p \in Proc, SaveFailure(p)
  PROVE  IInv'
<1> DEFINE j     == loc[p].job
           state == FailedState(j, loc[p].code)
<1>1. /\ Data /\ Control /\ j \in JobId /\ Exists(j) /\ loc[p].code \in Codes
  BY Known DEF SaveFailure, AtJob
<1>2. /\ jobs' \in [JobId -> Job \cup {NoRow}]
      /\ \A k \in JobId : Exists(k) => Exists(k)'
  <2>1. state \in JobStates
    BY DEF FailedState, JobStates
  <2>2. jobs' = jobs \/ jobs' = [jobs EXCEPT ![j].state = state,
                                             ![j].failure = loc[p].code]
    BY DEF SaveFailure
  <2> HIDE DEF j, state
  <2> QED BY <1>1, <2>1, <2>2, JobRows DEF Data, Exists
<1>4. Data' /\ Grown /\ UNCHANGED sent
  BY <1>1, <1>2
     DEF SaveFailure, Data, Grown, Exists, amberVars, magentoVars, historyVars
<1>5. \E label \in Neutral : Moved(p, label)
  <2>1. Throw(p, "other") \/ Return(p, state, loc[p].code)
    BY DEF SaveFailure
  <2>2. "other" \in Codes BY DEF Codes
  <2> QED BY <1>1, <2>1, <2>2, ThrowMoves, ReturnMoves
<1> QED BY <1>4, <1>5, NeutralStep

-----------------------------------------------------------------------------
\* supersedeUndispatched and runProduct

LEMMA SupersedeUndispatchedStep ==
  ASSUME IInv, NEW p \in Proc, SupersedeUndispatched(p)
  PROVE  IInv'
<1> DEFINE j == loc[p].job
<1>1. /\ Data /\ Control /\ pc[p] \in AtJob /\ j \in JobId /\ Exists(j)
  BY Known DEF SupersedeUndispatched, AtJob
<1>2. /\ jobs' \in [JobId -> Job \cup {NoRow}]
      /\ \A k \in JobId : Exists(k) => Exists(k)'
  <2>1. "superseded" \in JobStates /\ "none" \in Codes
    BY DEF JobStates, Codes
  <2>2. jobs' = jobs \/ jobs' = [jobs EXCEPT ![j].state = "superseded"]
    BY DEF SupersedeUndispatched
  <2> HIDE DEF j
  <2> QED BY <1>1, <2>1, <2>2, JobRows DEF Data, Exists
<1>3. Data' /\ Grown /\ UNCHANGED sent
  BY <1>1, <1>2 DEF SupersedeUndispatched, Data, Grown, Exists, amberVars,
                    magentoVars, historyVars, lockVars
<1>4. CASE Goto(p, "clear") /\ UNCHANGED loc
  <2>1. "clear" \in Labels \ {"send"} /\ "clear" \notin AtStep
    BY DEF Labels, AtStep
  <2> QED BY <1>1, <1>3, <1>4, <2>1, GotoStep
<1>5. CASE \E code \in {"busy", "disabled", "unresolved"} : Throw(p, code)
  <2>1. \A code \in {"busy", "disabled", "unresolved"} : code \in Codes
    BY DEF Codes
  <2> QED BY <1>1, <1>3, <1>5, <2>1, ThrowMoves, NeutralStep
<1> QED BY <1>4, <1>5 DEF SupersedeUndispatched

LEMMA PollStep ==
  ASSUME IInv, NEW p \in Proc, Poll(p)
  PROVE  IInv'
<1>1. Data /\ Control
  BY Known
<1>2. Data' /\ Grown /\ UNCHANGED sent
  BY <1>1, DataSame DEF Poll, Data, lockVars
<1>3. "selected" \in Labels \ {"send"} /\ "selected" \notin AtJob
      /\ "selected" \notin AtStep
  BY DEF Labels, AtJob, AtStep
<1>4. Moved(p, "selected")
  BY <1>1, <1>3, GotoMoves DEF Poll
<1> QED BY <1>2, <1>3, <1>4, QuietStep

LEMMA ClaimStep ==
  ASSUME IInv, NEW p \in Proc, Claim(p)
  PROVE  IInv'
<1>1. Data /\ Control /\ loc[p] \in Local
  BY Known
<1>2. Data' /\ Grown /\ UNCHANGED sent
  BY <1>1 DEF Claim, Data, Grown, Exists, amberVars, ledgerVars, magentoVars,
       historyVars
<1>3. CASE Goto(p, "idle") /\ UNCHANGED loc
  <2>1. "idle" \in Labels /\ "idle" \in Neutral
    BY DEF Labels, Neutral
  <2> QED BY <1>1, <1>2, <1>3, <2>1, GotoMoves, NeutralStep
<1>4. CASE ~(Goto(p, "idle") /\ UNCHANGED loc)
  <2> DEFINE gen == request.desired
             act == request.active
             actGen == request.activeGen
             r == [loc[p] EXCEPT !.gen = gen, !.active = act,
                                 !.activeGen = actGen]
  <2>1. gen \in Nat /\ act \in JobId \cup {NoJob} /\ actGen \in Nat
    BY <1>1 DEF Data, Request
  <2>2. Goto(p, "claimed") /\ loc' = [loc EXCEPT ![p] = r]
    BY <1>4 DEF Claim
  <2>3. "claimed" \in Labels \ {"send"} /\ "claimed" \notin AtJob
        /\ "claimed" \notin AtStep
    BY DEF Labels, AtJob, AtStep
  <2>4. r \in Local /\ r.active = request.active
    <3>1. request.active = act OBVIOUS
    <3> HIDE DEF gen, act, actGen
    <3> QED BY <1>1, <2>1, <3>1 DEF Local
  <2> HIDE DEF r
  <2>5. Moved(p, "claimed")
    BY <1>1, <2>2, <2>3, <2>4, UpdateMoves
  <2> QED BY <1>2, <2>3, <2>5, QuietStep
<1> QED BY <1>3, <1>4

LEMMA LeaveIdle ==
  ASSUME IInv, NEW p \in Proc, Leave(p, "idle", "none"),
         Data', UNCHANGED sent, Grown
  PROVE  IInv'
<1>1. "idle" \in Labels /\ "idle" \in Neutral /\ "none" \in Reasons
  BY DEF Labels, Neutral, Reasons
<1> QED BY <1>1, Known, LeaveMoves, NeutralStep

\* A statement on the request row that keeps or drops the active job.
LEMMA RequestData ==
  ASSUME Data, request' \in Request, request'.active \in {request.active, NoJob},
         UNCHANGED <<amberVars, ledgerVars, magentoVars, historyVars, spent>>
  PROVE  Data' /\ Grown /\ UNCHANGED sent
BY DEF Data, Grown, Exists, amberVars, ledgerVars, magentoVars, historyVars

LEMMA ConsumeReceiptStep ==
  ASSUME IInv, NEW p \in Proc, ConsumeReceipt(p)
  PROVE  IInv'
<1>1. /\ Data /\ loc[p].activeGen \in Nat /\ request \in Request
      /\ loc[p].active \in JobId
  BY Known DEF Data, ConsumeReceipt
<1>2. request' \in Request /\ request'.active = NoJob
  <2>1. "none" \in Reasons BY DEF Reasons
  <2> QED BY <1>1, <2>1, RequestRows DEF ConsumeReceipt
<1>3. Data' /\ Grown /\ UNCHANGED sent
  BY <1>1, <1>2, RequestData DEF ConsumeReceipt, UnlockId, Unlocked
<1> QED BY <1>3, LeaveIdle DEF ConsumeReceipt

LEMMA FoundType ==
  ASSUME IInv, NEW p \in Proc, Found(p) # NoJob
  PROVE  Found(p) \in JobId /\ Exists(Found(p))
<1>1. CASE loc[p].active # NoJob
  BY <1>1, Known DEF Found, IInv, JobsExist
<1>2. CASE loc[p].active = NoJob
  <2>1. Unfinished # {} /\ Found(p) = Newest(Unfinished)
    BY <1>2 DEF Found
  <2>2. Unfinished \subseteq Created /\ Created \subseteq JobId
    BY DEF Unfinished, Created
  <2>3. Newest(Unfinished) \in Unfinished
    BY <2>1, <2>2, NewestType
  <2> QED BY <2>1, <2>2, <2>3 DEF Created
<1> QED BY <1>1, <1>2

\* Decide stores what it found and goes on at label.
DecidesTo(p, label, reason) ==
  /\ Goto(p, label)
  /\ loc' = [loc EXCEPT ![p].job = Found(p), ![p].reason = reason,
                        ![p].binding = published, ![p].live = product.active]

LEMMA DecidesToStep ==
  ASSUME IInv, NEW p \in Proc, NEW label \in Labels \ {"send"},
         NEW reason \in Reasons, DecidesTo(p, label, reason),
         label \in AtJob => Found(p) # NoJob, label \notin AtStep,
         Data', UNCHANGED sent, Grown
  PROVE  IInv'
<1> DEFINE j   == Found(p)
           pub == published
           act == product.active
           r   == [loc[p] EXCEPT !.job = j, !.reason = reason,
                                 !.binding = pub, !.live = act]
<1>1. Data /\ Control /\ loc[p] \in Local
  BY Known
<1>2. j \in JobId \cup {NoJob} /\ (j # NoJob => Exists(j))
  BY FoundType
<1>3. pub \in Nat /\ act \in BOOLEAN
  BY <1>1 DEF Data, Product
<1>4. Goto(p, label) /\ loc' = [loc EXCEPT ![p] = r]
  BY DEF DecidesTo
<1>5. label \in AtJob => j # NoJob
  OBVIOUS
<1> HIDE DEF j, pub, act
<1>6. r \in Local /\ r.active = loc[p].active /\ r.job = j
  BY <1>1, <1>2, <1>3 DEF Local
<1> HIDE DEF r
<1>7. Moved(p, label) /\ loc'[p].job = j
  BY <1>1, <1>4, <1>6, UpdateMoves
<1>8. label \in AtJob => loc'[p].job # NoJob /\ Exists(loc[p].job)'
  BY <1>2, <1>5, <1>7 DEF Grown, Exists
<1> QED BY <1>7, <1>8, QuietStep

LEMMA DecideKeeps ==
  ASSUME IInv, NEW p \in Proc, Decide(p)
  PROVE  IInv'
<1>1. Data' /\ Grown /\ UNCHANGED sent
  BY Known, DataSame DEF Decide, Data, lockVars
<1>2. \/ DecidesTo(p, "enqueue", "none")
      \/ DecidesTo(p, "attend", "product_retired")
      \/ DecidesTo(p, "attend", "reconciliation_required")
      \/ DecidesTo(p, "attend", "data_or_binding")
      \/ DecidesTo(p, "clear", "none")
      \/ Found(p) # NoJob /\ DecidesTo(p, "supersede", "none")
      \/ Found(p) # NoJob /\ DecidesTo(p, "syncing", "none")
  BY DEF Decide, DecidesTo
<1>3. {"none", "product_retired", "reconciliation_required",
       "data_or_binding"} \subseteq Reasons
  BY DEF Reasons
<1>4. {"enqueue", "attend", "clear", "supersede", "syncing"}
        \subseteq Labels \ {"send"}
  BY DEF Labels
<1>5. {"enqueue", "attend", "clear"} \cap AtJob = {}
  BY DEF AtJob
<1>6. {"enqueue", "attend", "clear", "supersede", "syncing"} \cap AtStep = {}
  BY DEF AtStep
<1>7. CASE DecidesTo(p, "enqueue", "none")
  BY <1>1, <1>3, <1>4, <1>5, <1>6, <1>7, DecidesToStep
<1>8. CASE \E reason \in {"product_retired", "reconciliation_required",
                          "data_or_binding"} : DecidesTo(p, "attend", reason)
  BY <1>1, <1>3, <1>4, <1>5, <1>6, <1>8, DecidesToStep
<1>9. CASE DecidesTo(p, "clear", "none")
  BY <1>1, <1>3, <1>4, <1>5, <1>6, <1>9, DecidesToStep
<1>10. CASE Found(p) # NoJob /\ DecidesTo(p, "supersede", "none")
  BY <1>1, <1>3, <1>4, <1>6, <1>10, DecidesToStep
<1>11. CASE Found(p) # NoJob /\ DecidesTo(p, "syncing", "none")
  BY <1>1, <1>3, <1>4, <1>6, <1>11, DecidesToStep
<1> QED BY <1>2, <1>7, <1>8, <1>9, <1>10, <1>11

LEMMA ClearActiveStep ==
  ASSUME IInv, NEW p \in Proc, ClearActive(p)
  PROVE  IInv'
<1>1. Data /\ Control /\ request \in Request /\ loc[p].gen \in Nat
  BY Known DEF Data
<1>2. request' \in Request /\ request'.active = NoJob
  <2>1. request' = Clear(request) BY DEF ClearActive
  <2> QED BY <1>1, <2>1 DEF Clear, Request, Reasons
<1>3. Data' /\ Grown /\ UNCHANGED sent
  BY <1>1, <1>2, RequestData DEF ClearActive, lockVars
<1>4. CASE Leave(p, "enqueue", "none")
  <2>1. "enqueue" \in Labels \ {"send"} /\ "enqueue" \notin AtJob
        /\ "enqueue" \notin AtStep /\ "none" \in Reasons
    BY DEF Labels, AtJob, AtStep, Reasons
  <2> QED BY <1>1, <1>3, <1>4, <2>1, LeaveMoves, QuietStep
<1>5. CASE Leave(p, "attend", "product_retired")
  <2>1. "attend" \in Labels /\ "attend" \in Neutral /\ "product_retired" \in Reasons
    BY DEF Labels, Neutral, Reasons
  <2> QED BY <1>1, <1>3, <1>5, <2>1, LeaveMoves, NeutralStep
<1> QED BY <1>4, <1>5 DEF ClearActive

LEMMA SyncingStep ==
  ASSUME IInv, NEW p \in Proc, Syncing(p)
  PROVE  IInv'
<1>1. Data /\ Control /\ request \in Request /\ pc[p] \in AtJob
  BY Known DEF Data, Syncing, AtJob
<1>2. request' \in Request /\ request'.active = request.active
  BY <1>1 DEF Syncing, Request, Reasons
<1>3. Data' /\ Grown /\ UNCHANGED sent
  BY <1>1, <1>2, RequestData DEF Syncing, lockVars
<1>4. "apply" \in Labels \ {"send"} /\ "apply" \notin AtStep
  BY DEF Labels, AtStep
<1> QED BY <1>1, <1>3, <1>4, GotoStep DEF Syncing

\* attend, retry and acknowledge.
LEMMA EndPassStep ==
  ASSUME IInv, NEW p \in Proc, NEW label, NEW row \in Request,
         row.active \in {request.active, NoJob}, EndPass(p, label, row)
  PROVE  IInv'
<1>1. Data
  BY Known
<1>2. Data' /\ Grown /\ UNCHANGED sent
  BY <1>1, RequestData DEF EndPass, UnlockId, Unlocked
<1> QED BY <1>2, LeaveIdle DEF EndPass

LEMMA PassEndsStep ==
  ASSUME IInv, NEW p \in Proc,
         Attend(p) \/ RetryLater(p) \/ AcknowledgeApplied(p)
  PROVE  IInv'
<1>1. /\ request \in Request /\ loc[p].gen \in Nat /\ loc[p].activeGen \in Nat
      /\ loc[p].reason \in Reasons
  BY Known DEF Data
<1>2. AckGeneration(p) \in Nat
  BY <1>1 DEF AckGeneration
<1>3. /\ Attention(request, loc[p].gen, loc[p].reason) \in Request
      /\ Attention(request, loc[p].gen, loc[p].reason).active = request.active
  BY <1>1 DEF Attention, Request, Reasons
<1>4. Retry(request) \in Request /\ Retry(request).active = request.active
  BY <1>1 DEF Retry, Request, Reasons
<1>5. /\ Acknowledge(request, AckGeneration(p)) \in Request
      /\ Acknowledge(request, AckGeneration(p)).active = NoJob
  BY <1>1, <1>2 DEF Acknowledge, Request, Reasons
<1> QED BY <1>3, <1>4, <1>5, EndPassStep DEF Attend, RetryLater,
     AcknowledgeApplied

-----------------------------------------------------------------------------
\* Recovery

LEMMA ManualEnqueueStep ==
  ASSUME IInv, NEW p \in Proc, ManualEnqueue(p)
  PROVE  IInv'
<1>1. Data /\ Control /\ loc[p] \in Local
  BY Known
<1>2. Data' /\ Grown /\ UNCHANGED sent
  <2>1. spent' \in [Kinds -> Nat]
    BY <1>1, SpendType DEF ManualEnqueue, Command, Kinds
  <2> QED BY <1>1, <2>1, DataSame DEF ManualEnqueue, Data, lockVars
<1> DEFINE b == published
           r == [loc[p] EXCEPT !.binding = b]
<1>3. b \in Nat
  BY <1>1 DEF Data
<1>4. Goto(p, "enqueue") /\ loc' = [loc EXCEPT ![p] = r]
  BY DEF ManualEnqueue
<1> HIDE DEF b
<1>5. r \in Local /\ r.active = loc[p].active
  BY <1>1, <1>3 DEF Local
<1>6. "enqueue" \in Labels \ {"send"} /\ "enqueue" \notin AtJob
      /\ "enqueue" \notin AtStep
  BY DEF Labels, AtJob, AtStep
<1>7. Moved(p, "enqueue")
  BY <1>1, <1>4, <1>5, <1>6, UpdateMoves
<1> QED BY <1>2, <1>6, <1>7, QuietStep

\* A command takes up an existing job.
LEMMA TakeUpStep ==
  ASSUME IInv, NEW p \in Proc, NEW j \in JobId, Exists(j),
         NEW label \in Labels \ {"send"}, label \notin AtStep,
         NEW r \in Local, r.active = loc[p].active, r.job = j,
         Goto(p, label), loc' = [loc EXCEPT ![p] = r],
         Data', UNCHANGED sent, Grown
  PROVE  IInv'
<1>1. Moved(p, label) /\ loc'[p] = r
  BY Known, UpdateMoves
<1>2. loc'[p].job # NoJob /\ Exists(loc[p].job)'
  BY <1>1 DEF Grown, Exists, JobId, NoJob
<1> QED BY <1>1, <1>2, QuietStep

LEMMA CommandData ==
  ASSUME Data, NEW p \in Proc, Command(p),
         UNCHANGED <<amberVars, request, ledgerVars, magentoVars, historyVars>>
  PROVE  Data' /\ Grown /\ UNCHANGED sent
<1>1. spent' \in [Kinds -> Nat]
  BY SpendType DEF Command, Kinds
<1> QED BY <1>1, DataSame

LEMMA ManualApplyStep ==
  ASSUME IInv, NEW p \in Proc, ManualApply(p)
  PROVE  IInv'
<1>1. Data /\ loc[p] \in Local
  BY Known
<1>2. Data' /\ Grown /\ UNCHANGED sent
  BY <1>1, CommandData DEF ManualApply, lockVars
<1>3. PICK j \in Created, reviewed \in BOOLEAN :
        loc' = [loc EXCEPT ![p].job = j, ![p].reviewed = reviewed]
  BY DEF ManualApply
<1> DEFINE r == [loc[p] EXCEPT !.job = j, !.reviewed = reviewed]
<1>4. j \in JobId /\ Exists(j)
  BY DEF Created
<1>5. r \in Local /\ r.active = loc[p].active /\ r.job = j
  BY <1>1, <1>4 DEF Local
<1>6. "apply" \in Labels \ {"send"} /\ "apply" \notin AtStep
  BY DEF Labels, AtStep
<1>7. Goto(p, "apply") /\ loc' = [loc EXCEPT ![p] = r]
  BY <1>3 DEF ManualApply
<1> HIDE DEF r
<1> QED BY <1>2, <1>4, <1>5, <1>6, <1>7, TakeUpStep

LEMMA ReconcileObserveStep ==
  ASSUME IInv, NEW p \in Proc, ReconcileObserve(p)
  PROVE  IInv'
<1>1. Data /\ loc[p] \in Local
  BY Known
<1>2. Data' /\ Grown /\ UNCHANGED sent
  BY <1>1, CommandData DEF ReconcileObserve
<1>3. PICK j \in Created :
        loc' = [loc EXCEPT ![p].job = j, ![p].snap = product,
                           ![p].binding = published, ![p].seen = steps[j],
                           ![p].complete = VerifiedAll(j)]
  BY DEF ReconcileObserve
<1>4. j \in JobId /\ Exists(j)
  BY DEF Created
<1> DEFINE s == steps[j]
           c == VerifiedAll(j)
           r == [loc[p] EXCEPT !.job = j, !.snap = product,
                               !.binding = published, !.seen = s,
                               !.complete = c]
<1>5. /\ s \in [Fields -> StepStates] /\ c \in BOOLEAN
      /\ product \in Product /\ published \in Nat
  BY <1>1, <1>4 DEF Data, VerifiedAll
<1>6. Goto(p, "reconcile") /\ loc' = [loc EXCEPT ![p] = r]
  BY <1>3 DEF ReconcileObserve
<1> HIDE DEF s, c
<1>7. r \in Local /\ r.active = loc[p].active /\ r.job = j
  BY <1>1, <1>4, <1>5 DEF Local
<1>8. "reconcile" \in Labels \ {"send"} /\ "reconcile" \notin AtStep
  BY DEF Labels, AtStep
<1> HIDE DEF r
<1> QED BY <1>2, <1>4, <1>6, <1>7, <1>8, TakeUpStep

LEMMA SupersedeObserveStep ==
  ASSUME IInv, NEW p \in Proc, SupersedeObserve(p)
  PROVE  IInv'
<1>1. Data /\ loc[p] \in Local
  BY Known
<1>2. Data' /\ Grown /\ UNCHANGED sent
  BY <1>1, CommandData DEF SupersedeObserve
<1>3. PICK j \in Created :
        loc' = [loc EXCEPT ![p].job = j, ![p].seen = steps[j],
                           ![p].absent = {f \in Dispatched(j) :
                                            NotApplied(j, f)}]
  BY DEF SupersedeObserve
<1>4. j \in JobId /\ Exists(j)
  BY DEF Created
<1> DEFINE s == steps[j]
           a == {f \in Dispatched(j) : NotApplied(j, f)}
           r == [loc[p] EXCEPT !.job = j, !.seen = s, !.absent = a]
<1>5. s \in [Fields -> StepStates] /\ a \in SUBSET Fields
  BY <1>1, <1>4 DEF Data, Dispatched
<1>6. Goto(p, "retire") /\ loc' = [loc EXCEPT ![p] = r]
  BY <1>3 DEF SupersedeObserve
<1> HIDE DEF s, a
<1>7. r \in Local /\ r.active = loc[p].active /\ r.job = j
  BY <1>1, <1>4, <1>5 DEF Local
<1>8. "retire" \in Labels \ {"send"} /\ "retire" \notin AtStep
  BY DEF Labels, AtStep
<1> HIDE DEF r
<1> QED BY <1>2, <1>4, <1>6, <1>7, <1>8, TakeUpStep

\* Resolving steps removes no marker.
LEMMA ResolvedSteps ==
  ASSUME Data, NEW j \in JobId, NEW S,
         steps' \in {steps, [steps EXCEPT ![j] = Resolved(j, S)]}
  PROVE  /\ steps' \in [JobId -> [Fields -> StepStates]]
         /\ \A k \in JobId, f \in Fields :
              steps[k][f] # "none" => steps'[k][f] # "none"
<1>1. Resolved(j, S) \in [Fields -> StepStates]
  BY DEF Resolved, Data, StepStates
<1>2. \A f \in Fields : steps[j][f] # "none" => Resolved(j, S)[f] # "none"
  BY DEF Resolved, Data
<1> DEFINE row == Resolved(j, S)
<1>3. CASE steps' = steps
  BY <1>3 DEF Data
<1>4. CASE steps' = [steps EXCEPT ![j] = row]
  <2> HIDE DEF row
  <2>1. row \in [Fields -> StepStates]
    BY <1>1 DEF row
  <2>2. \A f \in Fields : steps[j][f] # "none" => row[f] # "none"
    BY <1>2 DEF row
  <2> QED BY <1>4, <2>1, <2>2 DEF Data
<1> QED BY <1>3, <1>4

LEMMA ReconcileCommitStep ==
  ASSUME IInv, NEW p \in Proc, ReconcileCommit(p)
  PROVE  IInv'
<1> DEFINE j == loc[p].job
           s == IF loc[p].complete THEN "succeeded" ELSE "uncertain"
           c == IF loc[p].complete THEN "none" ELSE "data"
<1>1. Data /\ j \in JobId /\ Exists(j) /\ jobs[j] \in Job
  BY Known DEF ReconcileCommit, AtJob
<1>2. /\ jobs' \in [JobId -> Job \cup {NoRow}]
      /\ \A k \in JobId : Exists(k) => Exists(k)'
  <2>1. s \in JobStates /\ c \in Codes
    BY DEF JobStates, Codes
  <2>2. jobs' = jobs \/ jobs' = [jobs EXCEPT ![j].state = s, ![j].failure = c]
    BY DEF ReconcileCommit
  <2> HIDE DEF j, s, c
  <2> QED BY <1>1, <2>1, <2>2, JobRows DEF Data, Exists
<1>3. /\ steps' \in [JobId -> [Fields -> StepStates]]
      /\ \A k \in JobId, f \in Fields :
           steps[k][f] # "none" => steps'[k][f] # "none"
  <2>1. steps' \in {steps, [steps EXCEPT ![j] = Resolved(j, Recorded(p))]}
    BY DEF ReconcileCommit
  <2> QED BY <1>1, <2>1, ResolvedSteps
<1>4. acked' \in Held
  <2>1. jobs[j].amber.input \in Inputs
    BY <1>1 DEF Job, Product
  <2> QED BY <1>1, <2>1 DEF ReconcileCommit, Data, Held
<1>6. Data' /\ Grown /\ UNCHANGED sent
  BY <1>1, <1>2, <1>3, <1>4
     DEF ReconcileCommit, Data, Grown, Exists, amberVars, magentoVars
<1> QED BY <1>6, LeaveIdle DEF ReconcileCommit

LEMMA SupersedeCommitStep ==
  ASSUME IInv, NEW p \in Proc, SupersedeCommit(p)
  PROVE  IInv'
<1> DEFINE j == loc[p].job
<1>1. /\ Data /\ j \in JobId /\ Exists(j) /\ request \in Request
      /\ loc[p].absent \in SUBSET Fields
  BY Known DEF SupersedeCommit, AtJob, Data
<1>2. /\ jobs' \in [JobId -> Job \cup {NoRow}]
      /\ \A k \in JobId : Exists(k) => Exists(k)'
  <2>1. "superseded" \in JobStates /\ "data" \in Codes
    BY DEF JobStates, Codes
  <2>2. jobs' = jobs \/ jobs' = [jobs EXCEPT ![j].state = "superseded",
                                             ![j].failure = "data"]
    BY DEF SupersedeCommit
  <2> HIDE DEF j
  <2> QED BY <1>1, <2>1, <2>2, JobRows DEF Data, Exists
<1>3. /\ steps' \in [JobId -> [Fields -> StepStates]]
      /\ \A k \in JobId, f \in Fields :
           steps[k][f] # "none" => steps'[k][f] # "none"
  <2>1. steps' \in {steps, [steps EXCEPT ![j] = Resolved(j, Dispatched(j))]}
    BY DEF SupersedeCommit
  <2> QED BY <1>1, <2>1, ResolvedSteps
<1>4. request' \in Request /\ request'.active \in {request.active, NoJob}
  <2>1. request' = request \/ request' = Clear(request)
    BY DEF SupersedeCommit
  <2>2. Clear(request) \in Request /\ Clear(request).active = NoJob
    BY <1>1 DEF Clear, Request, Reasons
  <2> QED BY <1>1, <2>1, <2>2
<1>5. refuted' \in SUBSET (JobId \X Fields)
  <2>1. refuted' = refuted \/ refuted' = refuted \cup {<<j, f>> : f \in loc[p].absent}
    BY DEF SupersedeCommit
  <2> QED BY <1>1, <2>1 DEF Data
<1>7. Data' /\ Grown /\ UNCHANGED sent
  BY <1>1, <1>2, <1>3, <1>4, <1>5
     DEF SupersedeCommit, Data, Grown, Exists, amberVars, magentoVars
<1> QED BY <1>7, LeaveIdle DEF SupersedeCommit

-----------------------------------------------------------------------------
\* The environment

LEMMA EnvironmentStep ==
  ASSUME IInv, Environment
  PROVE  IInv'
<1>1. Data /\ request \in Request /\ product \in Product
  BY SplitType DEF IInv, Data
<1>2. Bump(request) \in Request /\ Bump(request).active = request.active
  <2> DEFINE d == request.desired + 1
             s == request.reason = "reconciliation_required"
  <2>1. d \in Nat
    BY <1>1 DEF Request
  <2>2. Bump(request) = [request EXCEPT !.desired = d,
                           !.state = IF s THEN "needs_attention" ELSE "pending",
                           !.reason = IF s THEN request.reason ELSE "none"]
    BY DEF Bump
  <2> HIDE DEF d, s
  <2> QED BY <1>1, <2>1, <2>2 DEF Request, Reasons
<1>3. \A kind \in Kinds : Spend(kind) => spent' \in [Kinds -> Nat]
  BY <1>1, SpendType
<1>4. {"edit", "touch", "retire", "publish", "disable", "foreign"} \subseteq Kinds
  BY DEF Kinds
<1> USE DEF amberVars, ledgerVars, magentoVars, lockVars, historyVars
<1>5. CASE Edit
  <2>1. product' \in Product
    BY <1>1, <1>5 DEF Edit, Product
  <2>2. request' \in Request /\ request'.active = request.active
    BY <1>1, <1>2, <1>5 DEF Edit, RequestSync
  <2>3. spent' \in [Kinds -> Nat]
    BY <1>3, <1>4, <1>5 DEF Edit
  <2>4. Data' /\ Grown
    BY <1>1, <1>5, <2>1, <2>2, <2>3 DEF Edit, Data, Grown, Exists
  <2> QED BY <1>5, <2>4, OutsideStep DEF Edit
<1>6. CASE Touch
  <2>1. product' \in Product
    <3> DEFINE n == product.other + 1
    <3>1. n \in Nat BY <1>1 DEF Product
    <3>2. product' = [product EXCEPT !.other = n] BY <1>6 DEF Touch
    <3> HIDE DEF n
    <3> QED BY <1>1, <3>1, <3>2 DEF Product
  <2>2. spent' \in [Kinds -> Nat]
    BY <1>3, <1>4, <1>6 DEF Touch
  <2>3. Data' /\ Grown
    BY <1>1, <1>6, <2>1, <2>2 DEF Touch, Data, Grown, Exists
  <2> QED BY <1>6, <2>3, OutsideStep DEF Touch
<1>7. CASE Retire
  <2>1. product' \in Product
    BY <1>1, <1>7 DEF Retire, Product
  <2>2. request' \in Request /\ request'.active = request.active
    BY <1>1, <1>2, <1>7 DEF Retire, RequestSync
  <2>3. spent' \in [Kinds -> Nat]
    BY <1>3, <1>4, <1>7 DEF Retire
  <2>4. Data' /\ Grown
    BY <1>1, <1>7, <2>1, <2>2, <2>3 DEF Retire, Data, Grown, Exists
  <2> QED BY <1>7, <2>4, OutsideStep DEF Retire
<1>8. CASE Publish
  <2>1. spent' \in [Kinds -> Nat]
    BY <1>3, <1>4, <1>8 DEF Publish
  <2>2. published' \in Nat /\ handoff' \in BOOLEAN
    <3>1. published + 1 \in Nat
      BY <1>1 DEF Data
    <3>2. published' = published + 1 /\ handoff' \in {handoff, TRUE}
      BY <1>8 DEF Publish
    <3>3. handoff \in BOOLEAN
      BY <1>1 DEF Data
    <3>4. handoff' \in BOOLEAN
      BY <3>2, <3>3, Zenon
    <3> QED BY <3>1, <3>2, <3>4
  <2>3. Data' /\ Grown
    BY <1>1, <1>8, <2>1, <2>2 DEF Publish, Data, Grown, Exists
  <2> QED BY <1>8, <2>3, OutsideStep DEF Publish
<1>9. CASE ProcessHandoff
  <2>1. request' \in Request /\ request'.active = request.active
    BY <1>1, <1>2, <1>9 DEF ProcessHandoff
  <2>2. handoff' \in BOOLEAN
    BY <1>1, <1>9 DEF ProcessHandoff, Data
  <2>3. Data' /\ Grown
    BY <1>1, <1>9, <2>1, <2>2 DEF ProcessHandoff, Data, Grown, Exists
  <2> QED BY <1>9, <2>3, OutsideStep DEF ProcessHandoff
<1>10. CASE Disable
  <2>1. spent' \in [Kinds -> Nat]
    BY <1>3, <1>4, <1>10 DEF Disable
  <2>2. Data' /\ Grown
    BY <1>1, <1>10, <2>1 DEF Disable, Data, Grown, Exists
  <2> QED BY <1>10, <2>2, OutsideStep DEF Disable
<1>11. CASE Deliver
  <2>1. PICK m \in wire :
          /\ wire' = wire \ {m}
          /\ remote' = [remote EXCEPT ![m[2]] = jobs[m[1]].amber.input]
    BY <1>11 DEF Deliver
  <2> DEFINE content == jobs[m[1]].amber.input
  <2>2. content \in Held
    <3>1. PICK j \in JobId, f \in Fields : m = <<j, f>>
      BY <1>1 DEF Data
    <3>2. Exists(j)
      BY <3>1 DEF IInv, JobsExist
    <3>3. jobs[j] \in Job
      BY <1>1, <3>2 DEF Data, Exists
    <3> QED BY <3>1, <3>3 DEF Job, Product, Held
  <2>3. wire' \in SUBSET (JobId \X Fields)
    BY <1>1, <2>1 DEF Data
  <2>4. remote' \in [Fields -> Held]
    <3> HIDE DEF content
    <3>1. remote' = [remote EXCEPT ![m[2]] = content]
      BY <2>1 DEF content
    <3> QED BY <1>1, <2>2, <3>1 DEF Data
  <2>5. Data' /\ Grown
    BY <1>1, <1>11, <2>1, <2>3, <2>4 DEF Deliver, Data, Grown, Exists
  <2> QED BY <1>11, <2>5, OutsideStep DEF Deliver
<1>12. CASE Lose
  <2>1. wire' \in SUBSET (JobId \X Fields)
    BY <1>1, <1>12 DEF Lose, Data
  <2>2. Data' /\ Grown
    BY <1>1, <1>12, <2>1 DEF Lose, Data, Grown, Exists
  <2> QED BY <1>12, <2>2, OutsideStep DEF Lose
<1>13. CASE ForeignWrite
  <2>1. spent' \in [Kinds -> Nat]
    BY <1>3, <1>4, <1>13 DEF ForeignWrite
  <2>2. remote' \in [Fields -> Held]
    BY <1>1, <1>13 DEF ForeignWrite, Data, Held
  <2>3. Data' /\ Grown
    BY <1>1, <1>13, <2>1, <2>2 DEF ForeignWrite, Data, Grown, Exists
  <2> QED BY <1>13, <2>3, OutsideStep DEF ForeignWrite
<1> QED BY <1>5, <1>6, <1>7, <1>8, <1>9, <1>10, <1>11, <1>12, <1>13
     DEF Environment

-----------------------------------------------------------------------------
\* Crashes, lost sessions, and the invariant of every step.

LEMMA CrashStep ==
  ASSUME IInv, NEW p \in Proc, Crash(p)
  PROVE  IInv'
<1>1. Data /\ Control
  BY Known
<1>2. spent' \in [Kinds -> Nat]
  BY <1>1, SpendType DEF Crash, Kinds
<1>4. Data' /\ Grown /\ UNCHANGED sent
  BY <1>1, <1>2, DataSame DEF Crash
<1>5. "idle" \in Labels /\ "idle" \in Neutral /\ FreshLocal.active = NoJob
  BY DEF Labels, Neutral, FreshLocal
<1>6. Moved(p, "idle")
  BY <1>1, <1>5, FreshLocalType, UpdateMoves DEF Crash
<1> QED BY <1>4, <1>5, <1>6, NeutralStep

LEMMA LoseSessionsStep ==
  ASSUME IInv, LoseSessions
  PROVE  IInv'
<1>1. Data
  BY SplitType DEF IInv
<1>2. spent' \in [Kinds -> Nat]
  BY <1>1, SpendType DEF LoseSessions, Kinds
<1>3. Data' /\ Grown /\ UNCHANGED sent
  BY <1>1, <1>2, DataSame DEF LoseSessions, Data
<1> QED BY <1>3, OutsideStep DEF LoseSessions

LEMMA InitLemma == Init => IInv
<1> SUFFICES ASSUME Init PROVE IInv
  OBVIOUS
<1>1. InitialProduct \in Product
  BY DataAssumption DEF InitialProduct, Product
<1>2. InitialRequest \in Request
  BY DEF InitialRequest, Request, Reasons, NoJob
<1>3. Typed
  BY <1>1, <1>2, FreshLocalType
     DEF Init, Typed, Data, Control, Labels, StepStates, Held
<1>4. JobsExist
  BY DEF Init, JobsExist, InitialRequest, FreshLocal, AtJob
<1>5. TodoLeft
  BY DEF Init, TodoLeft, AtStep
<1>6. Once
  BY DEF Init, Once, AtMostOnce, UnmarkedUnsent, SenderOwns, SendersDiffer
<1> QED BY <1>3, <1>4, <1>5, <1>6 DEF IInv

LEMMA EnqueueStep ==
  ASSUME IInv, NEW p \in Proc, Enqueue(p)
  PROVE  IInv'
BY EnqueueEnterStep, UseExistingStep, PlanJobStep, PlanFaultStep,
   InsertJobStep DEF Enqueue

LEMMA ApplyJobStep ==
  ASSUME IInv, NEW p \in Proc, ApplyJob(p)
  PROVE  IInv'
BY ApplyBusyStep, ApplyRefusedStep, BlockRefusedStep, ApplyEnterStep,
   BeginStep, NextStepStep, MarkKeeps, SendKeeps, ReadbackStep, VerifyStep,
   FinalReadbackStep, SucceedStep, ReadFaultStep, SaveFailureStep
   DEF ApplyJob

LEMMA RunProductStep ==
  ASSUME IInv, NEW p \in Proc, RunProduct(p)
  PROVE  IInv'
BY ClaimStep, ConsumeReceiptStep, DecideKeeps, SupersedeUndispatchedStep,
   ClearActiveStep, SyncingStep, PassEndsStep
   DEF RunProduct

LEMMA RecoverStep ==
  ASSUME IInv, NEW p \in Proc, Recover(p)
  PROVE  IInv'
BY ManualEnqueueStep, ManualApplyStep, ReconcileObserveStep,
   ReconcileCommitStep, SupersedeObserveStep, SupersedeCommitStep
   DEF Recover

\* Nothing changes.
LEMMA StutterStep ==
  ASSUME IInv, UNCHANGED vars
  PROVE  IInv'
BY DEF IInv, Typed, Data, Control, JobsExist, TodoLeft, Once, AtMostOnce,
       UnmarkedUnsent, SenderOwns, SendersDiffer, Target, Exists, vars,
       amberVars, ledgerVars, magentoVars, lockVars, historyVars

LEMMA NextLemma == IInv /\ [Next]_vars => IInv'
<1> SUFFICES ASSUME IInv, [Next]_vars PROVE IInv'
  OBVIOUS
<1>1. ASSUME NEW w \in Workers, Poll(w) \/ RunProduct(w)  PROVE IInv'
  <2>1. w \in Proc BY DEF Proc
  <2> QED BY <1>1, <2>1, PollStep, RunProductStep
<1>2. ASSUME NEW o \in Operators, Recover(o)  PROVE IInv'
  <2>1. o \in Proc BY DEF Proc
  <2> QED BY <1>2, <2>1, RecoverStep
<1>3. ASSUME NEW p \in Proc, Act(p) \/ Crash(p)  PROVE IInv'
  BY <1>3, EnqueueStep, ApplyJobStep, CrashStep DEF Act
<1>4. CASE LoseSessions
  BY <1>4, LoseSessionsStep
<1>5. CASE Environment
  BY <1>5, EnvironmentStep
<1>6. CASE Quiet \/ UNCHANGED vars
  BY <1>6, StutterStep DEF Quiet
<1> QED BY <1>1, <1>2, <1>3, <1>4, <1>5, <1>6 DEF Next

\* A lock is taken by whoever asks for it, and released; nothing else happens
\* to it.
LockMove(lock, p) == lock' \in {lock, p, NoProc}

LEMMA LockedStep ==
  ASSUME Locked, [Next]_vars
  PROVE  Locked'
<1> USE DEF LockMove, Unlocked
<1>1. ASSUME NEW p \in Proc, Enqueue(p)
      PROVE  LockMove(idLock, p) /\ LockMove(skuLock, p)
  BY <1>1 DEF Enqueue, EnqueueEnter, UseExisting, PlanJob, PlanFault,
              InsertJob, UnlockSku, lockVars
<1>2. ASSUME NEW p \in Proc, ApplyJob(p)
      PROVE  LockMove(idLock, p) /\ LockMove(skuLock, p)
  BY <1>2 DEF ApplyJob, ApplyBusy, ApplyRefused, BlockRefused, ApplyEnter,
              Begin, NextStep, Mark, Send, Readback, Verify, FinalReadback,
              Succeed, ReadFault, SaveFailure, UnlockSku, lockVars
<1>3. ASSUME NEW p \in Proc, Poll(p) \/ RunProduct(p) \/ Crash(p)
      PROVE  LockMove(idLock, p) /\ LockMove(skuLock, p)
  BY <1>3 DEF Poll, RunProduct, Claim, ConsumeReceipt, Decide,
       SupersedeUndispatched, ClearActive, Syncing, Attend, RetryLater,
       AcknowledgeApplied, EndPass, Crash, UnlockId, lockVars
<1>4. ASSUME NEW p \in Proc, Recover(p)
      PROVE  LockMove(idLock, p) /\ LockMove(skuLock, p)
  BY <1>4 DEF Recover, ManualEnqueue, ManualApply, ReconcileObserve,
       ReconcileCommit, SupersedeObserve, SupersedeCommit, UnlockSku, lockVars
<1>5. CASE LoseSessions
  BY <1>5 DEF LoseSessions, Locked
<1>6. CASE Environment \/ Quiet \/ UNCHANGED vars
  BY <1>6 DEF Environment, Edit, Touch, Retire, Publish, ProcessHandoff,
       Disable, Deliver, Lose, ForeignWrite, Quiet, vars, lockVars, Locked
<1>7. ASSUME NEW p \in Proc, LockMove(idLock, p) /\ LockMove(skuLock, p)
      PROVE  Locked'
  BY <1>7 DEF Locked
<1> QED BY <1>1, <1>2, <1>3, <1>4, <1>5, <1>6, <1>7 DEF Next, Act, Proc

-----------------------------------------------------------------------------
\* The theorems.

\* The inductive invariant holds in every reachable state: types, the rows that
\* ids refer to, and who owns a dispatch marker that was not sent yet.
THEOREM Invariant == Spec => []IInv
<1> QED BY InitLemma, NextLemma, PTL DEF Spec

\* Every variable keeps its type: no statement of the service leaves a request
\* or a job in a state that migrations 042 and 044 do not list.
THEOREM TypeCorrect == Spec => []TypeOK
<1>1. Init => Locked
  BY DEF Init, Locked
<1>2. Locked /\ [Next]_vars => Locked'
  BY LockedStep
<1>3. IInv /\ Locked => TypeOK
  BY DEF IInv, Typed, Data, Control, Locked, TypeOK
<1> QED BY <1>1, <1>2, <1>3, Invariant, PTL DEF Spec

\* No dispatch step is sent twice, whatever crashes, retries, reviewed
\* continuations and lost session locks happen (applyJob and the step table).
THEOREM SentAtMostOnce == Spec => []AtMostOnce
<1>1. IInv => AtMostOnce
  BY DEF IInv, Once
<1> QED BY <1>1, Invariant, PTL

-----------------------------------------------------------------------------
\* The dispatch ledger: what each step is in DispatchLedger.

Step == JobId \X Fields
StepMarker == [s \in Step |-> steps[s[1]][s[2]]]
Count  == [s \in Step |-> sent[s[1]][s[2]]]
LedgerVars == <<StepMarker, Count>>

LEMMA LedgerSame ==
  ASSUME UNCHANGED <<steps, sent>>
  PROVE  UNCHANGED LedgerVars
BY DEF LedgerVars, StepMarker, Count

\* Marking a free step commits it.
LEMMA MarkCommits ==
  ASSUME IInv, NEW p \in Proc, Mark(p)
  PROVE  [Ledger!Next]_LedgerVars
<1>1. Data /\ loc[p] \in Local /\ loc[p].job \in JobId /\ loc[p].todo # {}
  BY Known DEF Mark, AtJob, IInv, TodoLeft, AtStep
<1>2. PICK j \in JobId, f \in Fields : j = loc[p].job /\ f = First(loc[p].todo)
  BY <1>1, FirstType DEF Local
<1>3. sent' = sent
  BY DEF Mark, magentoVars
<1>4. steps' = steps \/ /\ steps[j][f] = "none"
                        /\ steps' = [steps EXCEPT ![j][f] = "dispatched"]
  BY <1>2 DEF Mark, StepFree
<1>5. CASE steps' = steps
  BY <1>3, <1>5, LedgerSame
<1>6. CASE /\ steps[j][f] = "none"
           /\ steps' = [steps EXCEPT ![j][f] = "dispatched"]
  <2> DEFINE s == <<j, f>>
  <2>1. s \in Step
    BY <1>1, <1>2 DEF Step
  <2>2. StepMarker[s] = "none"
    BY <1>6, <2>1 DEF StepMarker
  <2>3. StepMarker' = [StepMarker EXCEPT ![s] = "dispatched"]
    <3>1. ASSUME NEW t \in Step
          PROVE  StepMarker'[t] = [StepMarker EXCEPT ![s] = "dispatched"][t]
      <4>1. PICK k \in JobId, g \in Fields : t = <<k, g>>
        BY DEF Step
      <4>2. StepMarker'[t] = steps'[k][g] /\ StepMarker[t] = steps[k][g]
        BY <4>1 DEF StepMarker
      <4>3. steps'[k][g] = IF k = j /\ g = f THEN "dispatched" ELSE steps[k][g]
        BY <1>1, <1>2, <1>6 DEF Data
      <4> QED BY <2>1, <4>1, <4>2, <4>3 DEF StepMarker
    <3> QED BY <3>1 DEF StepMarker
  <2>4. Count' = Count
    BY <1>3 DEF Count
  <2>5. Ledger!Commit(s)
    BY <2>2, <2>3, <2>4 DEF Ledger!Commit, StepMarker, Count, Step
  <2> QED BY <2>1, <2>5 DEF Ledger!Next, Step
<1> QED BY <1>4, <1>5, <1>6

\* A send issues a step its process owns.
LEMMA SendIssues ==
  ASSUME IInv, NEW p \in Proc, Send(p)
  PROVE  [Ledger!Next]_LedgerVars
<1>1. Data /\ loc[p] \in Local /\ loc[p].job \in JobId /\ loc[p].todo # {}
  BY Known DEF Send, AtJob, IInv, TodoLeft, AtStep
<1>2. PICK j \in JobId, f \in Fields : j = loc[p].job /\ f = First(loc[p].todo)
  BY <1>1, FirstType DEF Local
<1>3. steps[j][f] # "none" /\ sent[j][f] = 0
  BY <1>2 DEF Send, IInv, Once, SenderOwns
<1>4. sent' = [sent EXCEPT ![j][f] = @ + 1] /\ steps' = steps
  BY <1>2 DEF Send, ledgerVars
<1> DEFINE s == <<j, f>>
<1>5. s \in Step
  BY <1>1, <1>2 DEF Step
<1>6. StepMarker[s] # "none" /\ Count[s] = 0
  BY <1>3, <1>5 DEF StepMarker, Count
<1>7. StepMarker' = StepMarker
  BY <1>4 DEF StepMarker
<1>8. Count' = [Count EXCEPT ![s] = 1]
  <2>1. ASSUME NEW t \in Step
        PROVE  Count'[t] = [Count EXCEPT ![s] = 1][t]
    <3>1. PICK k \in JobId, g \in Fields : t = <<k, g>>
      BY DEF Step
    <3>2. Count'[t] = sent'[k][g] /\ Count[t] = sent[k][g]
      BY <3>1 DEF Count
    <3>3. sent'[k][g] = IF k = j /\ g = f THEN 1 ELSE sent[k][g]
      BY <1>1, <1>2, <1>3, <1>4 DEF Data
    <3> QED BY <1>5, <3>1, <3>2, <3>3 DEF Count
  <2> QED BY <2>1 DEF Count
<1>9. Ledger!Issue(s)
  BY <1>6, <1>7, <1>8 DEF Ledger!Issue, StepMarker, Count, Step
<1> QED BY <1>5, <1>9 DEF Ledger!Next, Step

\* Steps of one job that were not verified become so.
LEMMA ResolvesSteps ==
  ASSUME Data, NEW j \in JobId, NEW S \in SUBSET Fields,
         \A f \in S : steps[j][f] # "verified",
         steps' = [steps EXCEPT ![j] = Resolved(j, S)], sent' = sent
  PROVE  [Ledger!Next]_LedgerVars
<1> DEFINE T == {j} \X S
           row == Resolved(j, S)
<1>1. T \in SUBSET Step
  BY DEF Step
<1>2. \A t \in T : StepMarker[t] # "verified"
  BY DEF StepMarker, Step
<1>3. \A f \in Fields : row[f] = IF f \in S THEN "verified" ELSE steps[j][f]
  BY DEF Resolved
<1>4. steps' = [steps EXCEPT ![j] = row]
  OBVIOUS
<1> HIDE DEF row
<1>5. StepMarker' = [t \in Step |-> IF t \in T THEN "verified" ELSE StepMarker[t]]
  <2>1. ASSUME NEW t \in Step
        PROVE  StepMarker'[t] = IF t \in T THEN "verified" ELSE StepMarker[t]
    <3>1. PICK k \in JobId, g \in Fields : t = <<k, g>>
      BY DEF Step
    <3>2. StepMarker'[t] = steps'[k][g] /\ StepMarker[t] = steps[k][g]
      BY <3>1 DEF StepMarker
    <3>3. steps'[k][g] = IF k = j THEN row[g] ELSE steps[k][g]
      BY <1>4 DEF Data
    <3>4. t \in T <=> k = j /\ g \in S
      BY <3>1
    <3> QED BY <1>3, <3>2, <3>3, <3>4
  <2> HIDE DEF T
  <2> QED BY <2>1 DEF StepMarker
<1>6. Count' = Count
  BY DEF Count
<1>7. \A t \in Step : (IF t \in T THEN "verified" ELSE StepMarker[t])
                       = IF StepMarker'[t] = StepMarker[t] THEN StepMarker[t] ELSE "verified"
  <2> HIDE DEF T
  <2> QED BY <1>5
<1>8. Ledger!Resolve
  <2>1. StepMarker' = [t \in Step |-> IF StepMarker'[t] = StepMarker[t] THEN StepMarker[t]
                                  ELSE "verified"]
    <3> HIDE DEF T
    <3> QED BY <1>5, <1>7, Zenon
  <2> QED BY <2>1, <1>6 DEF Ledger!Resolve, StepMarker, Count, Step
<1> QED BY <1>8 DEF Ledger!Next

LEMMA VerifyResolves ==
  ASSUME IInv, NEW p \in Proc, Verify(p)
  PROVE  [Ledger!Next]_LedgerVars
<1> DEFINE j == loc[p].job
           f == First(loc[p].todo)
<1>1. /\ Data /\ loc[p] \in Local /\ j \in JobId /\ loc[p].todo # {}
  BY Known DEF Verify, AtJob, IInv, TodoLeft, AtStep
<1>2. f \in Fields
  BY <1>1, FirstType DEF Local
<1>3. sent' = sent
  BY DEF Verify, magentoVars
<1>4. steps' = steps \/ /\ steps[j][f] # "verified"
                        /\ steps' = [steps EXCEPT ![j][f] = "verified"]
  BY DEF Verify
<1> HIDE DEF j, f
<1>5. CASE steps' = steps
  BY <1>3, <1>5, LedgerSame
<1>6. CASE /\ steps[j][f] # "verified"
           /\ steps' = [steps EXCEPT ![j][f] = "verified"]
  <2>1. [steps[j] EXCEPT ![f] = "verified"] = Resolved(j, {f})
    BY <1>1, <1>2 DEF Resolved, Data
  <2>2. steps' = [steps EXCEPT ![j] = Resolved(j, {f})]
    BY <1>6, <2>1
  <2>3. {f} \in SUBSET Fields /\ \A g \in {f} : steps[j][g] # "verified"
    BY <1>2, <1>6
  <2> QED BY <1>1, <1>3, <2>2, <2>3, ResolvesSteps
<1> QED BY <1>4, <1>5, <1>6

LEMMA ReconcileResolves ==
  ASSUME IInv, NEW p \in Proc, ReconcileCommit(p)
  PROVE  [Ledger!Next]_LedgerVars
<1> DEFINE j == loc[p].job
           S == Recorded(p)
<1>1. Data /\ j \in JobId /\ jobs[j] \in Job
  BY Known DEF ReconcileCommit, AtJob
<1>2. S \in SUBSET Fields
  BY <1>1 DEF Recorded, Job
<1>3. sent' = sent
  BY DEF ReconcileCommit, magentoVars
<1>4. steps' = steps \/ /\ \A f \in S : steps[j][f] # "verified"
                        /\ steps' = [steps EXCEPT ![j] = Resolved(j, S)]
  BY DEF ReconcileCommit
<1> HIDE DEF j, S
<1> QED BY <1>1, <1>2, <1>3, <1>4, LedgerSame, ResolvesSteps

LEMMA SupersedeResolves ==
  ASSUME IInv, NEW p \in Proc, SupersedeCommit(p)
  PROVE  [Ledger!Next]_LedgerVars
<1> DEFINE j == loc[p].job
           S == Dispatched(j)
<1>1. Data /\ j \in JobId
  BY Known DEF SupersedeCommit, AtJob
<1>2. S \in SUBSET Fields /\ \A f \in S : steps[j][f] # "verified"
  BY DEF Dispatched
<1>3. sent' = sent
  BY DEF SupersedeCommit, magentoVars
<1>4. steps' = steps \/ steps' = [steps EXCEPT ![j] = Resolved(j, S)]
  BY DEF SupersedeCommit
<1> HIDE DEF j, S
<1> QED BY <1>1, <1>2, <1>3, <1>4, LedgerSame, ResolvesSteps

LEMMA LedgerInit == Init => Ledger!Init
BY DEF Init, Ledger!Init

\* Every other action leaves steps and sends alone.
LEMMA LedgerNext ==
  ASSUME IInv, [Next]_vars
  PROVE  [Ledger!Next]_LedgerVars
<1> USE DEF ledgerVars, magentoVars
<1>1. ASSUME NEW p \in Proc, Enqueue(p)  PROVE UNCHANGED <<steps, sent>>
  BY <1>1 DEF Enqueue, EnqueueEnter, UseExisting, PlanJob, PlanFault,
              InsertJob
<1>2. ASSUME NEW p \in Proc, ApplyJob(p)  PROVE [Ledger!Next]_LedgerVars
  <2>1. CASE Mark(p) \/ Send(p) \/ Verify(p)
    BY <2>1, MarkCommits, SendIssues, VerifyResolves
  <2>2. CASE ~(Mark(p) \/ Send(p) \/ Verify(p))
    <3>1. UNCHANGED <<steps, sent>>
      BY <1>2, <2>2 DEF ApplyJob, ApplyBusy, ApplyRefused, BlockRefused,
           ApplyEnter, Begin, NextStep, Readback, FinalReadback, Succeed,
           ReadFault, SaveFailure
    <3> QED BY <3>1, LedgerSame
  <2> QED BY <2>1, <2>2
<1>3. ASSUME NEW p \in Proc, Poll(p) \/ RunProduct(p) \/ Crash(p)
      PROVE  UNCHANGED <<steps, sent>>
  BY <1>3 DEF Poll, RunProduct, Claim, ConsumeReceipt, Decide,
       SupersedeUndispatched, ClearActive, Syncing, Attend, RetryLater,
       AcknowledgeApplied, EndPass, Crash
<1>4. ASSUME NEW p \in Proc, Recover(p)  PROVE [Ledger!Next]_LedgerVars
  <2>1. CASE ReconcileCommit(p) \/ SupersedeCommit(p)
    BY <2>1, ReconcileResolves, SupersedeResolves
  <2>2. CASE ~(ReconcileCommit(p) \/ SupersedeCommit(p))
    <3>1. UNCHANGED <<steps, sent>>
      BY <1>4, <2>2 DEF Recover, ManualEnqueue, ManualApply,
           ReconcileObserve, SupersedeObserve
    <3> QED BY <3>1, LedgerSame
  <2> QED BY <2>1, <2>2
<1>5. CASE LoseSessions \/ Environment \/ Quiet \/ UNCHANGED vars
  <2>1. UNCHANGED <<steps, sent>>
    BY <1>5 DEF LoseSessions, Environment, Edit, Touch, Retire, Publish,
         ProcessHandoff, Disable, Deliver, Lose, ForeignWrite, Quiet, vars
  <2> QED BY <2>1, LedgerSame
<1> QED BY <1>1, <1>2, <1>3, <1>4, <1>5, LedgerSame DEF Next, Act, Proc

\* The service keeps the promise of the dispatch ledger: every step of it is
\* a commit of a free marker, the one issue of a marked step, a resolution of
\* unverified markers, or changes neither markers nor sends.
THEOREM LedgerImplemented == Spec => LedgerSpec
<1>1. [Next]_vars /\ IInv => [Ledger!Next]_LedgerVars
  BY LedgerNext
<1> QED BY <1>1, LedgerInit, Invariant, PTL
         DEF Spec, LedgerSpec, Ledger!Spec, LedgerVars, StepMarker, Count, Step

=============================================================================
