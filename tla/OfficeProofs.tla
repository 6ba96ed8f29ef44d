---------------------------- MODULE OfficeProofs ----------------------------
(***************************************************************************)
(* Theorems about AmberOffice, for every number of people, calls, creation *)
(* attempts and contents and every mix of requests.                        *)
(***************************************************************************)
EXTENDS AmberOffice, FiniteSetTheorems, TLAPS

-----------------------------------------------------------------------------
(* The inductive invariant, in the groups of variables the actions frame.  *)

AccessTypes ==
  /\ users \in [Users -> Account]
  /\ clerk \in [permissions : SUBSET Ordinary, version : Nat]

PlaceTypes ==
  phase \in {"legacy", "preparing", "active"} /\ inputs \in Contents

SharedTypes ==
  /\ session \in SessionState \cup {Nil} /\ attempts \in Seq(AttemptState)
  /\ members \in [Users -> Member]
  /\ session = Nil => attempts = <<>>
  /\ session # Nil =>
       /\ session.current \in 0..Len(attempts)
       /\ session.result # Nil => session.current # 0
  /\ \A i \in DOMAIN attempts :
       /\ i # session.current => attempts[i].state = "superseded"
       /\ i = session.current =>
            /\ attempts[i].state # "superseded" /\ attempts[i].rev = session.rev
            /\ attempts[i].settings = session.settings
            /\ (attempts[i].state = "succeeded") = (session.result # Nil)

CreationTypes ==
  /\ errands \in [Errands -> ErrandState] /\ articles \in Nat /\ stock \in Seq(Product)
  /\ \A e \in Errands :
       /\ errands[e].receipt # Nil =>
            /\ errands[e].receipt.product \in DOMAIN stock
            /\ stock[errands[e].receipt.product].by = e
       /\ (errands[e].state = "consumed") => errands[e].receipt # Nil
       /\ errands[e].state \in {"reserved", "cancelled"} => errands[e].receipt = Nil

CallTypes == calls \in [Calls -> CallState \cup {Nil}]
LeftTypes == left \in [Kinds -> Nat]

Types == /\ AccessTypes /\ PlaceTypes /\ SharedTypes /\ CreationTypes
         /\ CallTypes /\ LeftTypes

\* An administrator's command runs alone, one call has the session.
OneWriter ==
  \A c \in Calls : Writes(c) => \A d \in Calls \ {c} : ~Reads(d) /\ ~Writes(d)
OneAtDesk == \A c, d \in Calls : HasDesk(c) /\ HasDesk(d) => c = d

\* What a command found out under its lock still holds when it writes, and a
\* reader's permission lasts as long as it reads.
Cleared(c) ==
  LET x == calls[c]
  IN  /\ Writes(c) =>
           /\ May(x.who, IF x.kind = "duties" THEN "roles.manage" ELSE "users.manage")
           /\ Allowed(x.kind, x.asked)
      /\ Reads(c) /\ x.kind \in SessionOps =>
           /\ May(x.who, "exports.view")
           /\ NeedsCreate(x.kind) => May(x.who, "exports.create")

\* Where a call is in the session tells what the session looks like.
Placed(c) ==
  LET x == calls[c]
  IN  /\ x.kind \in SharingOps => session # Nil
      /\ HasDesk(c) => /\ x.kind = (IF x.pc = "previewed" THEN "prepare" ELSE "generate")
                       /\ HasAccess(c)
      /\ x.pc \in {"previewed", "capture", "commit"} => session.result = Nil
      /\ x.kind = "save" => x.asked.settings # Nil
      /\ x.pc \in {"capture", "commit", "recheck"} => session.current # 0
      /\ x.pc \in {"capture", "commit"} => Attempt.state = "executing"
      /\ x.pc = "previewed" => x.asked.seen # Nil
      /\ x.pc = "commit" => x.asked.seen = Attempt.content

CallsInv ==
  /\ CallTypes /\ OneWriter /\ OneAtDesk
  /\ \A c \in Calls : calls[c] # Nil => Cleared(c) /\ Placed(c)

IInv == Types /\ CallsInv /\ SomeAdministrator

LEMMA TypesAreOfficeTypes == Types <=> OfficeTypeOK
BY DEF Types, AccessTypes, PlaceTypes, SharedTypes, CreationTypes, CallTypes,
       LeftTypes, OfficeTypeOK

-----------------------------------------------------------------------------
(* Calls.                                                                  *)

LEMMA SpendTypes ==
  ASSUME LeftTypes, NEW k \in Kinds, Spend(k) PROVE LeftTypes'
BY DEF LeftTypes, Spend

\* A call is a record of its kind.
LEMMA CallShape ==
  ASSUME CallTypes, NEW c \in Calls, calls[c] # Nil
  PROVE  /\ calls[c] \in CallState /\ calls[c].who \in Users /\ calls[c].kind \in Kinds
         /\ calls[c].kind \in AdminOps =>
              /\ calls[c].asked \in AdminRequest /\ calls[c].pc \in {"asked", "decided"}
         /\ calls[c].kind \in SharingOps => calls[c].asked \in SharedRequest
         /\ calls[c].kind = "create" => calls[c].asked \in [settings : Settings]
         /\ calls[c].kind \in CreationOps => calls[c].asked \in CreationRequest
         /\ calls[c].pc = "decided" => calls[c].kind \in AdminOps
         /\ HasDesk(c) => calls[c].kind \in SharingOps
BY DEF CallTypes, CallState, Kinds, AdminOps, AccountOps, SessionOps, SharingOps,
       CreationOps, HasDesk

\* A call that goes on.
LEMMA CallGoes ==
  ASSUME CallTypes, NEW c \in Calls, calls[c] # Nil, NEW p, Goes(c, p)
  PROVE  /\ calls' = [calls EXCEPT ![c] = [calls[c] EXCEPT !.pc = p]]
         /\ calls'[c] = [calls[c] EXCEPT !.pc = p]
         /\ calls'[c].pc = p /\ calls'[c].who = calls[c].who
         /\ calls'[c].kind = calls[c].kind /\ calls'[c].asked = calls[c].asked
<1>1. /\ calls' = [calls EXCEPT ![c] = [calls[c] EXCEPT !.pc = p]]
      /\ calls'[c] = [calls[c] EXCEPT !.pc = p]
  BY DEF Goes, CallTypes
<1>2. calls[c] = [who |-> calls[c].who, kind |-> calls[c].kind,
                  pc |-> calls[c].pc, asked |-> calls[c].asked]
  BY CallShape DEF CallState
<1> QED BY <1>1, <1>2

\* A call that has the session reads.
LEMMA DeskReads ==
  ASSUME CallTypes, NEW c \in Calls, HasDesk(c) PROVE Reads(c) /\ ~Writes(c)
BY CallShape DEF HasDesk, Reads, Writes, At, AdminOps, AccountOps, SharingOps

\* What a step of one call has to show when nobody's access changes.
LEMMA CallMoves ==
  ASSUME CallsInv, NEW c \in Calls, NEW x \in CallState \cup {Nil},
         calls' = [calls EXCEPT ![c] = x], UNCHANGED accessVars,
         \/ UNCHANGED sessionVars
         \/ session' # Nil /\ (DeskFree \/ HasDesk(c)),
         x # Nil => /\ Cleared(c)' /\ Placed(c)'
                    /\ HasDesk(c)' => DeskFree \/ HasDesk(c)
                    /\ Writes(c)' => \A d \in Calls \ {c} : ~Reads(d) /\ ~Writes(d)
                    /\ Reads(c)' => \A d \in Calls \ {c} : ~Writes(d)
  PROVE  CallsInv'
<1>1. /\ CallTypes' /\ calls'[c] = x
      /\ \A d \in Calls \ {c} : calls'[d] = calls[d]
  BY DEF CallsInv, CallTypes
<1>2. \A d \in Calls \ {c} : /\ Reads(d)' = Reads(d) /\ Writes(d)' = Writes(d)
                             /\ HasDesk(d)' = HasDesk(d)
  BY <1>1 DEF Reads, Writes, HasDesk, At
<1>3. x = Nil => ~Writes(c)' /\ ~Reads(c)' /\ ~HasDesk(c)'
  BY <1>1 DEF Reads, Writes, HasDesk, At
<1>4. OneWriter'
  BY <1>1, <1>2, <1>3 DEF CallsInv, OneWriter
<1>5. OneAtDesk'
  BY <1>1, <1>2, <1>3 DEF CallsInv, OneAtDesk, DeskFree
<1>6. ASSUME NEW d \in Calls, calls'[d] # Nil PROVE Cleared(d)' /\ Placed(d)'
  <2>1. CASE d = c BY <2>1, <1>1, <1>6
  <2>2. CASE d # c
    <3>1. Cleared(d) /\ Placed(d) BY <1>1, <1>6, <2>2 DEF CallsInv
    <3>2. Cleared(d)'
      BY <1>1, <1>2, <2>2, <3>1
      DEF Cleared, May, Permissions, Ordinary, Reserved, SessionOps, NeedsCreate,
          Allowed, ApproveAllowed, RoleAllowed,
          DisableAllowed, EnableAllowed, DutiesAllowed, Removable, Holders, Active,
          IsAdministrator, accessVars
    <3>3. CASE UNCHANGED sessionVars
      BY <1>1, <1>2, <2>2, <3>1, <3>2, <3>3
      DEF Placed, HasAccess, Owns, Who, Attempt, sessionVars
    <3>4. CASE session' # Nil /\ (DeskFree \/ HasDesk(c))
      <4>1. ~HasDesk(d) BY <2>2, <3>4 DEF CallsInv, OneAtDesk, DeskFree
      <4>2. calls[d].pc \notin {"previewed", "capture", "commit", "recheck"}
        BY <1>1, <1>6, <2>2, <4>1 DEF HasDesk
      <4> QED BY <1>1, <1>2, <2>2, <3>1, <3>2, <3>4, <4>1, <4>2 DEF Placed
    <3> QED BY <3>2, <3>3, <3>4
  <2> QED BY <2>1, <2>2
<1> QED BY <1>1, <1>4, <1>5, <1>6 DEF CallsInv

\* The writer's end: nobody else was past its first step.
LEMMA WriterEnds ==
  ASSUME CallsInv, NEW c \in Calls, Writes(c), End(c), UNCHANGED sessionVars
  PROVE  CallsInv'
<1>1. /\ CallTypes' /\ calls'[c] = Nil
      /\ \A d \in Calls \ {c} : calls'[d] = calls[d]
  BY DEF CallsInv, CallTypes, End
<1>2. \A d \in Calls : ~Reads(d)' /\ ~Writes(d)'
  BY <1>1 DEF CallsInv, OneWriter, Reads, Writes, At
<1>3. \A d \in Calls : ~HasDesk(d)'
  <2>1. ASSUME NEW d \in Calls, HasDesk(d) PROVE d # c /\ Reads(d)
    BY <2>1, DeskReads DEF CallsInv
  <2> QED BY <1>1, <2>1 DEF HasDesk, CallsInv, OneWriter
<1>4. ASSUME NEW d \in Calls, calls'[d] # Nil PROVE Cleared(d)' /\ Placed(d)'
  <2>1. d # c /\ Placed(d) BY <1>1, <1>4 DEF CallsInv
  <2>2. calls[d].pc \notin {"previewed", "capture", "commit", "recheck"}
    BY <1>1, <1>3, <1>4, <2>1 DEF HasDesk
  <2> QED BY <1>1, <1>2, <1>3, <2>1, <2>2 DEF Cleared, Placed, sessionVars
<1> QED BY <1>1, <1>2, <1>3, <1>4 DEF CallsInv, OneWriter, OneAtDesk

\* A call that is answered or lost while nothing else changes.
LEMMA CallEnds ==
  ASSUME CallsInv, NEW c \in Calls, End(c), UNCHANGED <<accessVars, sessionVars>>
  PROVE  CallsInv'
BY CallMoves DEF End

\* The answer of a call that changed the session.
LEMMA DeskEnds ==
  ASSUME CallsInv, NEW c \in Calls, End(c), UNCHANGED accessVars,
         session' # Nil, DeskFree \/ HasDesk(c)
  PROVE  CallsInv'
BY CallMoves DEF End

\* A new call holds nothing.
LEMMA CallBegins ==
  ASSUME CallsInv, NEW c \in Calls, NEW u \in Users, NEW kind \in Kinds, NEW asked,
         [who |-> u, kind |-> kind, pc |-> "asked", asked |-> asked] \in CallState,
         Begin(c, u, kind, asked), UNCHANGED <<accessVars, sessionVars>>,
         kind \in SharingOps => session # Nil, kind = "save" => asked.settings # Nil
  PROVE  CallsInv'
<1> DEFINE x == [who |-> u, kind |-> kind, pc |-> "asked", asked |-> asked]
<1>1. /\ calls' = [calls EXCEPT ![c] = x] /\ calls'[c] = x
      /\ x.pc = "asked" /\ x.kind = kind /\ x.asked = asked
  BY DEF Begin, CallsInv, CallTypes
<1>2. ~Reads(c)' /\ ~Writes(c)' /\ ~HasDesk(c)'
  BY <1>1 DEF Reads, Writes, HasDesk, At
<1>3. Cleared(c)' /\ Placed(c)'
  BY <1>1, <1>2 DEF Cleared, Placed, sessionVars
<1> HIDE DEF x
<1> QED BY <1>1, <1>2, <1>3, CallMoves DEF x

-----------------------------------------------------------------------------
(* What a step leaves alone stays as it was.                               *)

LEMMA AccessKept ==
  ASSUME AccessTypes, SomeAdministrator, UNCHANGED accessVars
  PROVE  AccessTypes' /\ SomeAdministrator'
BY DEF AccessTypes, SomeAdministrator, Holders, Active, accessVars

LEMMA SharedKept == ASSUME SharedTypes, UNCHANGED sessionVars PROVE SharedTypes'
BY DEF SharedTypes, sessionVars

LEMMA CreationKept == ASSUME CreationTypes, UNCHANGED creationVars PROVE CreationTypes'
BY DEF CreationTypes, creationVars

\* What is left to show of a step, group by group.
LEMMA StepKeeps ==
  ASSUME IInv, CallsInv', UNCHANGED left \/ \E k \in Kinds : Spend(k),
         UNCHANGED accessVars \/ (AccessTypes' /\ SomeAdministrator'),
         UNCHANGED <<phase, inputs>> \/ PlaceTypes',
         UNCHANGED sessionVars \/ SharedTypes',
         (UNCHANGED creationVars) \/ CreationTypes'
  PROVE  IInv'
<1>1. AccessTypes' /\ SomeAdministrator'
  BY AccessKept DEF IInv, Types
<1>2. PlaceTypes'
  BY DEF IInv, Types, PlaceTypes
<1>3. SharedTypes' /\ CreationTypes'
  BY SharedKept, CreationKept DEF IInv, Types
<1>4. LeftTypes'
  BY SpendTypes DEF IInv, Types, LeftTypes
<1> QED BY <1>1, <1>2, <1>3, <1>4 DEF IInv, Types, CallsInv

-----------------------------------------------------------------------------
(* Administration of access.                                               *)

LEMMA HoldersFinite ==
  ASSUME NEW role
  PROVE  IsFiniteSet(Holders(role)) /\ Cardinality(Holders(role)) \in Nat
<1>1. Holders(role) \subseteq Users BY DEF Holders, Active
<1>2. IsFiniteSet(Users) BY OfficeAssumption
<1> QED BY <1>1, <1>2, FS_Subset, FS_CardinalityType

\* Where one of them may go, another one stays.
LEMMA AnotherHolder ==
  ASSUME Removable, NEW u
  PROVE  \E v \in Holders("administrator") : v # u
<1> SUFFICES ASSUME Holders("administrator") \subseteq {u} PROVE FALSE
  OBVIOUS
<1>1. IsFiniteSet({u}) /\ Cardinality({u}) = 1 BY FS_Singleton
<1>2. Cardinality(Holders("administrator")) <= 1 BY <1>1, FS_Subset
<1> QED BY <1>2, HoldersFinite DEF Removable

LEMMA AskAdminKeeps ==
  ASSUME IInv, NEW c \in Calls, NEW u \in Users, NEW kind \in AdminOps,
         NEW target \in Users, NEW role \in Roles \cup {Nil},
         NEW duties \in SUBSET Ordinary, AskAdmin(c, u, kind, target, role, duties)
  PROVE  IInv'
<1> DEFINE asked == [target |-> target, role |-> role,
                     assignment |-> users[target].assignment, duties |-> duties,
                     version |-> clerk.version,
                     affected |-> Cardinality(Holders("clerk"))]
<1>1. asked \in AdminRequest
  BY HoldersFinite DEF IInv, Types, AccessTypes, Account, AdminRequest
<1>2. [who |-> u, kind |-> kind, pc |-> "asked", asked |-> asked] \in CallState
  BY <1>1 DEF CallState
<1>3. kind \in Kinds /\ kind \notin SharingOps /\ kind # "save"
  BY DEF Kinds, AdminOps, AccountOps, SharingOps
<1>4. CallsInv'
  BY <1>2, <1>3, CallBegins DEF AskAdmin, IInv
<1> QED BY <1>3, <1>4, StepKeeps DEF AskAdmin

LEMMA AskAdministerKeeps ==
  ASSUME IInv, NEW c \in Calls, AskAdminister(c) PROVE IInv'
<1>1. {} \in SUBSET Ordinary /\ Duties \subseteq SUBSET Ordinary
  BY OfficeAssumption
<1>2. {"approve", "role", "disable", "enable", "duties"} \subseteq AdminOps
  BY DEF AdminOps, AccountOps
<1> QED BY <1>1, <1>2, AskAdminKeeps DEF AskAdminister

LEMMA DecideKeeps == ASSUME IInv, NEW c \in Calls, Decide(c) PROVE IInv'
<1> DEFINE x == calls[c]
           allowed == /\ May(x.who, IF x.kind = "duties" THEN "roles.manage"
                                                         ELSE "users.manage")
                      /\ ~Frozen /\ Allowed(x.kind, x.asked)
           y == [x EXCEPT !.pc = "decided"]
<1>1. /\ CallsInv /\ CallTypes /\ x # Nil /\ x.kind \in AdminOps
      /\ \A d \in Calls \ {c} : ~Reads(d) /\ ~Writes(d)
  BY DEF IInv, CallsInv, Decide, Queues, At, ExclusiveGranted
<1>2. /\ UNCHANGED <<accessVars, phase, inputs, sessionVars, creationVars, left>>
      /\ IF allowed THEN Goes(c, "decided") ELSE End(c)
  BY DEF Decide
<1>3. CASE allowed
  <2>1. /\ calls' = [calls EXCEPT ![c] = y] /\ calls'[c] = y
        /\ y.pc = "decided" /\ y.who = x.who /\ y.kind = x.kind /\ y.asked = x.asked
    BY <1>1, <1>2, <1>3, CallGoes
  <2>2. y \in CallState
    BY <1>1, CallShape
    DEF CallState, AdminOps, AccountOps, SharingOps, CreationOps
  <2>3. ~Reads(c)' /\ Writes(c)' /\ ~HasDesk(c)'
    BY <1>1, <2>1, <2>2, NilAssumption DEF Reads, Writes, HasDesk, At
  <2>4. Cleared(c)'
    BY <1>2, <1>3, <2>1, <2>3
    DEF Cleared, May, Permissions, Ordinary, Reserved, Allowed, ApproveAllowed,
        RoleAllowed, DisableAllowed, EnableAllowed, DutiesAllowed, Removable,
        Holders, Active, IsAdministrator, accessVars
  <2>5. Placed(c)'
    BY <1>1, <2>1, <2>3 DEF Placed, AdminOps, AccountOps, SharingOps
  <2>6. CallsInv'
    <3> HIDE DEF y
    <3> QED BY <1>1, <1>2, <2>1, <2>2, <2>3, <2>4, <2>5, CallMoves
  <2> QED BY <1>2, <2>6, StepKeeps
<1>4. CASE ~allowed
  <2>1. CallsInv' BY <1>1, <1>2, <1>4, CallEnds
  <2> QED BY <1>2, <2>1, StepKeeps
<1> QED BY <1>3, <1>4

LEMMA RoleReplaced ==
  ASSUME NEW z \in Account, NEW role
  PROVE  /\ WithRole(z, role) \in [status : {"active", "pending", "disabled"},
                                   role : {role, z.role}, assignment : Nat]
         /\ WithRole(z, role).status = z.status
         /\ WithRole(z, role).role = (IF role = Nil THEN z.role ELSE role)
<1> DEFINE S == [status : {"active", "pending", "disabled"}, role : {role, z.role},
                 assignment : Nat]
<1>1. z \in S BY DEF Account
<1>2. CASE role = Nil \/ z.role = role
  BY <1>1, <1>2 DEF WithRole
<1>3. CASE ~(role = Nil \/ z.role = role)
  <2> DEFINE v == [z EXCEPT !.role = role, !.assignment = z.assignment + 1]
  <2>1. z.status \in {"active", "pending", "disabled"} /\ z.assignment + 1 \in Nat
    BY DEF Account
  <2>2. WithRole(z, role) = v BY <1>3 DEF WithRole
  <2>3. v.status = z.status /\ v.role = role
    BY DEF Account
  <2>4. v \in S
    BY <2>1, <2>3 DEF Account
  <2> QED BY <1>3, <2>2, <2>3, <2>4
<1> QED BY <1>2, <1>3

\* A command of Authority leaves an administrator.
LEMMA WriteAccountKeeps ==
  ASSUME IInv, NEW c \in Calls, WriteAccount(c) PROVE IInv'
<1> DEFINE x == calls[c]
           a == x.asked
           w == Written(users[a.target], x.kind, a.role)
<1>1. /\ CallsInv /\ CallTypes /\ Writes(c) /\ x # Nil /\ x.kind \in AccountOps
      /\ UNCHANGED <<clerk, phase, inputs, sessionVars, creationVars, left>>
      /\ users' = [users EXCEPT ![a.target] = w] /\ End(c)
  BY DEF IInv, CallsInv, WriteAccount, Writes, At
<1>2. a \in AdminRequest /\ x.kind \in AdminOps
  BY <1>1, CallShape DEF AdminOps
<1>3. Allowed(x.kind, a)
  BY <1>1 DEF CallsInv, Cleared
<1>4. CallsInv'
  BY <1>1, WriterEnds
<1>5. /\ users[a.target] \in Account
      /\ w.status = (IF x.kind = "disable" THEN "disabled"
                     ELSE IF x.kind = "role" THEN users[a.target].status ELSE "active")
      /\ w.role = (IF x.kind = "disable" \/ a.role = Nil THEN users[a.target].role
                   ELSE a.role)
      /\ w = [status |-> w.status, role |-> w.role, assignment |-> w.assignment]
      /\ w.assignment \in Nat
  <2> DEFINE z == users[a.target]
             v == WithRole(z, a.role)
  <2>1. z \in Account
    BY <1>1, <1>2 DEF IInv, Types, AccessTypes, AdminRequest
  <2>2. /\ v \in [status : {"active", "pending", "disabled"}, role : {a.role, z.role},
                  assignment : Nat]
        /\ v.status = z.status /\ v.role = (IF a.role = Nil THEN z.role ELSE a.role)
    BY <2>1, RoleReplaced
  <2>3. CASE x.kind = "disable"
    <3>1. w = [z EXCEPT !.status = "disabled"] BY <2>3 DEF Written
    <3> QED BY <2>1, <2>3, <3>1 DEF Account
  <2>4. CASE x.kind = "role"
    <3>1. w = v BY <2>4 DEF Written
    <3> QED BY <2>1, <2>2, <2>4, <3>1
  <2>5. CASE x.kind \in {"approve", "enable"}
    <3>1. w = [v EXCEPT !.status = "active"] BY <2>5 DEF Written
    <3> QED BY <2>1, <2>2, <2>5, <3>1
  <2> QED BY <1>1, <2>3, <2>4, <2>5 DEF AccountOps
<1>6. AccessTypes'
  <2>1. w \in Account
    BY <1>2, <1>5 DEF Account, AdminRequest
  <2> QED BY <1>1, <1>2, <2>1 DEF IInv, Types, AccessTypes, AdminRequest
<1>7. SomeAdministrator'
  <2>1. \A v \in Users \ {a.target} : users'[v] = users[v]
    BY <1>1 DEF IInv, Types, AccessTypes
  <2>2. users'[a.target] = w /\ a.target \in Users
    BY <1>1, <1>2 DEF IInv, Types, AccessTypes, AdminRequest
  <2>3. CASE \E v \in Holders("administrator") : v # a.target
    BY <2>1, <2>3 DEF SomeAdministrator, Holders, Active
  <2>4. CASE Holders("administrator") = {a.target} /\ ~Removable
    <3>1. users[a.target].status = "active" /\ users[a.target].role = "administrator"
      BY <2>4 DEF Holders, Active
    <3>2. x.kind # "disable" /\ x.kind # "approve" /\ x.kind # "enable"
      BY <1>3, <2>4, <3>1
      DEF Allowed, ApproveAllowed, DisableAllowed, EnableAllowed, IsAdministrator
    <3>3. x.kind = "role" /\ a.role = "administrator"
      BY <1>1, <1>3, <2>4, <3>2 DEF Allowed, RoleAllowed, AccountOps
    <3>4. w.status = "active" /\ w.role = "administrator"
      BY <1>5, <3>1, <3>3
    <3> QED BY <2>2, <3>4 DEF SomeAdministrator, Holders, Active
  <2> QED
    BY <2>3, <2>4, AnotherHolder DEF IInv, SomeAdministrator
<1> QED BY <1>1, <1>4, <1>6, <1>7, StepKeeps

LEMMA WriteDutiesKeeps ==
  ASSUME IInv, NEW c \in Calls, WriteDuties(c) PROVE IInv'
<1>1. /\ CallsInv /\ CallTypes /\ Writes(c) /\ calls[c] # Nil /\ calls[c].kind = "duties"
      /\ UNCHANGED <<users, phase, inputs, sessionVars, creationVars, left>> /\ End(c)
  BY DEF IInv, CallsInv, WriteDuties, Writes, At
<1>2. calls[c].asked.duties \in SUBSET Ordinary
  BY <1>1, CallShape DEF AdminOps, AdminRequest
<1>3. AccessTypes' /\ SomeAdministrator'
  BY <1>1, <1>2 DEF WriteDuties, IInv, Types, AccessTypes, SomeAdministrator, Holders, Active
<1>4. CallsInv'
  BY <1>1, WriterEnds
<1> QED BY <1>1, <1>3, <1>4, StepKeeps

-----------------------------------------------------------------------------
(* The export session.                                                     *)

\* A call goes on with what it saw.
Sees(c, p, v) == calls' = [calls EXCEPT ![c].pc = p, ![c].asked.seen = v]

LEMMA CallSees ==
  ASSUME CallTypes, NEW c \in Calls, calls[c] # Nil, calls[c].kind \in SharingOps,
         NEW p \in {"previewed", "commit"}, NEW v \in Contents,
         Sees(c, p, v)
  PROVE  \E y \in CallState :
           /\ calls' = [calls EXCEPT ![c] = y] /\ calls'[c] = y
           /\ y.who = calls[c].who /\ y.kind = calls[c].kind /\ y.pc = p
           /\ y.asked.seen = v /\ y.asked.epoch = calls[c].asked.epoch
           /\ y.asked.settings = calls[c].asked.settings
<1> DEFINE x == calls[c]
           C == [who : Users, kind : SharingOps, asked : SharedRequest,
                 pc : {"asked", "entered", "previewed", "capture", "commit", "recheck"}]
           z == [x EXCEPT !.pc = p]
           r == [x.asked EXCEPT !.seen = v]
           y == [z EXCEPT !.asked = r]
           f == [calls EXCEPT ![c] = z]
<1>1. x \in C
  BY CallShape DEF CallState, SharingOps, AdminOps, AccountOps, CreationOps
<1>2. z \in C /\ z.who = x.who /\ z.kind = x.kind /\ z.pc = p /\ z.asked = x.asked
  <2> HIDE DEF x
  <2> QED BY <1>1
<1>3. /\ r \in SharedRequest /\ r.seen = v /\ r.epoch = x.asked.epoch
      /\ r.settings = x.asked.settings
  <2>1. x.asked \in SharedRequest BY <1>1
  <2> HIDE DEF x
  <2> QED BY <2>1 DEF SharedRequest
<1>4. y \in C /\ y.who = x.who /\ y.kind = x.kind /\ y.pc = p /\ y.asked = r
  <2> HIDE DEF z, r
  <2> QED BY <1>2, <1>3
<1>5. y \in CallState
  BY <1>4 DEF CallState
<1>6. calls' = [calls EXCEPT ![c] = y] /\ calls'[c] = y
  <2>1. calls' = [f EXCEPT ![c] = [f[c] EXCEPT !.asked = [f[c].asked EXCEPT !.seen = v]]]
    BY DEF Sees
  <2>2. f[c] = z /\ DOMAIN calls = Calls
    BY DEF CallTypes
  <2>3. calls' = [f EXCEPT ![c] = y]
    BY <1>2, <2>1, <2>2
  <2> HIDE DEF y, z
  <2> QED BY <2>2, <2>3
<1> HIDE DEF r, y
<1> QED BY <1>3, <1>4, <1>5, <1>6

LEMMA SessionShape ==
  ASSUME IInv, session # Nil
  PROVE  /\ session \in SessionState /\ session.settings \in Settings
         /\ session.rev \in Nat \ {0} /\ session.current \in 0..Len(attempts)
         /\ session.result \in ResultState \cup {Nil} /\ session.owner \in Users
         /\ attempts \in Seq(AttemptState)
         /\ session.current # 0 => /\ session.current \in DOMAIN attempts
                                   /\ Attempt \in AttemptState
BY DEF IInv, Types, SharedTypes, SessionState, Attempt

\* No attempt is left for the session to go on with.
LEMMA SupersededAll ==
  ASSUME IInv, session # Nil
  PROVE  /\ Superseded \in Seq(AttemptState) /\ Len(Superseded) = Len(attempts)
         /\ \A i \in DOMAIN attempts : Superseded[i].state = "superseded"
<1>1. /\ attempts \in Seq(AttemptState) /\ session.current \in 0..Len(attempts)
      /\ \A i \in DOMAIN attempts : i # session.current => attempts[i].state = "superseded"
  BY DEF IInv, Types, SharedTypes
<1>2. CASE session.current = 0
  BY <1>1, <1>2 DEF Superseded
<1>3. CASE session.current # 0
  <2> DEFINE a == [attempts[session.current] EXCEPT !.state = "superseded"]
  <2>0. attempts[session.current] \in AttemptState
    BY <1>1, <1>3
  <2>1. a \in AttemptState /\ a.state = "superseded"
    BY <2>0 DEF AttemptState
  <2>2. Superseded = [attempts EXCEPT ![session.current] = a]
    BY <1>3 DEF Superseded
  <2> HIDE DEF a
  <2> QED BY <1>1, <1>3, <2>1, <2>2
<1> QED BY <1>2, <1>3

\* A call that waits for the session, or got it, reads.
LEMMA EnteredShape ==
  ASSUME IInv, NEW c \in Calls, At(c, "entered"), calls[c].kind \in SessionOps
  PROVE  /\ CallsInv /\ CallTypes /\ calls[c] # Nil /\ Reads(c) /\ ~HasDesk(c)
         /\ \A d \in Calls \ {c} : ~Writes(d)
         /\ May(Who(c), "exports.view")
         /\ NeedsCreate(calls[c].kind) => May(Who(c), "exports.create")
         /\ calls[c].kind # "create" => session # Nil /\ calls[c].asked \in SharedRequest
<1>1. CallsInv /\ CallTypes /\ calls[c] # Nil /\ Cleared(c) /\ Placed(c)
  BY DEF IInv, CallsInv, At
<1>2. Reads(c) /\ ~HasDesk(c)
  BY DEF At, Reads, HasDesk, SessionOps, SharingOps, AdminOps, AccountOps
<1>3. \A d \in Calls \ {c} : ~Writes(d)
  BY <1>1, <1>2 DEF CallsInv, OneWriter
<1> QED
  BY <1>1, <1>2, <1>3, CallShape DEF Cleared, Placed, Who, SessionOps

LEMMA RefuseKeeps == ASSUME IInv, NEW c \in Calls, Refuse(c) PROVE IInv'
<1>1. CallsInv'
  BY CallEnds DEF IInv, Refuse, sharedByOthers
<1> QED BY <1>1, StepKeeps DEF Refuse, sharedByOthers

LEMMA AskSharedKeeps ==
  ASSUME IInv, NEW c \in Calls, NEW u \in Users, NEW kind \in SessionOps,
         NEW settings \in Settings \cup {Nil}, NEW seen \in Contents \cup {Nil},
         NEW renew \in BOOLEAN, NEW target \in Users,
         kind \in {"create", "save"} => settings \in Settings,
         AskShared(c, u, kind, settings, seen, renew, target)
  PROVE  IInv'
<1>1. /\ kind \in Kinds /\ Spend(kind)
      /\ UNCHANGED <<accessVars, phase, inputs, sessionVars, creationVars>>
  BY DEF AskShared, sharedByOthers, Kinds
<1>2. CASE kind = "create"
  <2>1. Begin(c, u, kind, [settings |-> settings])
    BY <1>2 DEF AskShared
  <2>2. [who |-> u, kind |-> kind, pc |-> "asked", asked |-> [settings |-> settings]]
          \in CallState
    BY <1>2 DEF CallState
  <2>3. kind \notin SharingOps
    BY <1>2 DEF SharingOps
  <2>4. CallsInv'
    BY <1>1, <1>2, <2>1, <2>2, <2>3, CallBegins DEF IInv
  <2> QED BY <1>1, <2>4, StepKeeps
<1>3. CASE kind # "create"
  <2> DEFINE asked == [settings |-> settings, rev |-> session.rev,
                       attempt |-> session.current, seen |-> seen, renew |-> renew,
                       epoch |-> members[u].epoch, target |-> target,
                       targetEpoch |-> members[target].epoch]
  <2>1. Begin(c, u, kind, asked) /\ session # Nil /\ kind \in SharingOps
    BY <1>3 DEF AskShared, SessionOps
  <2>2. members[u].epoch \in Nat /\ members[target].epoch \in Nat
    BY DEF IInv, Types, SharedTypes, Member
  <2>3. asked \in SharedRequest
    BY <2>1, <2>2, SessionShape DEF SharedRequest
  <2>4. [who |-> u, kind |-> kind, pc |-> "asked", asked |-> asked] \in CallState
    BY <2>1, <2>3 DEF CallState
  <2>5. kind = "save" => asked.settings # Nil
    BY OfficeAssumption
  <2> HIDE DEF asked
  <2>6. CallsInv'
    BY <1>1, <2>1, <2>4, <2>5, CallBegins DEF IInv
  <2> QED BY <1>1, <2>6, StepKeeps
<1> QED BY <1>2, <1>3

LEMMA AskSessionKeeps ==
  ASSUME IInv, NEW c \in Calls, AskSession(c) PROVE IInv'
<1>1. inputs \in Contents
  BY DEF IInv, Types, PlaceTypes
<1>2. {"create", "save", "prepare", "generate", "confirm", "invite", "revoke",
       "accept", "decline", "leave"} \subseteq SessionOps
  BY DEF SessionOps, SharingOps
<1> QED BY <1>1, <1>2, AskSharedKeeps DEF AskSession

\* A reader goes on to y.
LEMMA ReaderGoes ==
  ASSUME CallsInv, NEW c \in Calls, calls[c] # Nil, calls[c].kind \notin AdminOps,
         NEW y \in CallState, calls' = [calls EXCEPT ![c] = y],
         y.who = calls[c].who, y.kind = calls[c].kind, y.pc # "asked",
         UNCHANGED accessVars,
         \/ UNCHANGED sessionVars
         \/ session' # Nil /\ (DeskFree \/ HasDesk(c)),
         \A d \in Calls \ {c} : ~Writes(d),
         y.kind \in SessionOps =>
           /\ May(y.who, "exports.view")
           /\ NeedsCreate(y.kind) => May(y.who, "exports.create"),
         Placed(c)', HasDesk(c)' => DeskFree \/ HasDesk(c)
  PROVE  CallsInv'
<1>1. calls'[c] = y /\ y # Nil
  BY NilAssumption DEF CallsInv, CallTypes
<1>2. y.pc # "decided"
  BY DEF CallState, CreationOps, SharingOps
<1>3. ~Writes(c)'
  BY <1>1, <1>2 DEF Writes, At
<1>4. Cleared(c)'
  BY <1>1, <1>3
  DEF Cleared, May, Permissions, Ordinary, Reserved, SessionOps, NeedsCreate, accessVars
<1> QED BY <1>1, <1>3, <1>4, CallMoves

LEMMA EnterSharedKeeps == ASSUME IInv, NEW c \in Calls, EnterShared(c) PROVE IInv'
<1> DEFINE x == calls[c]
           y == [x EXCEPT !.pc = "entered"]
           allowed == /\ May(Who(c), "exports.view")
                      /\ NeedsCreate(x.kind) => May(Who(c), "exports.create")
<1>1. /\ CallsInv /\ CallTypes /\ x # Nil /\ x.kind \in SessionOps /\ Placed(c)
      /\ x.pc = "asked" /\ x.kind \notin AdminOps /\ ~Reads(c)
  BY DEF IInv, CallsInv, EnterShared, At, Reads, SessionOps, SharingOps, AdminOps, AccountOps
<1>2. UNCHANGED <<accessVars, phase, inputs, sessionVars, creationVars, left>>
  BY DEF EnterShared, sharedByOthers
<1>3. \A d \in Calls : ~Writes(d)
  BY <1>1 DEF EnterShared, SharedGranted
<1>4. CASE allowed
  <2>1. /\ calls' = [calls EXCEPT ![c] = y] /\ calls'[c] = y
        /\ y.pc = "entered" /\ y.who = x.who /\ y.kind = x.kind /\ y.asked = x.asked
    BY <1>1, <1>4, CallGoes DEF EnterShared
  <2>2. y \in CallState
    BY <1>1, CallShape
    DEF CallState, AdminOps, AccountOps, SessionOps, SharingOps, CreationOps
  <2>3. ~HasDesk(c)' /\ Placed(c)'
    BY <1>1, <1>2, <2>1, <2>2, NilAssumption DEF Placed, HasDesk, sessionVars
  <2>4. CallsInv'
    <3> HIDE DEF y
    <3> QED BY <1>1, <1>2, <1>3, <1>4, <2>1, <2>2, <2>3, ReaderGoes DEF Who
  <2> QED BY <1>2, <2>4, StepKeeps
<1>5. CASE ~allowed
  <2>1. CallsInv' BY <1>1, <1>2, <1>5, CallEnds DEF EnterShared
  <2> QED BY <1>2, <2>1, StepKeeps
<1> QED BY <1>4, <1>5

\* A creation that is not answered with the session there is.
LEMMA CreateEffect ==
  ASSUME IInv, NEW c \in Calls, Create(c), session = Nil, ~Frozen
  PROVE  /\ session' \in SessionState /\ session'.settings \in Settings
         /\ session'.current = 0 /\ session'.result = Nil /\ attempts' = <<>>
<1> DEFINE s == [owner |-> Who(c), settings |-> calls[c].asked.settings,
                 rev |-> 1, current |-> 0, result |-> Nil]
<1>1. session' = s /\ attempts' = <<>>
  BY DEF Create, IInv, Types, SharedTypes
<1>2. calls[c].who \in Users /\ calls[c].asked.settings \in Settings
  BY CallShape DEF At, Create, IInv, CallsInv
<1>3. s \in SessionState /\ s.settings \in Settings /\ s.current = 0 /\ s.result = Nil
  BY <1>2 DEF SessionState, Who
<1> QED BY <1>1, <1>3

LEMMA CreateKeeps == ASSUME IInv, NEW c \in Calls, Create(c) PROVE IInv'
<1>1. /\ CallsInv /\ CallTypes /\ End(c)
      /\ UNCHANGED <<attempts, members, accessVars, phase, inputs, creationVars, left>>
  BY DEF IInv, CallsInv, Create, sharedByOthers
<1>2. CASE Frozen \/ session # Nil
  <2>1. UNCHANGED sessionVars
    BY <1>1, <1>2 DEF Create, sessionVars
  <2>2. CallsInv'
    BY <1>1, <2>1, CallEnds
  <2> QED BY <1>1, <2>1, <2>2, StepKeeps
<1>3. CASE ~(Frozen \/ session # Nil)
  <2>1. SharedTypes'
    BY <1>1, <1>3, CreateEffect, NilAssumption DEF SharedTypes, IInv, Types
  <2>2. DeskFree
    <3>1. ASSUME NEW d \in Calls, HasDesk(d) PROVE FALSE
      <4>1. calls[d] # Nil /\ calls[d].kind \in SharingOps
        BY <1>1, <3>1, CallShape DEF HasDesk
      <4> QED BY <1>1, <1>3, <4>1 DEF CallsInv, Placed
    <3> QED BY <3>1 DEF DeskFree
  <2>3. CallsInv'
    BY <1>1, <1>3, <2>2, CreateEffect, DeskEnds, NilAssumption
  <2> QED BY <1>1, <2>1, <2>3, StepKeeps
<1> QED BY <1>2, <1>3

\* A save that is not refused.
LEMMA SaveEffect ==
  ASSUME IInv, NEW c \in Calls, Save(c), ~Refuse(c)
  PROVE  /\ session # Nil /\ session.result = Nil /\ DeskFree /\ End(c)
         /\ calls[c].asked.settings \in Settings \ {session.settings}
         /\ session' \in SessionState /\ session'.settings = calls[c].asked.settings
         /\ session'.current = 0 /\ session'.result = Nil
         /\ attempts' = Superseded
         /\ UNCHANGED <<members, accessVars, phase, inputs, creationVars, left>>
<1> DEFINE x == calls[c].asked.settings
           a == [session EXCEPT !.settings = x]
           b == [a EXCEPT !.rev = a.rev + 1]
<1>1. /\ session.result = Nil /\ attempts' = Superseded /\ x # session.settings
      /\ session' = [session EXCEPT !.settings = x, !.rev = @ + 1, !.current = 0]
      /\ End(c) /\ UNCHANGED <<members, accessVars, phase, inputs, creationVars, left>>
  BY DEF Save, sharedByOthers
<1>2. /\ At(c, "entered") /\ DeskFree /\ calls[c].kind = "save"
  BY DEF Save, Locked
<1>3. session # Nil /\ x \in Settings
  <2>1. calls[c].kind \in SessionOps BY <1>2 DEF SessionOps, SharingOps
  <2>2. /\ CallsInv /\ calls[c] # Nil /\ session # Nil
        /\ calls[c].asked \in SharedRequest
    BY <1>2, <2>1, EnteredShape
  <2> QED BY <1>2, <2>2 DEF CallsInv, Placed, SharedRequest
<1>4. /\ a \in SessionState /\ a.settings = x /\ a.rev = session.rev
      /\ a.result = session.result
  BY <1>3, SessionShape DEF SessionState
<1>5. b \in SessionState /\ b.settings = x /\ b.result = session.result
  <2> HIDE DEF a
  <2> QED BY <1>4 DEF SessionState
<1>6. session' = [b EXCEPT !.current = 0]
  BY <1>1
<1> HIDE DEF b
<1>7. /\ session' \in SessionState /\ session'.settings = x
      /\ session'.current = 0 /\ session'.result = Nil
  BY <1>1, <1>5, <1>6 DEF SessionState
<1> QED BY <1>1, <1>2, <1>3, <1>7

LEMMA SaveKeeps == ASSUME IInv, NEW c \in Calls, Save(c) PROVE IInv'
<1>1. CASE Refuse(c)
  BY <1>1, RefuseKeeps
<1>2. CASE ~Refuse(c)
  <2>1. SharedTypes'
    <3>1. /\ Superseded \in Seq(AttemptState) /\ Len(Superseded) = Len(attempts)
          /\ \A i \in DOMAIN attempts : Superseded[i].state = "superseded"
      BY <1>2, SaveEffect, SupersededAll
    <3>2. members' \in [Users -> Member]
      BY <1>2, SaveEffect DEF IInv, Types, SharedTypes
    <3>3. DOMAIN Superseded = DOMAIN attempts /\ DOMAIN attempts \subseteq Nat \ {0}
      BY <3>1 DEF IInv, Types, SharedTypes
    <3>4. 0 \in 0..Len(Superseded)
      BY <3>1
    <3> QED BY <1>2, <3>1, <3>2, <3>3, <3>4, SaveEffect, NilAssumption DEF SharedTypes
  <2>2. CallsInv'
    BY <1>2, SaveEffect, DeskEnds, NilAssumption DEF IInv
  <2> QED BY <1>2, <2>1, <2>2, SaveEffect, StepKeeps
<1> QED BY <1>1, <1>2

\* A call with the session, and what it found out before.
LEMMA DeskShape ==
  ASSUME IInv, NEW c \in Calls, HasDesk(c)
  PROVE  /\ CallsInv /\ CallTypes /\ calls[c] # Nil /\ Placed(c) /\ HasAccess(c)
         /\ calls[c].kind = (IF calls[c].pc = "previewed" THEN "prepare" ELSE "generate")
         /\ calls[c].kind \in SharingOps /\ calls[c].kind \notin AdminOps
         /\ calls[c].asked \in SharedRequest /\ session # Nil
         /\ \A d \in Calls \ {c} : ~Writes(d)
         /\ May(Who(c), "exports.view") /\ May(Who(c), "exports.create")
<1>1. CallsInv /\ CallTypes /\ calls[c] # Nil /\ Cleared(c) /\ Placed(c) /\ Reads(c)
  BY DeskReads DEF IInv, CallsInv, HasDesk
<1>2. calls[c].kind = (IF calls[c].pc = "previewed" THEN "prepare" ELSE "generate")
  BY <1>1 DEF Placed
<1>3. /\ calls[c].kind \in SharingOps /\ calls[c].kind \in SessionOps
      /\ NeedsCreate(calls[c].kind) /\ calls[c].kind \notin AdminOps
  BY <1>2 DEF SharingOps, SessionOps, NeedsCreate, AdminOps, AccountOps
<1> QED BY <1>1, <1>2, <1>3, CallShape DEF Placed, Cleared, CallsInv, OneWriter, Who

LEMMA PreviewKeeps == ASSUME IInv, NEW c \in Calls, Preview(c) PROVE IInv'
<1>1. CASE End(c) /\ UNCHANGED <<sessionVars, sharedByOthers, left>>
  BY <1>1, RefuseKeeps DEF Refuse
<1>2. CASE ~End(c)
  <2>1. /\ Sees(c, "previewed", inputs)
        /\ HasAccess(c) /\ session.result = Nil /\ DeskFree
        /\ At(c, "entered") /\ calls[c].kind = "prepare"
    BY <1>2 DEF Preview, Locked, UpToDate, Sees
  <2>2. UNCHANGED <<accessVars, phase, inputs, sessionVars, creationVars, left>>
    BY DEF Preview, sharedByOthers
  <2>3. /\ calls[c].kind \in SessionOps /\ calls[c].kind \in SharingOps
        /\ calls[c].kind \notin AdminOps /\ NeedsCreate(calls[c].kind)
    BY <2>1 DEF SessionOps, SharingOps, AdminOps, AccountOps, NeedsCreate
  <2>4. /\ CallsInv /\ CallTypes /\ calls[c] # Nil /\ session # Nil
        /\ \A d \in Calls \ {c} : ~Writes(d)
        /\ May(Who(c), "exports.view") /\ May(Who(c), "exports.create")
    BY <2>1, <2>3, EnteredShape
  <2>5. inputs \in Contents /\ inputs # Nil
    BY OfficeAssumption DEF IInv, Types, PlaceTypes
  <2>6. PICK y \in CallState :
          /\ calls' = [calls EXCEPT ![c] = y] /\ calls'[c] = y
          /\ y.who = calls[c].who /\ y.kind = calls[c].kind /\ y.pc = "previewed"
          /\ y.asked.seen = inputs /\ y.asked.epoch = calls[c].asked.epoch
          /\ y.asked.settings = calls[c].asked.settings
    BY <2>1, <2>3, <2>4, <2>5, CallSees
  <2>7. Placed(c)'
    BY <2>1, <2>2, <2>4, <2>5, <2>6
    DEF Placed, HasDesk, HasAccess, Owns, Who, sessionVars
  <2>8. CallsInv'
    BY <2>1, <2>2, <2>3, <2>4, <2>6, <2>7, ReaderGoes DEF Who
  <2> QED BY <2>2, <2>8, StepKeeps
<1> QED BY <1>1, <1>2 DEF Preview

\* An attempt that is prepared.
LEMMA PrepareEffect ==
  ASSUME IInv, NEW c \in Calls, Prepare(c), ~Refuse(c)
  PROVE  /\ session # Nil /\ session.result = Nil /\ HasDesk(c) /\ End(c)
         /\ session' \in SessionState /\ session'.settings = session.settings
         /\ session'.current = Len(attempts') /\ session'.current # 0
         /\ session'.rev = session.rev /\ session'.result = Nil
         /\ attempts' \in Seq(AttemptState)
         /\ \A i \in DOMAIN attempts' \ {Len(attempts')} : attempts'[i].state = "superseded"
         /\ attempts'[Len(attempts')] =
              [rev |-> session.rev, settings |-> session.settings,
               content |-> calls[c].asked.seen, state |-> "prepared"]
         /\ calls[c].asked.seen \in Contents
         /\ UNCHANGED <<members, accessVars, phase, inputs, creationVars, left>>
<1> DEFINE a == [rev |-> session.rev, settings |-> session.settings,
                 content |-> calls[c].asked.seen, state |-> "prepared"]
           n == Len(attempts) + 1
<1>1. /\ attempts' = Append(Superseded, a)
      /\ session' = [session EXCEPT !.current = n]
      /\ End(c) /\ UNCHANGED <<members, accessVars, phase, inputs, creationVars, left>>
  BY DEF Prepare, sharedByOthers
<1>2. HasDesk(c) /\ calls[c].pc = "previewed"
  BY DEF Prepare, At, HasDesk
<1>3. /\ session # Nil /\ session.result = Nil /\ calls[c].asked.seen \in Contents
  BY <1>2, DeskShape DEF Placed, SharedRequest
<1>4. a \in AttemptState
  BY <1>3, SessionShape DEF AttemptState
<1>5. /\ session' \in SessionState /\ session'.current = n
      /\ session'.settings = session.settings /\ session'.rev = session.rev
      /\ session'.result = Nil
  BY <1>1, <1>3, SessionShape DEF SessionState
<1>6. /\ Superseded \in Seq(AttemptState) /\ Len(Superseded) = Len(attempts)
      /\ \A i \in DOMAIN attempts : Superseded[i].state = "superseded"
  BY <1>3, SupersededAll
<1> HIDE DEF a
<1>7. /\ attempts' \in Seq(AttemptState) /\ Len(attempts') = n /\ attempts'[n] = a
      /\ \A i \in DOMAIN attempts' \ {n} : attempts'[i].state = "superseded"
  <2>1. DOMAIN attempts = 1..Len(attempts) /\ DOMAIN Superseded = 1..Len(attempts)
    BY <1>6 DEF IInv, Types, SharedTypes
  <2> QED BY <1>1, <1>4, <1>6, <2>1
<1>8. n # 0
  BY DEF IInv, Types, SharedTypes
<1> QED BY <1>1, <1>2, <1>3, <1>5, <1>7, <1>8 DEF a

LEMMA PrepareKeeps == ASSUME IInv, NEW c \in Calls, Prepare(c) PROVE IInv'
<1>1. CASE Refuse(c)
  BY <1>1, RefuseKeeps
<1>2. CASE ~Refuse(c)
  <2>1. SharedTypes'
    <3>1. members' \in [Users -> Member]
      BY <1>2, PrepareEffect DEF IInv, Types, SharedTypes
    <3> DEFINE n == Len(attempts')
               a == [rev |-> session.rev, settings |-> session.settings,
                     content |-> calls[c].asked.seen, state |-> "prepared"]
    <3>2. /\ session' \in SessionState /\ session'.settings = session.settings
          /\ session'.current = n /\ n # 0
          /\ session'.rev = session.rev /\ session'.result = Nil
          /\ attempts' \in Seq(AttemptState) /\ attempts'[n] = a
          /\ \A i \in DOMAIN attempts' \ {n} : attempts'[i].state = "superseded"
      BY <1>2, PrepareEffect, Zenon
    <3>3. /\ a.state = "prepared" /\ a.rev = session.rev /\ a.settings = session.settings
      OBVIOUS
    <3>4. n \in Nat /\ DOMAIN attempts' = 1..n /\ session' # Nil
      BY <3>2, NilAssumption
    <3>5. n \in 0..n
      BY <3>4
    <3> HIDE DEF a, n
    <3> QED BY <3>1, <3>2, <3>3, <3>4, <3>5 DEF SharedTypes, n
  <2>2. CallsInv'
    BY <1>2, PrepareEffect, DeskEnds, NilAssumption DEF IInv
  <2> QED BY <1>2, <2>1, <2>2, PrepareEffect, StepKeeps
<1> QED BY <1>1, <1>2

\* The state of the current attempt changes.
LEMMA AttemptMarked ==
  ASSUME IInv, session # Nil, session.current # 0, session.result = Nil,
         NEW st \in {"executing", "failed"}, UNCHANGED <<session, members>>,
         attempts' = [attempts EXCEPT ![session.current].state = st]
  PROVE  /\ SharedTypes' /\ Attempt'.state = st /\ Attempt'.content = Attempt.content
         /\ Attempt'.settings = Attempt.settings
<1> DEFINE n == session.current
           a == [attempts[n] EXCEPT !.state = st]
<1>1. n \in DOMAIN attempts /\ attempts[n] \in AttemptState
  BY SessionShape DEF Attempt
<1>2. /\ a \in AttemptState /\ a.state = st /\ a.content = attempts[n].content
      /\ a.settings = attempts[n].settings /\ a.rev = attempts[n].rev
  BY <1>1 DEF AttemptState
<1>3. attempts' = [attempts EXCEPT ![n] = a]
  OBVIOUS
<1> HIDE DEF a
<1>4. /\ attempts' \in Seq(AttemptState) /\ Len(attempts') = Len(attempts)
      /\ DOMAIN attempts' = DOMAIN attempts /\ attempts'[n] = a
      /\ \A i \in DOMAIN attempts \ {n} : attempts'[i] = attempts[i]
  BY <1>1, <1>2, <1>3, SessionShape
<1>5. SharedTypes'
  BY <1>1, <1>2, <1>4 DEF IInv, Types, SharedTypes
<1> QED BY <1>2, <1>4, <1>5 DEF Attempt

LEMMA GenerateKeeps == ASSUME IInv, NEW c \in Calls, Generate(c) PROVE IInv'
<1> DEFINE x == calls[c]
           y == [x EXCEPT !.pc = "capture"]
<1>1. CASE Refuse(c)
  BY <1>1, RefuseKeeps
<1>2. CASE ~Refuse(c)
  <2>1. /\ HasAccess(c) /\ session.current # 0 /\ session.result = Nil
        /\ attempts' = [attempts EXCEPT ![session.current].state = "executing"]
        /\ Goes(c, "capture")
        /\ UNCHANGED <<session, members, accessVars, phase, inputs, creationVars, left>>
    BY <1>2 DEF Generate, UpToDate, sharedByOthers
  <2>2. DeskFree /\ At(c, "entered") /\ x.kind = "generate"
    BY DEF Generate, Locked
  <2>3. /\ x.kind \in SessionOps /\ x.kind \in SharingOps
        /\ x.kind \notin AdminOps /\ NeedsCreate(x.kind)
    BY <2>2 DEF SessionOps, SharingOps, AdminOps, AccountOps, NeedsCreate
  <2>4. /\ CallsInv /\ CallTypes /\ x # Nil /\ session # Nil
        /\ \A d \in Calls \ {c} : ~Writes(d)
        /\ May(Who(c), "exports.view") /\ May(Who(c), "exports.create")
    BY <2>2, <2>3, EnteredShape
  <2>5. SharedTypes' /\ Attempt'.state = "executing"
    BY <2>1, <2>4, AttemptMarked
  <2>6. /\ calls' = [calls EXCEPT ![c] = y] /\ calls'[c] = y
        /\ y.pc = "capture" /\ y.who = x.who /\ y.kind = x.kind /\ y.asked = x.asked
    BY <2>1, <2>4, CallGoes
  <2>7. y \in CallState
    BY <2>3, <2>4, CallShape
    DEF CallState, AdminOps, AccountOps, SharingOps, CreationOps
  <2> HIDE DEF y
  <2>8. Placed(c)'
    BY <2>1, <2>2, <2>4, <2>5, <2>6 DEF Placed, HasDesk, HasAccess, Owns, Who
  <2>9. CallsInv'
    BY <2>1, <2>2, <2>3, <2>4, <2>6, <2>7, <2>8, ReaderGoes DEF Who
  <2> QED BY <2>1, <2>5, <2>9, StepKeeps
<1> QED BY <1>1, <1>2

LEMMA CaptureKeeps == ASSUME IInv, NEW c \in Calls, Capture(c) PROVE IInv'
<1> DEFINE x == calls[c]
<1>1. HasDesk(c) /\ x.pc = "capture"
  BY DEF Capture, At, HasDesk
<1>2. /\ CallsInv /\ CallTypes /\ x # Nil /\ Placed(c) /\ HasAccess(c)
      /\ x.kind = "generate" /\ x.kind \in SharingOps /\ x.kind \notin AdminOps
      /\ session # Nil /\ \A d \in Calls \ {c} : ~Writes(d)
      /\ May(Who(c), "exports.view") /\ May(Who(c), "exports.create")
  BY <1>1, DeskShape
<1>3. UNCHANGED left \/ Spend("fault")
  BY DEF Capture
<1>4. UNCHANGED <<accessVars, phase, inputs, sessionVars, creationVars>>
  BY DEF Capture, sharedByOthers
<1>5. ASSUME Goes(c, "recheck") PROVE IInv'
  <2> DEFINE y == [x EXCEPT !.pc = "recheck"]
  <2>1. /\ calls' = [calls EXCEPT ![c] = y] /\ calls'[c] = y
        /\ y.pc = "recheck" /\ y.who = x.who /\ y.kind = x.kind /\ y.asked = x.asked
    BY <1>2, <1>5, CallGoes
  <2>2. y \in CallState
    BY <1>2, CallShape DEF CallState, AdminOps, AccountOps, SharingOps, CreationOps
  <2> HIDE DEF y
  <2>3. Placed(c)'
    BY <1>1, <1>2, <1>4, <2>1 DEF Placed, HasDesk, HasAccess, Owns, Who, sessionVars
  <2>4. CallsInv'
    BY <1>1, <1>2, <1>4, <2>1, <2>2, <2>3, ReaderGoes DEF Who
  <2> QED BY <1>3, <1>4, <2>4, StepKeeps DEF Kinds
<1>6. ASSUME StillReviewed, Sees(c, "commit", inputs) PROVE IInv'
  <2>1. inputs \in Contents
    BY DEF IInv, Types, PlaceTypes
  <2>2. PICK y \in CallState :
          /\ calls' = [calls EXCEPT ![c] = y] /\ calls'[c] = y
          /\ y.who = x.who /\ y.kind = x.kind /\ y.pc = "commit"
          /\ y.asked.seen = inputs /\ y.asked.epoch = x.asked.epoch
          /\ y.asked.settings = x.asked.settings
    BY <1>2, <1>6, <2>1, CallSees
  <2>3. Placed(c)'
    BY <1>1, <1>2, <1>4, <1>6, <2>2
    DEF Placed, HasDesk, HasAccess, Owns, Who, Attempt, StillReviewed, sessionVars
  <2>4. CallsInv'
    BY <1>1, <1>2, <1>4, <2>2, <2>3, ReaderGoes DEF Who
  <2> QED BY <1>3, <1>4, <2>4, StepKeeps DEF Kinds
<1> QED BY <1>5, <1>6 DEF Capture, Sees

\* The result, its attempt and the session are committed together.
LEMMA PublishTypes ==
  ASSUME IInv, NEW c \in Calls, At(c, "commit"), Publish(c), UNCHANGED members
  PROVE  /\ SharedTypes' /\ session' \in SessionState
         /\ session'.current = session.current /\ session'.current # 0
         /\ session'.owner = session.owner /\ session'.settings = session.settings
         /\ session'.result \in ResultState
         /\ session'.result.settings = Attempt.settings
         /\ session'.result.content = Attempt.content
         /\ session'.result.confirmed = FALSE
         /\ Attempt'.content = Attempt.content /\ Attempt'.settings = Attempt.settings
<1> DEFINE n == session.current
           a == [attempts[n] EXCEPT !.state = "succeeded"]
           r == [attempt |-> n, settings |-> Attempt.settings,
                 content |-> calls[c].asked.seen, confirmed |-> FALSE]
<1>1. HasDesk(c)
  BY DEF At, HasDesk
<1>2. /\ session # Nil /\ session.result = Nil /\ n # 0
      /\ calls[c].asked.seen = Attempt.content
  BY <1>1, DeskShape DEF Placed, At
<1>3. n \in DOMAIN attempts /\ attempts[n] \in AttemptState /\ n \in Nat
  BY <1>2, SessionShape DEF Attempt
<1>4. /\ a \in AttemptState /\ a.state = "succeeded" /\ a.rev = attempts[n].rev
      /\ a.settings = attempts[n].settings /\ a.content = attempts[n].content
  BY <1>3 DEF AttemptState
<1>5. r \in ResultState /\ r.settings = Attempt.settings /\ r.content = Attempt.content
      /\ r.confirmed = FALSE
  BY <1>2, <1>3 DEF AttemptState, ResultState, Attempt
<1>6. attempts' = [attempts EXCEPT ![n] = a] /\ session' = [session EXCEPT !.result = r]
  BY DEF Publish
<1> HIDE DEF a, r
<1>7. /\ session' \in SessionState /\ session'.current = n /\ session'.owner = session.owner
      /\ session'.settings = session.settings /\ session'.rev = session.rev
      /\ session'.result = r
  BY <1>2, <1>5, <1>6, SessionShape DEF SessionState
<1>8. /\ attempts' \in Seq(AttemptState) /\ Len(attempts') = Len(attempts)
      /\ DOMAIN attempts' = DOMAIN attempts /\ attempts'[n] = a
      /\ \A i \in DOMAIN attempts \ {n} : attempts'[i] = attempts[i]
  BY <1>2, <1>3, <1>4, <1>6, SessionShape
<1>9. SharedTypes'
  <2>1. session' # Nil /\ session'.result # Nil
    BY <1>5, <1>7, NilAssumption
  <2>2. /\ members' \in [Users -> Member] /\ n \in 0..Len(attempts)
        /\ \A i \in DOMAIN attempts :
             /\ i # n => attempts[i].state = "superseded"
             /\ i = n => /\ attempts[i].rev = session.rev
                         /\ attempts[i].settings = session.settings
    BY <1>2 DEF IInv, Types, SharedTypes
  <2> QED BY <1>2, <1>4, <1>7, <1>8, <2>1, <2>2 DEF SharedTypes
<1> QED BY <1>2, <1>4, <1>5, <1>7, <1>8, <1>9 DEF Attempt

LEMMA CommitCaptureKeeps ==
  ASSUME IInv, NEW c \in Calls, CommitCapture(c) PROVE IInv'
<1> DEFINE x == calls[c]
           y == [x EXCEPT !.pc = "recheck"]
<1>1. At(c, "commit") /\ HasDesk(c) /\ x.pc = "commit"
  BY DEF CommitCapture, At, HasDesk
<1>2. /\ CallsInv /\ CallTypes /\ x # Nil /\ Placed(c) /\ HasAccess(c)
      /\ x.kind = "generate" /\ x.kind \in SharingOps /\ x.kind \notin AdminOps
      /\ session # Nil /\ \A d \in Calls \ {c} : ~Writes(d)
      /\ May(Who(c), "exports.view") /\ May(Who(c), "exports.create")
  BY <1>1, DeskShape
<1>3. UNCHANGED <<members, accessVars, phase, inputs, creationVars>>
  BY DEF CommitCapture, sharedByOthers
<1>4. UNCHANGED left \/ Spend("fault")
  BY DEF CommitCapture
<1>5. CASE Publish(c) /\ End(c)
  <2>1. SharedTypes' /\ session' # Nil
    BY <1>1, <1>3, <1>5, PublishTypes, NilAssumption
  <2>2. CallsInv'
    BY <1>1, <1>2, <1>3, <1>5, <2>1, DeskEnds
  <2> QED BY <1>3, <1>4, <2>1, <2>2, StepKeeps DEF Kinds
<1>6. ASSUME Goes(c, "recheck"), Publish(c) \/ UNCHANGED <<session, attempts>>
      PROVE  IInv'
  <2>1. /\ calls' = [calls EXCEPT ![c] = y] /\ calls'[c] = y
        /\ y.pc = "recheck" /\ y.who = x.who /\ y.kind = x.kind /\ y.asked = x.asked
    BY <1>2, <1>6, CallGoes
  <2>2. y \in CallState
    BY <1>2, CallShape DEF CallState, AdminOps, AccountOps, SharingOps, CreationOps
  <2>3. /\ SharedTypes' /\ session' # Nil /\ session'.current # 0
        /\ session'.owner = session.owner
    <3>1. CASE Publish(c)
      BY <1>1, <1>3, <3>1, PublishTypes, NilAssumption
    <3>2. CASE UNCHANGED <<session, attempts>>
      <4>1. SharedTypes' BY <1>3, <3>2, SharedKept DEF IInv, Types, sessionVars
      <4> QED BY <1>1, <1>2, <3>2, <4>1 DEF Placed
    <3> QED BY <1>6, <3>1, <3>2
  <2> HIDE DEF y
  <2>4. Placed(c)'
    BY <1>1, <1>2, <1>3, <2>1, <2>3 DEF Placed, HasDesk, HasAccess, Owns, Who
  <2>5. CallsInv'
    BY <1>1, <1>2, <1>3, <2>1, <2>2, <2>3, <2>4, ReaderGoes DEF Who
  <2> QED BY <1>3, <1>4, <2>3, <2>5, StepKeeps DEF Kinds
<1> QED BY <1>5, <1>6 DEF CommitCapture

LEMMA RecheckKeeps == ASSUME IInv, NEW c \in Calls, Recheck(c) PROVE IInv'
<1>1. At(c, "recheck") /\ HasDesk(c)
  BY DEF Recheck, At, HasDesk
<1>2. CallsInv /\ session # Nil /\ session.current # 0
  BY <1>1, DeskShape DEF Placed, At
<1>3. /\ UNCHANGED <<session, members, accessVars, phase, inputs, creationVars, left>>
      /\ End(c)
  BY DEF Recheck, sharedByOthers
<1>4. SharedTypes'
  <2>1. CASE UNCHANGED attempts
    BY <1>3, <2>1, SharedKept DEF IInv, Types, sessionVars
  <2>2. CASE ~UNCHANGED attempts
    <3>1. /\ session.result = Nil
          /\ attempts' = [attempts EXCEPT ![session.current].state = "failed"]
      BY <2>2 DEF Recheck
    <3> QED BY <1>2, <1>3, <3>1, AttemptMarked
  <2> QED BY <2>1, <2>2
<1>5. CallsInv'
  BY <1>1, <1>2, <1>3, DeskEnds
<1> QED BY <1>3, <1>4, <1>5, StepKeeps

\* A confirmation that is not refused.
LEMMA ConfirmEffect ==
  ASSUME IInv, NEW c \in Calls, Confirm(c), ~Refuse(c)
  PROVE  /\ session # Nil /\ session.result # Nil /\ DeskFree /\ End(c)
         /\ session' \in SessionState /\ session'.settings = session.settings
         /\ session'.current = session.current /\ session'.rev = session.rev
         /\ session'.result \in ResultState /\ session'.result.confirmed = TRUE
         /\ session'.result.settings = session.result.settings
         /\ session'.result.content = session.result.content
         /\ UNCHANGED <<attempts, members, accessVars, phase, inputs, creationVars, left>>
<1> DEFINE r == [session.result EXCEPT !.confirmed = TRUE]
<1>1. /\ session.result # Nil /\ session' = [session EXCEPT !.result = r] /\ End(c)
      /\ UNCHANGED <<attempts, members, accessVars, phase, inputs, creationVars, left>>
  BY DEF Confirm, sharedByOthers
<1>2. session # Nil /\ DeskFree
  <2>1. calls[c].kind \in SessionOps /\ calls[c].kind # "create"
    BY DEF Confirm, Locked, SessionOps, SharingOps
  <2> QED BY <2>1, EnteredShape DEF Confirm, Locked
<1>3. /\ r \in ResultState /\ r.confirmed = TRUE /\ r.settings = session.result.settings
      /\ r.content = session.result.content
  BY <1>1, <1>2, SessionShape DEF ResultState
<1> HIDE DEF r
<1>4. /\ session' \in SessionState /\ session'.current = session.current
      /\ session'.settings = session.settings /\ session'.rev = session.rev
      /\ session'.result = r
  BY <1>1, <1>2, <1>3, SessionShape DEF SessionState
<1> QED BY <1>1, <1>2, <1>3, <1>4

LEMMA ConfirmKeeps == ASSUME IInv, NEW c \in Calls, Confirm(c) PROVE IInv'
<1>1. CASE Refuse(c)
  BY <1>1, RefuseKeeps
<1>2. CASE ~Refuse(c)
  <2>1. SharedTypes'
    BY <1>2, ConfirmEffect, NilAssumption DEF IInv, Types, SharedTypes
  <2>2. CallsInv'
    BY <1>2, ConfirmEffect, DeskEnds, NilAssumption DEF IInv
  <2> QED BY <1>2, <2>1, <2>2, ConfirmEffect, StepKeeps
<1> QED BY <1>1, <1>2

\* A membership changes while nobody has the session.
LEMMA MemberKeeps ==
  ASSUME IInv, NEW c \in Calls, At(c, "entered"), DeskFree,
         calls[c].kind \in SessionOps, calls[c].kind # "create", NEW t \in Users,
         NEW state \in {"pending", "accepted", "declined", "left", "revoked"},
         members' = [members EXCEPT ![t] = Changed(members[t], state)], End(c),
         UNCHANGED <<session, attempts, accessVars, phase, inputs, creationVars, left>>
  PROVE  IInv'
<1>1. members[t].epoch \in Nat
  BY DEF IInv, Types, SharedTypes, Member
<1>2. Changed(members[t], state) \in Member
  BY <1>1 DEF Changed, Member
<1>3. SharedTypes'
  BY <1>2 DEF IInv, Types, SharedTypes
<1>4. CallsInv'
  BY EnteredShape, DeskEnds
<1> QED BY <1>3, <1>4, StepKeeps

LEMMA InviteKeeps == ASSUME IInv, NEW c \in Calls, Invite(c) PROVE IInv'
<1>1. CASE Refuse(c)
  BY <1>1, RefuseKeeps
<1>2. CASE ~Refuse(c)
  <2>1. /\ At(c, "entered") /\ DeskFree /\ calls[c].kind \in SessionOps
        /\ calls[c].kind # "create"
    BY DEF Invite, Locked, SessionOps, SharingOps
  <2>2. calls[c].asked.target \in Users
    BY <2>1, EnteredShape DEF SharedRequest
  <2> QED
    BY <1>2, <2>1, <2>2, MemberKeeps DEF Invite, sharedByOthers
<1> QED BY <1>1, <1>2

LEMMA MembershipKeeps == ASSUME IInv, NEW c \in Calls, Membership(c) PROVE IInv'
<1>1. CASE Refuse(c)
  BY <1>1, RefuseKeeps
<1>2. CASE ~Refuse(c)
  <2>1. PICK kind \in {"accept", "decline", "leave", "revoke"} :
          /\ Locked(c, kind)
          /\ LET t == IF kind = "revoke" THEN calls[c].asked.target ELSE Who(c)
             IN  /\ members' = [members EXCEPT ![t] = Changed(members[t], NextState(kind))]
                 /\ End(c) /\ UNCHANGED <<session, attempts, sharedByOthers, left>>
    BY <1>2 DEF Membership
  <2>2. /\ At(c, "entered") /\ DeskFree /\ calls[c].kind \in SessionOps
        /\ calls[c].kind # "create"
    BY <2>1 DEF Locked, SessionOps, SharingOps
  <2>3. calls[c].asked.target \in Users /\ Who(c) \in Users
    BY <2>2, EnteredShape, CallShape DEF SharedRequest, Who
  <2>4. NextState(kind) \in {"pending", "accepted", "declined", "left", "revoked"}
    BY DEF NextState
  <2> QED
    BY <2>1, <2>2, <2>3, <2>4, MemberKeeps DEF sharedByOthers
<1> QED BY <1>1, <1>2

LEMMA SessionStepKeeps ==
  ASSUME IInv, NEW c \in Calls, SessionStep(c) PROVE IInv'
BY EnterSharedKeeps, CreateKeeps, SaveKeeps, PreviewKeeps, PrepareKeeps, GenerateKeeps,
   CaptureKeeps, CommitCaptureKeeps, RecheckKeeps, ConfirmKeeps, InviteKeeps,
   MembershipKeeps DEF SessionStep

-----------------------------------------------------------------------------
(* Product creation.                                                       *)

LEMMA AskCreateKeeps == ASSUME IInv, NEW c \in Calls, AskCreate(c) PROVE IInv'
<1>0. PICK u \in Users, k \in Keys, g \in Goods, kind \in CreationOps :
        \E article \in {0, errands[<<u, k>>].article} :
          AskCreation(c, u, k, kind, g, article)
  BY DEF AskCreate
<1>1. PICK article \in {0, errands[<<u, k>>].article} :
        AskCreation(c, u, k, kind, g, article)
  BY <1>0
<1> DEFINE asked == [key |-> k, goods |-> g, article |-> article, token |-> inputs]
<1>2. <<u, k>> \in Errands
  BY DEF Errands
<1>3. article \in Nat /\ inputs \in Contents
  BY <1>2 DEF IInv, Types, PlaceTypes, CreationTypes, ErrandState
<1>4. [who |-> u, kind |-> kind, pc |-> "asked", asked |-> asked] \in CallState
  BY <1>3 DEF CallState, CreationRequest
<1>5. kind \in Kinds /\ kind \notin SharingOps /\ kind # "save"
  BY DEF Kinds, CreationOps, SharingOps
<1>6. /\ Spend(kind) /\ Begin(c, u, kind, asked)
      /\ UNCHANGED <<accessVars, phase, inputs, sessionVars, creationVars>>
  BY <1>1 DEF AskCreation, creationByOthers
<1> HIDE DEF asked
<1>7. CallsInv'
  BY <1>4, <1>5, <1>6, CallBegins DEF IInv
<1> QED BY <1>5, <1>6, <1>7, StepKeeps

LEMMA EnterCreationKeeps ==
  ASSUME IInv, NEW c \in Calls, EnterCreation(c) PROVE IInv'
<1> DEFINE x == calls[c]
           y == [x EXCEPT !.pc = "entered"]
<1>1. /\ CallsInv /\ CallTypes /\ x # Nil /\ x.kind \in CreationOps /\ Placed(c)
      /\ x.pc = "asked" /\ ~Reads(c)
  BY DEF IInv, CallsInv, EnterCreation, At, Reads
<1>2. UNCHANGED <<accessVars, phase, inputs, sessionVars, creationVars, left>>
  BY DEF EnterCreation, creationByOthers
<1>3. x.kind \notin AdminOps /\ x.kind \notin SessionOps /\ x.kind \notin SharingOps
  BY <1>1 DEF CreationOps, SessionOps, SharingOps, AdminOps, AccountOps
<1>4. \A d \in Calls : ~Writes(d)
  BY <1>1 DEF EnterCreation, SharedGranted
<1>5. /\ calls' = [calls EXCEPT ![c] = y] /\ calls'[c] = y
      /\ y.pc = "entered" /\ y.who = x.who /\ y.kind = x.kind /\ y.asked = x.asked
  BY <1>1, CallGoes DEF EnterCreation
<1>6. y \in CallState
  BY <1>1, CallShape DEF CallState, AdminOps, AccountOps, SharingOps, CreationOps
<1> HIDE DEF y
<1>7. ~HasDesk(c)' /\ Placed(c)'
  BY <1>1, <1>3, <1>5, NilAssumption
  DEF Placed, HasDesk, SharingOps, CreationOps
<1>8. CallsInv'
  BY <1>1, <1>2, <1>3, <1>4, <1>5, <1>6, <1>7, ReaderGoes
<1> QED BY <1>2, <1>8, StepKeeps

\* A creation command and its attempt.
LEMMA CreationShape ==
  ASSUME IInv, NEW c \in Calls, NEW kind \in CreationOps, Transacts(c, kind)
  PROVE  /\ calls[c] # Nil /\ calls[c].asked \in CreationRequest
         /\ Errand(c) \in Errands /\ RowOf(c) \in ErrandState
         /\ articles \in Nat /\ stock \in Seq(Product)
<1>1. CallTypes /\ calls[c] # Nil /\ calls[c].kind \in CreationOps
  BY DEF IInv, Types, Transacts, At
<1>2. calls[c].asked \in CreationRequest /\ calls[c].who \in Users
  BY <1>1, CallShape
<1>3. Errand(c) \in Errands
  BY <1>2 DEF CreationRequest, Errand, Errands, Who
<1> QED BY <1>1, <1>2, <1>3 DEF IInv, Types, CreationTypes, RowOf

\* The end of a creation command.
LEMMA CreationEnds ==
  ASSUME IInv, NEW c \in Calls, End(c), UNCHANGED <<creationByOthers, left>>,
         (UNCHANGED creationVars) \/ CreationTypes'
  PROVE  IInv'
<1>1. CallsInv'
  BY CallEnds DEF IInv, creationByOthers
<1> QED BY <1>1, StepKeeps DEF creationByOthers

\* An attempt that has no receipt changes.
LEMMA ErrandChanged ==
  ASSUME CreationTypes, NEW e \in Errands, errands[e].receipt = Nil,
         NEW row \in ErrandState, row.receipt = Nil, row.state # "consumed",
         errands' = [errands EXCEPT ![e] = row], articles' \in Nat, UNCHANGED stock
  PROVE  CreationTypes'
BY DEF CreationTypes

\* A refused transaction changes no attempt and no product.
LEMMA RefusedKeeps ==
  ASSUME CreationTypes, Refused(TRUE)
  PROVE  CreationTypes'
BY DEF CreationTypes, Refused

\* A preview that reserves the article of its attempt.
LEMMA ReserveEffect ==
  ASSUME IInv, NEW c \in Calls, Reserve(c), ~Refused(TRUE)
  PROVE  /\ Errand(c) \in Errands /\ articles' = articles + 1 /\ articles' \in Nat
         /\ UNCHANGED stock /\ Admitted(c)
         /\ errands[Errand(c)].receipt = Nil /\ errands[Errand(c)].state = "none"
         /\ \E row \in ErrandState :
              /\ row.state = "reserved" /\ row.receipt = Nil /\ row.article = articles + 1
              /\ errands' = [errands EXCEPT ![Errand(c)] = row]
<1> DEFINE e == Errand(c)
           g == calls[c].asked.goods.category
           r1 == [errands[e] EXCEPT !.state = "reserved"]
           r2 == [r1 EXCEPT !.article = articles + 1]
           row == [r2 EXCEPT !.category = g]
<1>1. /\ articles' = articles + 1 /\ UNCHANGED stock /\ Reservable(c) /\ Admitted(c)
      /\ errands' = [errands EXCEPT ![e] = row] /\ RowOf(c).state = "none"
      /\ Transacts(c, "reserve")
  BY DEF Reserve, Refused
<1>2. /\ calls[c].asked.goods \in Goods /\ e \in Errands /\ errands[e] \in ErrandState
      /\ articles \in Nat /\ RowOf(c) = errands[e]
  BY <1>1, CreationShape DEF CreationRequest, RowOf, CreationOps
<1>3. errands[e].receipt = Nil
  BY <1>1 DEF Reservable, RowOf
<1>4. r1 \in ErrandState /\ r1.state = "reserved" /\ r1.receipt = Nil
  BY <1>2, <1>3 DEF ErrandState
<1>5. /\ r2 \in ErrandState /\ r2.state = "reserved" /\ r2.receipt = Nil
      /\ r2.article = articles + 1
  <2> HIDE DEF r1
  <2> QED BY <1>2, <1>4 DEF ErrandState
<1>6. /\ row \in ErrandState /\ row.state = "reserved" /\ row.receipt = Nil
      /\ row.article = articles + 1
  <2> HIDE DEF r2
  <2> QED BY <1>2, <1>5 DEF ErrandState
<1>7. articles' \in Nat
  BY <1>1, <1>2
<1> HIDE DEF row
<1> QED BY <1>1, <1>2, <1>3, <1>6, <1>7

LEMMA ReserveKeeps == ASSUME IInv, NEW c \in Calls, Reserve(c) PROVE IInv'
<1>1. End(c) /\ UNCHANGED <<creationByOthers, left>>
  BY DEF Reserve
<1>2. CASE Refused(TRUE)
  BY <1>1, <1>2, RefusedKeeps, CreationEnds DEF IInv, Types
<1>3. CASE ~Refused(TRUE)
  <2>1. PICK row \in ErrandState :
          /\ row.state = "reserved" /\ row.receipt = Nil
          /\ errands' = [errands EXCEPT ![Errand(c)] = row]
    BY <1>3, ReserveEffect
  <2>2. /\ Errand(c) \in Errands /\ articles' \in Nat /\ UNCHANGED stock
        /\ errands[Errand(c)].receipt = Nil
    BY <1>3, ReserveEffect
  <2>3. row.state # "consumed"
    BY <2>1
  <2>4. CreationTypes'
    BY <2>1, <2>2, <2>3, ErrandChanged DEF IInv, Types
  <2> QED BY <1>1, <2>4, CreationEnds
<1> QED BY <1>2, <1>3

\* A save that makes a product.
LEMMA SellEffect ==
  ASSUME IInv, NEW c \in Calls, Sell(c), ~Refused(TRUE)
  PROVE  \E row \in ErrandState, p \in Product :
           /\ Admitted(c) /\ Errand(c) \in Errands
           /\ errands[Errand(c)].receipt = Nil
           /\ errands' = [errands EXCEPT ![Errand(c)] = row]
           /\ row.state \in {"none", "consumed"} /\ row.receipt # Nil
           /\ row.receipt.product = Len(stock) + 1
           /\ stock' = Append(stock, p)
           /\ p = [by |-> Errand(c), article |-> p.article, goods |-> p.goods]
           /\ \/ /\ errands[Errand(c)].state = "none"
                 /\ articles' = articles + 1 /\ p.article = articles + 1
              \/ /\ errands[Errand(c)].state = "reserved"
                 /\ articles' = articles /\ p.article = errands[Errand(c)].article
<1> DEFINE a == calls[c].asked
           e == Errand(c)
           own == IF a.article = 0 THEN articles + 1 ELSE RowOf(c).article
           n == Len(stock) + 1
           p == [by |-> e, article |-> own, goods |-> a.goods]
           s == IF RowOf(c).state = "reserved" THEN "consumed" ELSE RowOf(c).state
           r1 == [errands[e] EXCEPT !.state = s]
           row == [r1 EXCEPT !.receipt = [asked |-> a, product |-> n]]
<1>1. /\ articles' = IF a.article = 0 THEN articles + 1 ELSE articles
      /\ stock' = Append(stock, p) /\ Saleable(c) /\ Admitted(c)
      /\ errands' = [errands EXCEPT ![e] = row] /\ Transacts(c, "sell")
  BY DEF Sell, Refused
<1>2. /\ a \in CreationRequest /\ a.goods \in Goods /\ e \in Errands
      /\ errands[e] \in ErrandState /\ RowOf(c) = errands[e]
      /\ articles \in Nat /\ stock \in Seq(Product)
  BY <1>1, CreationShape DEF CreationRequest, RowOf, CreationOps
<1>3. own \in Nat /\ n \in Nat
  BY <1>2 DEF ErrandState
<1>4. /\ p \in Product /\ p.article = own
      /\ p = [by |-> e, article |-> p.article, goods |-> p.goods]
  BY <1>2, <1>3 DEF Product
<1>5. [asked |-> a, product |-> n] \in Receipt
  BY <1>2, <1>3 DEF Receipt
<1>6. /\ errands[e].receipt = Nil
      /\ IF a.article = 0 THEN errands[e].state = "none" ELSE errands[e].state = "reserved"
  BY <1>1, <1>2 DEF Saleable
<1>7. r1 \in ErrandState /\ r1.state \in {"none", "consumed"}
  BY <1>2, <1>6 DEF ErrandState
<1>8. /\ row \in ErrandState /\ row.state \in {"none", "consumed"}
      /\ row.receipt # Nil /\ row.receipt.product = n
  <2> HIDE DEF r1
  <2>1. Nil \notin Receipt BY NilAssumption
  <2> QED BY <1>5, <1>7, <2>1 DEF ErrandState
<1>9. \/ /\ errands[e].state = "none"
         /\ articles' = articles + 1 /\ p.article = articles + 1
      \/ /\ errands[e].state = "reserved"
         /\ articles' = articles /\ p.article = errands[e].article
  BY <1>1, <1>2, <1>4, <1>6
<1> HIDE DEF row, p
<1> QED BY <1>1, <1>2, <1>4, <1>6, <1>8, <1>9

LEMMA SellKeeps == ASSUME IInv, NEW c \in Calls, Sell(c) PROVE IInv'
<1>1. End(c) /\ UNCHANGED <<creationByOthers, left>>
  BY DEF Sell
<1>2. CASE Refused(TRUE)
  BY <1>1, <1>2, RefusedKeeps, CreationEnds DEF IInv, Types
<1>3. CASE ~Refused(TRUE)
  <2> DEFINE e == Errand(c)
             n == Len(stock) + 1
  <2>1. PICK row \in ErrandState, p \in Product :
          /\ e \in Errands /\ errands' = [errands EXCEPT ![e] = row]
          /\ row.state \in {"none", "consumed"} /\ row.receipt # Nil
          /\ row.receipt.product = n
          /\ stock' = Append(stock, p)
          /\ p = [by |-> e, article |-> p.article, goods |-> p.goods]
          /\ articles' \in {articles, articles + 1}
    BY <1>3, SellEffect
  <2>2. p.by = e /\ articles' \in Nat /\ stock \in Seq(Product)
    BY <2>1 DEF IInv, Types, CreationTypes
  <2>3. /\ stock' \in Seq(Product) /\ Len(stock') = n /\ stock'[n] = p /\ n \in DOMAIN stock'
        /\ \A i \in DOMAIN stock : i \in DOMAIN stock' /\ stock'[i] = stock[i]
    BY <2>1, <2>2
  <2>4. /\ errands' \in [Errands -> ErrandState] /\ errands'[e] = row
        /\ \A d \in Errands \ {e} : errands'[d] = errands[d]
    BY <2>1 DEF IInv, Types, CreationTypes
  <2>5. CreationTypes'
    BY <2>1, <2>2, <2>3, <2>4 DEF IInv, Types, CreationTypes
  <2> QED BY <1>1, <2>5, CreationEnds
<1> QED BY <1>2, <1>3

\* A cancellation that closes its attempt.
LEMMA CancelEffect ==
  ASSUME IInv, NEW c \in Calls, Cancel(c), ~UNCHANGED errands
  PROVE  /\ Errand(c) \in Errands /\ UNCHANGED <<articles, stock>> /\ Admitted(c)
         /\ errands[Errand(c)].receipt = Nil
         /\ errands[Errand(c)].state \in {"none", "reserved"}
         /\ \E row \in ErrandState :
              /\ row.state = "cancelled" /\ row.receipt = Nil
              /\ row.article = errands[Errand(c)].article
              /\ errands' = [errands EXCEPT ![Errand(c)] = row]
<1> DEFINE e == Errand(c)
           g == IF RowOf(c).category = Nil THEN calls[c].asked.goods.category
                ELSE RowOf(c).category
           r1 == [errands[e] EXCEPT !.state = "cancelled"]
           row == [r1 EXCEPT !.category = g]
<1>1. /\ RowOf(c).receipt = Nil /\ RowOf(c).state \in {"none", "reserved"}
      /\ errands' = [errands EXCEPT ![e] = row] /\ Admitted(c)
      /\ UNCHANGED <<articles, stock>> /\ Transacts(c, "cancel")
  BY DEF Cancel
<1>2. /\ calls[c].asked.goods \in Goods /\ e \in Errands /\ errands[e] \in ErrandState
      /\ RowOf(c) = errands[e]
  BY <1>1, CreationShape DEF CreationRequest, RowOf, CreationOps
<1>3. /\ r1 \in ErrandState /\ r1.state = "cancelled" /\ r1.receipt = Nil
      /\ r1.article = errands[e].article
  BY <1>1, <1>2 DEF ErrandState
<1>4. /\ row \in ErrandState /\ row.state = "cancelled" /\ row.receipt = Nil
      /\ row.article = errands[e].article
  <2>1. g \in {h.category : h \in Goods} \cup {Nil}
    BY <1>2 DEF ErrandState
  <2> HIDE DEF r1, g
  <2> QED BY <1>3, <2>1 DEF ErrandState
<1> HIDE DEF row
<1> QED BY <1>1, <1>2, <1>4

LEMMA CancelKeeps == ASSUME IInv, NEW c \in Calls, Cancel(c) PROVE IInv'
<1>1. End(c) /\ UNCHANGED <<articles, stock, creationByOthers, left>>
  BY DEF Cancel
<1>2. CASE UNCHANGED errands
  BY <1>1, <1>2, CreationEnds DEF creationVars
<1>3. CASE ~UNCHANGED errands
  <2>1. PICK row \in ErrandState :
          /\ row.state = "cancelled" /\ row.receipt = Nil
          /\ errands' = [errands EXCEPT ![Errand(c)] = row]
    BY <1>3, CancelEffect
  <2>2. /\ Errand(c) \in Errands /\ errands[Errand(c)].receipt = Nil
        /\ articles' \in Nat /\ UNCHANGED stock
    BY <1>1, <1>3, CancelEffect DEF IInv, Types, CreationTypes
  <2>3. row.state # "consumed"
    BY <2>1
  <2>4. CreationTypes'
    BY <2>1, <2>2, <2>3, ErrandChanged DEF IInv, Types
  <2> QED BY <1>1, <2>4, CreationEnds
<1> QED BY <1>2, <1>3

LEMMA CreationStepKeeps ==
  ASSUME IInv, NEW c \in Calls, CreationStep(c) PROVE IInv'
BY EnterCreationKeeps, ReserveKeeps, SellKeeps, CancelKeeps DEF CreationStep

-----------------------------------------------------------------------------
(* The rest of the office.                                                 *)

LEMMA CallsKept ==
  ASSUME CallsInv, UNCHANGED <<calls, accessVars, sessionVars>> PROVE CallsInv'
<1>1. CallTypes' /\ OneWriter' /\ OneAtDesk'
  BY DEF CallsInv, CallTypes, OneWriter, OneAtDesk, Reads, Writes, HasDesk, At
<1>2. ASSUME NEW c \in Calls, calls'[c] # Nil PROVE Cleared(c)' /\ Placed(c)'
  <2>1. Cleared(c) /\ Placed(c) /\ calls'[c] = calls[c]
    BY <1>2 DEF CallsInv
  <2>2. Cleared(c)'
    BY <2>1
    DEF Cleared, May, Permissions, Ordinary, Reserved, SessionOps, NeedsCreate,
        Allowed, ApproveAllowed, RoleAllowed, DisableAllowed, EnableAllowed,
        DutiesAllowed, Removable, Holders, Active, IsAdministrator, Reads, Writes, At,
        accessVars
  <2>3. Placed(c)'
    BY <2>1 DEF Placed, HasDesk, HasAccess, Owns, Who, Attempt, sessionVars
  <2> QED BY <2>2, <2>3
<1> QED BY <1>1, <1>2 DEF CallsInv

LEMMA ChangeKeeps == ASSUME IInv, NEW x \in Contents, Change(x) PROVE IInv'
<1>1. CallsInv'
  BY CallsKept DEF IInv, Change
<1> QED BY <1>1, StepKeeps DEF Change, Kinds, IInv, Types, PlaceTypes

LEMMA SwitchKeeps == ASSUME IInv, SwitchPhase PROVE IInv'
<1>1. CallsInv'
  BY CallsKept DEF IInv, SwitchPhase
<1> QED BY <1>1, StepKeeps DEF SwitchPhase, Kinds, IInv, Types, PlaceTypes

LEMMA LoseKeeps == ASSUME IInv, NEW c \in Calls, Lose(c) PROVE IInv'
<1>1. CallsInv'
  BY CallEnds DEF IInv, Lose
<1>2. articles' \in Nat
  BY DEF IInv, Types, CreationTypes, Lose
<1>3. CreationTypes'
  BY <1>2 DEF IInv, Types, CreationTypes, Lose
<1> QED BY <1>1, <1>3, StepKeeps DEF Lose, Kinds

LEMMA OfficeNextKeeps == ASSUME IInv, OfficeNext PROVE IInv'
<1>1. ASSUME NEW c \in Calls, Ask(c) PROVE IInv'
  BY <1>1, AskAdministerKeeps, AskSessionKeeps, AskCreateKeeps DEF Ask
<1>2. ASSUME NEW c \in Calls, AdminStep(c) PROVE IInv'
  BY <1>2, DecideKeeps, WriteAccountKeeps, WriteDutiesKeeps DEF AdminStep
<1>3. ASSUME NEW c \in Calls, Step(c) PROVE IInv'
  BY <1>2, <1>3, SessionStepKeeps, CreationStepKeeps DEF Step
<1> QED
  BY <1>1, <1>3, LoseKeeps, ChangeKeeps, SwitchKeeps DEF OfficeNext

LEMMA OfficeInitHolds == ASSUME OfficeInit PROVE IInv
<1>1. AccessTypes
  BY DEF OfficeInit, FirstAccounts, AccessTypes, Account, Roles
<1>2. PlaceTypes
  BY DEF OfficeInit, PlaceTypes
<1>3. SharedTypes
  BY DEF OfficeInit, SharedTypes, Member
<1>4. CreationTypes
  BY DEF OfficeInit, CreationTypes, ErrandState
<1>5. CallTypes /\ \A c \in Calls : calls[c] = Nil
  BY DEF OfficeInit, CallTypes
<1>6. LeftTypes
  BY OfficeAssumption DEF OfficeInit, LeftTypes
<1>7. CallsInv
  BY <1>5 DEF CallsInv, OneWriter, OneAtDesk, Reads, Writes, HasDesk, At
<1>8. SomeAdministrator
  <2>1. /\ Author \in Users /\ users[Author].role = "administrator"
        /\ users[Author] \in {[status |-> "active", role |-> "administrator", assignment |-> 1],
                              [status |-> "active", role |-> "clerk", assignment |-> 1],
                              [status |-> "pending", role |-> Nil, assignment |-> 0]}
    BY OfficeAssumption DEF OfficeInit, FirstAccounts
  <2>2. users[Author].status = "active"
    BY <2>1, OfficeAssumption DEF Roles
  <2> QED BY <2>1, <2>2 DEF SomeAdministrator, Holders, Active
<1> QED BY <1>1, <1>2, <1>3, <1>4, <1>5, <1>6, <1>7, <1>8 DEF IInv, Types

\* The inductive invariant holds: the types, at most one administrator's
\* command and then nobody who reads, at most one call with the session, what
\* each call found out under its locks still holds, and somebody administers.
THEOREM OfficeInvariant == OfficeSpec => []IInv
<1>1. ASSUME IInv, UNCHANGED officeVars PROVE IInv'
  <2>1. UNCHANGED <<calls, accessVars, sessionVars, creationVars, phase, inputs, left>>
    BY <1>1 DEF officeVars
  <2>2. CallsInv'
    BY <1>1, <2>1, CallsKept DEF IInv
  <2> QED BY <1>1, <2>1, <2>2, StepKeeps
<1>2. IInv /\ [OfficeNext]_officeVars => IInv'
  BY <1>1, OfficeNextKeeps
<1> QED BY <1>2, OfficeInitHolds, PTL DEF OfficeSpec

\* Every row and call has its type; an attempt has succeeded exactly when the
\* session has its result, only the current attempt is not superseded, and a
\* receipt names a product of its own creation attempt.
THEOREM OfficeTypeCorrect == OfficeSpec => []OfficeTypeOK
<1>1. IInv => OfficeTypeOK
  BY TypesAreOfficeTypes DEF IInv
<1> QED BY <1>1, OfficeInvariant, PTL

\* assertAdministratorCanBeRemoved under the lock alone: some active user is
\* an administrator, however many administrators act on each other at once.
THEOREM AdministratorRemains == OfficeSpec => []SomeAdministrator
<1>1. IInv => SomeAdministrator
  BY DEF IInv
<1> QED BY <1>1, OfficeInvariant, PTL

-----------------------------------------------------------------------------
(* Every write is made by a call whose person is entitled at that moment.   *)

Watched == <<accessVars, sessionVars, errands, stock>>

\* A call that is answered, or goes on, is the one that wrote.
LEMMA Writer ==
  ASSUME CallTypes, NEW c \in Calls, calls[c] # Nil, Entitled(c),
         End(c) \/ \E p : calls[c].pc # p /\ Goes(c, p)
  PROVE  \E d \in Calls : calls[d] # Nil /\ calls'[d] # calls[d] /\ Entitled(d)
<1>1. CASE End(c)
  BY <1>1 DEF End, CallTypes
<1>2. CASE \E p : calls[c].pc # p /\ Goes(c, p)
  <2>1. PICK p : calls[c].pc # p /\ Goes(c, p) BY <1>2
  <2>2. calls'[c].pc = p BY <2>1, CallGoes
  <2> QED BY <2>1, <2>2
<1> QED BY <1>1, <1>2

LEMMA EntitledAdmin ==
  ASSUME IInv, NEW c \in Calls, Writes(c)
  PROVE  CallTypes /\ calls[c] # Nil /\ Entitled(c)
<1>1. CallTypes /\ calls[c] # Nil /\ Cleared(c)
  BY DEF IInv, CallsInv, Writes, At
<1>2. calls[c].kind \in AdminOps
  BY <1>1, CallShape DEF Writes, At
<1> QED
  BY <1>1, <1>2
  DEF Cleared, Entitled, AdminOps, AccountOps, CreationOps, SessionOps, SharingOps

LEMMA EntitledShared ==
  ASSUME IInv, NEW c \in Calls, At(c, "entered"), calls[c].kind \in SessionOps,
         calls[c].kind # "create" => HasAccess(c)
  PROVE  CallTypes /\ calls[c] # Nil /\ Entitled(c)
<1>1. /\ CallTypes /\ calls[c] # Nil /\ May(Who(c), "exports.view")
      /\ NeedsCreate(calls[c].kind) => May(Who(c), "exports.create")
  BY EnteredShape
<1>2. calls[c].kind \in SharingOps => calls[c].kind # "create"
  BY DEF SharingOps
<1> QED
  BY <1>1, <1>2
  DEF Entitled, HasAccess, Owns, Who, NeedsCreate, AccountOps, CreationOps, SessionOps,
      SharingOps

LEMMA EntitledDesk ==
  ASSUME IInv, NEW c \in Calls, HasDesk(c)
  PROVE  CallTypes /\ calls[c] # Nil /\ Entitled(c)
<1>1. /\ CallTypes /\ calls[c] # Nil /\ HasAccess(c) /\ May(Who(c), "exports.create")
      /\ calls[c].kind \in {"prepare", "generate"}
  BY DeskShape
<1> QED
  BY <1>1
  DEF Entitled, HasAccess, Owns, Who, NeedsCreate, AccountOps, CreationOps, SessionOps,
      SharingOps

LEMMA EntitledCreation ==
  ASSUME IInv, NEW c \in Calls, NEW kind \in CreationOps, Transacts(c, kind), Admitted(c)
  PROVE  CallTypes /\ calls[c] # Nil /\ Entitled(c)
<1>1. CallTypes /\ calls[c] # Nil /\ calls[c].kind \in CreationOps
  BY CreationShape DEF IInv, Types, Transacts
<1> QED
  BY <1>1
  DEF Entitled, Admitted, Who, AccountOps, CreationOps, SessionOps, SharingOps

LEMMA EntitledStep ==
  ASSUME IInv, NEW c \in Calls, Step(c), Watched' # Watched
  PROVE  \E d \in Calls : calls[d] # Nil /\ calls'[d] # calls[d] /\ Entitled(d)
<1>1. CASE AdminStep(c)
  <2>1. ~Decide(c)
    BY DEF Decide, Watched, creationVars
  <2>2. Writes(c) /\ End(c)
    BY <1>1, <2>1 DEF AdminStep, WriteAccount, WriteDuties
  <2> QED BY <2>2, EntitledAdmin, Writer
<1>2. CASE SessionStep(c)
  <2>1. ~Refuse(c)
    BY DEF Refuse, sharedByOthers, creationVars, Watched
  <2>2. ~EnterShared(c) /\ ~Capture(c)
    BY DEF EnterShared, Capture, sharedByOthers, creationVars, Watched
  <2>3. ~Preview(c)
    BY DEF Preview, sharedByOthers, creationVars, Watched
  <2>4. CASE Create(c)
    <3>1. At(c, "entered") /\ calls[c].kind = "create" /\ End(c)
      BY <2>4 DEF Create
    <3>2. calls[c].kind \in SessionOps
      BY <3>1 DEF SessionOps
    <3> QED BY <3>1, <3>2, EntitledShared, Writer
  <2>5. CASE Save(c) \/ Confirm(c) \/ Invite(c) \/ Membership(c)
    <3>1. /\ At(c, "entered") /\ calls[c].kind \in SessionOps /\ End(c) /\ HasAccess(c)
      BY <2>1, <2>5
      DEF Save, Confirm, Invite, Membership, Locked, UpToDate, SessionOps, SharingOps
    <3> QED BY <3>1, EntitledShared, Writer
  <2>6. CASE Generate(c)
    <3>1. /\ At(c, "entered") /\ calls[c].kind = "generate" /\ HasAccess(c)
          /\ Goes(c, "capture") /\ calls[c].pc # "capture"
      BY <2>1, <2>6 DEF Generate, Locked, UpToDate, At
    <3>2. calls[c].kind \in SessionOps
      BY <3>1 DEF SessionOps, SharingOps
    <3> QED BY <3>1, <3>2, EntitledShared, Writer
  <2>7. CASE Prepare(c) \/ CommitCapture(c) \/ Recheck(c)
    <3>1. HasDesk(c)
      BY <2>7 DEF Prepare, CommitCapture, Recheck, At, HasDesk
    <3>2. End(c) \/ (calls[c].pc # "recheck" /\ Goes(c, "recheck"))
      BY <2>1, <2>7 DEF Prepare, CommitCapture, Recheck, At
    <3> QED BY <3>1, <3>2, EntitledDesk, Writer
  <2> QED
    BY <1>2, <2>2, <2>3, <2>4, <2>5, <2>6, <2>7 DEF SessionStep
<1>3. CASE CreationStep(c)
  <2>1. ~EnterCreation(c)
    BY DEF EnterCreation, creationByOthers, creationVars, Watched
  <2>2. CASE Reserve(c)
    <3>1. ~Refused(TRUE)
      BY <2>2 DEF Reserve, Refused, creationByOthers, Watched
    <3>2. Admitted(c) /\ Transacts(c, "reserve") /\ End(c)
      BY <2>2, <3>1, ReserveEffect DEF Reserve
    <3> QED BY <3>2, EntitledCreation, Writer DEF CreationOps
  <2>3. CASE Sell(c)
    <3>1. ~Refused(TRUE)
      BY <2>3 DEF Sell, Refused, creationByOthers, Watched
    <3>2. Admitted(c) /\ Transacts(c, "sell") /\ End(c)
      BY <2>3, <3>1, SellEffect DEF Sell
    <3> QED BY <3>2, EntitledCreation, Writer DEF CreationOps
  <2>4. CASE Cancel(c)
    <3>1. ~UNCHANGED errands
      BY <2>4 DEF Cancel, creationByOthers, Watched
    <3>2. Admitted(c) /\ Transacts(c, "cancel") /\ End(c)
      BY <2>4, <3>1, CancelEffect DEF Cancel
    <3> QED BY <3>2, EntitledCreation, Writer DEF CreationOps
  <2> QED BY <1>3, <2>1, <2>2, <2>3, <2>4 DEF CreationStep
<1> QED BY <1>1, <1>2, <1>3 DEF Step

\* Whatever administration or the owner did between the checks of a call and
\* its commit, the person of the call that writes is active, still has the
\* permission and still is a member under the epoch of the request.
THEOREM EntitledWrites == OfficeSpec => OnlyTheEntitledWrite
<1>1. IInv /\ [OfficeNext]_officeVars =>
        [<<accessVars, sessionVars, errands, stock>>' # <<accessVars, sessionVars, errands, stock>>
           => \E c \in Calls : calls[c] # Nil /\ calls'[c] # calls[c] /\ Entitled(c)]_officeVars
  <2> SUFFICES ASSUME IInv, [OfficeNext]_officeVars, Watched' # Watched
               PROVE  \E c \in Calls : calls[c] # Nil /\ calls'[c] # calls[c] /\ Entitled(c)
    BY DEF Watched
  <2>1. OfficeNext
    BY DEF officeVars, creationVars, Watched
  <2>2. \A c \in Calls : ~Lose(c)
    BY DEF Lose, Watched
  <2>3. ASSUME NEW c \in Calls, Ask(c) PROVE FALSE
    <3>1. CASE AskAdminister(c)
      BY <3>1 DEF AskAdminister, AskAdmin, creationVars, Watched
    <3>2. CASE AskSession(c)
      BY <3>2 DEF AskSession, AskShared, sharedByOthers, creationVars, Watched
    <3>3. CASE AskCreate(c)
      BY <3>3 DEF AskCreate, AskCreation, creationByOthers, creationVars, Watched
    <3> QED BY <2>3, <3>1, <3>2, <3>3 DEF Ask
  <2>4. (\A x \in Contents : ~Change(x)) /\ ~SwitchPhase
    BY DEF Change, SwitchPhase, creationVars, Watched
  <2> QED BY <2>1, <2>2, <2>3, <2>4, EntitledStep DEF OfficeNext
<1> QED BY <1>1, OfficeInvariant, PTL DEF OfficeSpec, OnlyTheEntitledWrite

-----------------------------------------------------------------------------
(* The session carries out a shared export.                                *)

LEMMA ExportStays ==
  ASSUME UNCHANGED sessionVars PROVE UNCHANGED Export!exportVars
BY DEF Export!exportVars, Settled, sessionVars

LEMMA ExportCreate ==
  ASSUME IInv, NEW c \in Calls, Create(c)
  PROVE  [Export!ExportNext]_(Export!exportVars)
<1>1. CASE Frozen \/ session # Nil
  BY <1>1, ExportStays DEF Create, sessionVars
<1>2. CASE ~(Frozen \/ session # Nil)
  <2>1. /\ session' # Nil /\ session'.settings \in Settings /\ session'.settings # Nil
        /\ session'.current = 0 /\ session'.result = Nil
    BY <1>2, CreateEffect, OfficeAssumption, NilAssumption
  <2>2. Export!Open(session'.settings)
    BY <1>2, <2>1 DEF Export!Open
  <2> QED BY <2>1, <2>2 DEF Export!ExportNext
<1> QED BY <1>1, <1>2

LEMMA ExportSave ==
  ASSUME IInv, NEW c \in Calls, Save(c), ~Refuse(c)
  PROVE  [Export!ExportNext]_(Export!exportVars)
<1>1. /\ session # Nil /\ session' # Nil /\ session.result = Nil /\ session'.result = Nil
      /\ session'.settings \in Settings \ {session.settings} /\ session'.current = 0
  BY SaveEffect, NilAssumption
<1>2. session.settings # Nil
  BY <1>1, SessionShape, OfficeAssumption
<1>3. Export!Edit(session'.settings)
  BY <1>1, <1>2 DEF Export!Edit
<1> QED BY <1>1, <1>3 DEF Export!ExportNext

LEMMA ExportPrepare ==
  ASSUME IInv, NEW c \in Calls, Prepare(c), ~Refuse(c)
  PROVE  [Export!ExportNext]_(Export!exportVars)
<1> DEFINE n == Len(attempts')
           a == [rev |-> session.rev, settings |-> session.settings,
                 content |-> calls[c].asked.seen, state |-> "prepared"]
<1>1. /\ session # Nil /\ session.result = Nil /\ session' \in SessionState
      /\ session'.settings = session.settings /\ session'.current = n /\ n # 0
      /\ session'.result = Nil /\ attempts'[n] = a /\ calls[c].asked.seen \in Contents
  BY PrepareEffect, Zenon
<1>2. session' # Nil /\ session.settings # Nil
  BY <1>1, SessionShape, OfficeAssumption, NilAssumption
<1>3. Settled(a) = [settings |-> session.settings, content |-> calls[c].asked.seen]
  BY DEF Settled
<1> HIDE DEF a, n
<1>4. Export!Review(calls[c].asked.seen)
  BY <1>1, <1>2, <1>3 DEF Export!Review
<1> QED BY <1>1, <1>4 DEF Export!ExportNext

\* Marking an attempt does not change what was reviewed.
LEMMA ExportMarked ==
  ASSUME IInv, session # Nil, session.current # 0, session.result = Nil,
         NEW st \in {"executing", "failed"}, UNCHANGED <<session, members>>,
         attempts' = [attempts EXCEPT ![session.current].state = st]
  PROVE  UNCHANGED Export!exportVars
<1>1. Attempt'.content = Attempt.content /\ Attempt'.settings = Attempt.settings
  BY AttemptMarked
<1> QED BY <1>1 DEF Export!exportVars, Settled, Attempt

LEMMA ExportPublish ==
  ASSUME IInv, NEW c \in Calls, At(c, "commit"), Publish(c), UNCHANGED members
  PROVE  [Export!ExportNext]_(Export!exportVars)
<1>1. HasDesk(c)
  BY DEF At, HasDesk
<1>2. session # Nil /\ session.result = Nil /\ session.current # 0
  BY <1>1, DeskShape DEF Placed, At
<1>3. /\ session' # Nil /\ session'.current = session.current
      /\ session'.settings = session.settings /\ session'.result # Nil
      /\ session'.result.settings = Attempt.settings
      /\ session'.result.content = Attempt.content
      /\ session'.result.confirmed = FALSE
      /\ Attempt'.content = Attempt.content /\ Attempt'.settings = Attempt.settings
  BY PublishTypes, NilAssumption
<1>4. Attempt.settings = session.settings
  BY <1>2, SessionShape DEF IInv, Types, SharedTypes, Attempt
<1>5. Settled(Attempt) # Nil
  <2>1. Attempt.settings \in Settings /\ Attempt.content \in Contents
    BY <1>2, SessionShape DEF AttemptState
  <2> QED BY <2>1, NilAssumption DEF Settled
<1>6. /\ Settled(session'.result) = Settled(Attempt)
      /\ Settled(Attempt') = Settled(Attempt)
      /\ Settled(Attempt).settings = session.settings
  BY <1>3, <1>4 DEF Settled
<1>7. Export!Produce
  BY <1>2, <1>3, <1>5, <1>6 DEF Export!Produce, Attempt
<1> QED BY <1>7 DEF Export!ExportNext

LEMMA ExportConfirm ==
  ASSUME IInv, NEW c \in Calls, Confirm(c), ~Refuse(c)
  PROVE  [Export!ExportNext]_(Export!exportVars)
<1>1. /\ session # Nil /\ session.result # Nil /\ session' # Nil
      /\ session'.settings = session.settings /\ session'.current = session.current
      /\ session'.result # Nil /\ session'.result.confirmed = TRUE
      /\ session'.result.settings = session.result.settings
      /\ session'.result.content = session.result.content /\ UNCHANGED attempts
  BY ConfirmEffect, NilAssumption
<1>2. Settled(session.result) # Nil
  <2>1. session.result.settings \in Settings /\ session.result.content \in Contents
    BY <1>1, SessionShape DEF ResultState
  <2> QED BY <2>1, NilAssumption DEF Settled
<1>3. Settled(session'.result) = Settled(session.result)
  BY <1>1 DEF Settled
<1>4. Export!Deliver
  BY <1>1, <1>2, <1>3 DEF Export!Deliver
<1> QED BY <1>4 DEF Export!ExportNext

LEMMA ExportSessionStep ==
  ASSUME IInv, NEW c \in Calls, SessionStep(c)
  PROVE  [Export!ExportNext]_(Export!exportVars)
<1>1. CASE Refuse(c)
  BY <1>1, ExportStays DEF Refuse
<1>2. CASE ~Refuse(c)
  <2>1. CASE EnterShared(c) \/ Preview(c) \/ Capture(c)
    <3>1. UNCHANGED sessionVars
      BY <2>1 DEF EnterShared, Preview, Capture
    <3> QED BY <3>1, ExportStays
  <2>2. CASE Create(c) \/ Save(c) \/ Prepare(c) \/ Confirm(c)
    BY <1>2, <2>2, ExportCreate, ExportSave, ExportPrepare, ExportConfirm
  <2>3. CASE Generate(c)
    <3>1. calls[c].kind \in SessionOps /\ calls[c].kind # "create" /\ At(c, "entered")
      BY <2>3 DEF Generate, Locked, SessionOps, SharingOps
    <3>2. /\ session # Nil /\ session.current # 0 /\ session.result = Nil
          /\ UNCHANGED <<session, members>>
          /\ attempts' = [attempts EXCEPT ![session.current].state = "executing"]
      BY <1>2, <2>3, <3>1, EnteredShape DEF Generate
    <3> QED BY <3>2, ExportMarked
  <2>4. CASE CommitCapture(c)
    <3>1. At(c, "commit") /\ UNCHANGED members
      BY <2>4 DEF CommitCapture
    <3>2. Publish(c) \/ UNCHANGED sessionVars
      BY <2>4 DEF CommitCapture, sessionVars
    <3> QED BY <3>1, <3>2, ExportPublish, ExportStays
  <2>5. CASE Recheck(c)
    <3>1. HasDesk(c)
      BY <2>5 DEF Recheck, At, HasDesk
    <3>2. session # Nil /\ session.current # 0 /\ UNCHANGED <<session, members>>
      BY <2>5, <3>1, DeskShape DEF Recheck, Placed, At
    <3>3. \/ UNCHANGED sessionVars
          \/ /\ session.result = Nil
             /\ attempts' = [attempts EXCEPT ![session.current].state = "failed"]
      BY <2>5, <3>2 DEF Recheck, sessionVars
    <3> QED BY <3>2, <3>3, ExportStays, ExportMarked
  <2>6. CASE Invite(c) \/ Membership(c)
    <3>1. UNCHANGED <<session, attempts>>
      BY <2>6 DEF Invite, Membership, Refuse, sessionVars
    <3> QED BY <3>1 DEF Export!exportVars, Settled
  <2> QED
    BY <2>1, <2>2, <2>3, <2>4, <2>5, <2>6 DEF SessionStep
<1> QED BY <1>1, <1>2

\* The session, its attempts and the lock over several transactions carry out
\* the shared export: one result, made from the latest review, whoever works
\* on the session and whatever fails on the way.
THEOREM SharedExportImplemented == OfficeSpec => SharedExportSpec
<1>1. OfficeInit => Export!ExportInit
  BY DEF OfficeInit, Export!ExportInit
<1>2. ASSUME IInv, [OfficeNext]_officeVars PROVE [Export!ExportNext]_(Export!exportVars)
  <2>1. CASE UNCHANGED sessionVars
    BY <2>1, ExportStays
  <2>2. CASE ~UNCHANGED sessionVars
    <3>1. PICK c \in Calls : SessionStep(c)
      <4>1. OfficeNext BY <1>2, <2>2 DEF officeVars
      <4>2. ASSUME NEW c \in Calls, Ask(c) PROVE FALSE
        <5>1. CASE AskAdminister(c)
          BY <2>2, <5>1 DEF AskAdminister, AskAdmin
        <5>2. CASE AskSession(c)
          BY <2>2, <5>2 DEF AskSession, AskShared
        <5>3. CASE AskCreate(c)
          BY <2>2, <5>3 DEF AskCreate, AskCreation, creationByOthers
        <5> QED BY <4>2, <5>1, <5>2, <5>3 DEF Ask
      <4>3. ASSUME NEW c \in Calls, AdminStep(c) PROVE FALSE
        BY <2>2, <4>3 DEF AdminStep, Decide, WriteAccount, WriteDuties
      <4>4. ASSUME NEW c \in Calls, CreationStep(c) PROVE FALSE
        BY <2>2, <4>4 DEF CreationStep, EnterCreation, Reserve, Sell, Cancel, creationByOthers
      <4> QED
        BY <2>2, <4>1, <4>2, <4>3, <4>4 DEF OfficeNext, Step, Lose, Change, SwitchPhase
    <3> QED BY <1>2, <3>1, ExportSessionStep
  <2> QED BY <2>1, <2>2
<1>3. IInv /\ [OfficeNext]_officeVars => [Export!ExportNext]_(Export!exportVars)
  BY <1>2
<1> QED
  BY <1>1, <1>3, OfficeInvariant, PTL DEF OfficeSpec, SharedExportSpec, Export!ExportSpec

-----------------------------------------------------------------------------
(* Reservations, receipts and products keep one book.                      *)

LEMMA ShownAs ==
  /\ Shown("none") = "open" /\ Shown("reserved") = "held" /\ Shown("cancelled") = "dropped"
BY DEF Shown

LEMMA BookStays ==
  ASSUME UNCHANGED creationVars PROVE UNCHANGED Book!bookVars
BY DEF Book!bookVars, BookState, BookArticle, creationVars

\* The attempts that a command is not about.
LEMMA OtherErrands ==
  ASSUME CreationTypes, NEW e \in Errands, NEW row,
         errands' = [errands EXCEPT ![e] = row],
         \A i \in DOMAIN stock : stock'[i] = stock[i]
  PROVE  /\ errands'[e] = row
         /\ \A d \in Errands \ {e} : /\ BookState(d)' = BookState(d)
                                     /\ BookArticle(d)' = BookArticle(d)
<1>1. errands'[e] = row /\ \A d \in Errands \ {e} : errands'[d] = errands[d]
  BY DEF CreationTypes
<1>2. ASSUME NEW d \in Errands \ {e}
      PROVE  BookState(d)' = BookState(d) /\ BookArticle(d)' = BookArticle(d)
  <2>1. BookState(d)' = BookState(d)
    BY <1>1 DEF BookState
  <2>2. errands[d].receipt # Nil => errands[d].receipt.product \in DOMAIN stock
    BY DEF CreationTypes
  <2>3. BookArticle(d)' = BookArticle(d)
    BY <1>1, <2>2 DEF BookArticle
  <2> QED BY <2>1, <2>3
<1> QED BY <1>1, <1>2

\* An article may be taken for nothing.
LEMMA BookTaken ==
  ASSUME UNCHANGED <<errands, stock>>, articles' \in {articles, articles + 1}
  PROVE  [Book!BookNext]_(Book!bookVars)
<1>1. CASE articles' = articles
  BY <1>1, BookStays DEF creationVars
<1>2. CASE articles' = articles + 1
  <2>1. Book!Waste
    BY <1>2 DEF Book!Waste, BookState, BookArticle
  <2> QED BY <2>1 DEF Book!BookNext
<1> QED BY <1>1, <1>2

LEMMA BookReserve ==
  ASSUME IInv, NEW c \in Calls, Reserve(c) PROVE [Book!BookNext]_(Book!bookVars)
<1>1. CASE Refused(TRUE)
  BY <1>1, BookTaken DEF Refused
<1>2. CASE ~Refused(TRUE)
  <2>0. PICK e \in Errands : e = Errand(c)
    BY <1>2, ReserveEffect
  <2>1. /\ e \in Errands /\ articles' = articles + 1 /\ UNCHANGED stock
        /\ errands[e].receipt = Nil /\ errands[e].state = "none"
    BY <1>2, <2>0, ReserveEffect
  <2>2. PICK row \in ErrandState :
          /\ row.state = "reserved" /\ row.receipt = Nil /\ row.article = articles + 1
          /\ errands' = [errands EXCEPT ![e] = row]
    BY <1>2, <2>0, ReserveEffect
  <2>3. /\ errands'[e] = row
        /\ \A d \in Errands \ {e} : /\ BookState(d)' = BookState(d)
                                    /\ BookArticle(d)' = BookArticle(d)
    BY <2>1, <2>2, OtherErrands DEF IInv, Types
  <2>4. BookState(e) = "open"
    BY <2>1, ShownAs DEF BookState
  <2>5. BookState(e)' = "held" /\ BookArticle(e)' = articles'
    BY <2>1, <2>2, <2>3, ShownAs DEF BookState, BookArticle
  <2>6. Book!PutAside(e)
    BY <2>1, <2>3, <2>4, <2>5 DEF Book!PutAside
  <2> QED BY <2>1, <2>6 DEF Book!BookNext
<1> QED BY <1>1, <1>2

LEMMA BookSell ==
  ASSUME IInv, NEW c \in Calls, Sell(c) PROVE [Book!BookNext]_(Book!bookVars)
<1> DEFINE n == Len(stock) + 1
<1>1. CASE Refused(TRUE)
  BY <1>1, BookTaken DEF Refused
<1>2. CASE ~Refused(TRUE)
  <2>0. PICK e \in Errands : e = Errand(c)
    BY <1>2, SellEffect
  <2>1. PICK row \in ErrandState, p \in Product :
          /\ e \in Errands /\ errands[e].receipt = Nil
          /\ errands' = [errands EXCEPT ![e] = row]
          /\ row.receipt # Nil /\ row.receipt.product = n
          /\ stock' = Append(stock, p)
          /\ p = [by |-> e, article |-> p.article, goods |-> p.goods]
          /\ \/ /\ errands[e].state = "none"
                /\ articles' = articles + 1 /\ p.article = articles + 1
             \/ /\ errands[e].state = "reserved"
                /\ articles' = articles /\ p.article = errands[e].article
    BY <1>2, <2>0, SellEffect
  <2>2. stock \in Seq(Product) /\ CreationTypes /\ p.goods \in Goods
    BY <2>1 DEF IInv, Types, CreationTypes, Product
  <2>3. stock'[n] = p /\ \A i \in DOMAIN stock : stock'[i] = stock[i]
    BY <2>1, <2>2
  <2> HIDE DEF n
  <2>4. /\ errands'[e] = row
        /\ \A d \in Errands \ {e} : /\ BookState(d)' = BookState(d)
                                    /\ BookArticle(d)' = BookArticle(d)
    BY <2>1, <2>2, <2>3, OtherErrands
  <2>5. BookState(e)' = "made" /\ BookArticle(e)' = p.article
    BY <2>1, <2>3, <2>4 DEF BookState, BookArticle
  <2>6. \/ /\ BookState(e) = "open" /\ articles' = articles + 1 /\ p.article = articles'
        \/ /\ BookState(e) = "held" /\ articles' = articles
           /\ p.article = BookArticle(e)
    BY <2>1, ShownAs DEF BookState, BookArticle
  <2>7. Book!Make(e, p.goods)
    BY <2>1, <2>4, <2>5, <2>6 DEF Book!Make
  <2> QED BY <2>1, <2>2, <2>7 DEF Book!BookNext
<1> QED BY <1>1, <1>2

LEMMA BookCancel ==
  ASSUME IInv, NEW c \in Calls, Cancel(c) PROVE [Book!BookNext]_(Book!bookVars)
<1>1. CASE UNCHANGED errands
  BY <1>1, BookStays DEF Cancel, creationVars
<1>2. CASE ~UNCHANGED errands
  <2>0. PICK e \in Errands : e = Errand(c)
    BY <1>2, CancelEffect
  <2>1. /\ e \in Errands /\ UNCHANGED <<articles, stock>>
        /\ errands[e].receipt = Nil /\ errands[e].state \in {"none", "reserved"}
    BY <1>2, <2>0, CancelEffect
  <2>2. PICK row \in ErrandState :
          /\ row.state = "cancelled" /\ row.receipt = Nil
          /\ row.article = errands[e].article
          /\ errands' = [errands EXCEPT ![e] = row]
    BY <1>2, <2>0, CancelEffect
  <2>3. /\ errands'[e] = row
        /\ \A d \in Errands \ {e} : /\ BookState(d)' = BookState(d)
                                    /\ BookArticle(d)' = BookArticle(d)
    BY <2>1, <2>2, OtherErrands DEF IInv, Types
  <2>4. BookState(e) \in {"open", "held"}
    BY <2>1, ShownAs DEF BookState
  <2>5. BookState(e)' = "dropped" /\ BookArticle(e)' = BookArticle(e)
    BY <2>1, <2>2, <2>3, ShownAs DEF BookState, BookArticle
  <2>6. Book!Drop(e)
    BY <2>1, <2>3, <2>4, <2>5 DEF Book!Drop
  <2> QED BY <2>1, <2>6 DEF Book!BookNext
<1> QED BY <1>1, <1>2

\* A call that is lost may take its article with it.
LEMMA BookLose ==
  ASSUME IInv, NEW c \in Calls, Lose(c) PROVE [Book!BookNext]_(Book!bookVars)
<1>1. articles' \in articles..(articles + 1) /\ UNCHANGED <<errands, stock>>
  BY DEF Lose, IInv, Types, CreationTypes
<1>2. articles' = articles \/ articles' = articles + 1
  BY <1>1 DEF IInv, Types, CreationTypes
<1> QED BY <1>1, <1>2, BookTaken

\* Product creation keeps the book: a creation attempt becomes at most one
\* product, with the article that was put aside for it, a cancelled one none,
\* and no article is given twice.
THEOREM CreationBookImplemented == OfficeSpec => CreationBookSpec
<1>1. OfficeInit => Book!BookInit
  <2> SUFFICES ASSUME OfficeInit PROVE Book!BookInit
    OBVIOUS
  <2>1. \A e \in Errands : /\ errands[e].receipt = Nil /\ errands[e].state = "none"
                           /\ errands[e].article = 0
    BY DEF OfficeInit
  <2>2. \A e \in Errands : BookState(e) = "open" /\ BookArticle(e) = 0
    BY <2>1, ShownAs DEF BookState, BookArticle
  <2> QED BY <2>2 DEF OfficeInit, Book!BookInit
<1>2. ASSUME IInv, [OfficeNext]_officeVars PROVE [Book!BookNext]_(Book!bookVars)
  <2>1. ASSUME NEW c \in Calls, Ask(c) PROVE UNCHANGED creationVars
    <3>1. CASE AskAdminister(c)
      BY <3>1 DEF AskAdminister, AskAdmin
    <3>2. CASE AskSession(c)
      BY <3>2 DEF AskSession, AskShared, sharedByOthers
    <3>3. CASE AskCreate(c)
      BY <3>3 DEF AskCreate, AskCreation
    <3> QED BY <2>1, <3>1, <3>2, <3>3 DEF Ask
  <2>2. ASSUME NEW c \in Calls, AdminStep(c) PROVE UNCHANGED creationVars
    BY <2>2 DEF AdminStep, Decide, WriteAccount, WriteDuties
  <2>3. ASSUME NEW c \in Calls, SessionStep(c) PROVE UNCHANGED creationVars
    BY <2>3
    DEF SessionStep, EnterShared, Create, Save, Preview, Prepare, Generate, Capture,
        CommitCapture, Recheck, Confirm, Invite, Membership, Refuse, sharedByOthers
  <2>4. ASSUME NEW c \in Calls, CreationStep(c) PROVE [Book!BookNext]_(Book!bookVars)
    <3>1. CASE EnterCreation(c)
      BY <3>1, BookStays DEF EnterCreation
    <3> QED BY <1>2, <2>4, <3>1, BookReserve, BookSell, BookCancel DEF CreationStep
  <2>5. CASE UNCHANGED creationVars
    BY <2>5, BookStays
  <2>6. CASE \E c \in Calls : CreationStep(c) \/ Lose(c)
    BY <1>2, <2>4, <2>6, BookLose
  <2> QED
    BY <1>2, <2>1, <2>2, <2>3, <2>5, <2>6
    DEF OfficeNext, Step, Change, SwitchPhase, officeVars
<1>3. IInv /\ [OfficeNext]_officeVars => [Book!BookNext]_(Book!bookVars)
  BY <1>2
<1> QED
  BY <1>1, <1>3, OfficeInvariant, PTL DEF OfficeSpec, CreationBookSpec, Book!BookSpec

=============================================================================
