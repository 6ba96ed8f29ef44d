----------------------------- MODULE Authority ------------------------------
(***************************************************************************)
(* Administration of access: every command waits for the advisory lock     *)
(* alone, checks its own actor again, decides on the rows it then reads    *)
(* and writes in the same transaction.                                     *)
(***************************************************************************)
EXTENDS OfficeLedger

IsAdministrator(u) == users[u].role = "administrator"
Active == {u \in Users : users[u].status = "active"}

\* Active users whose current role this is.
Holders(role) == {u \in Active : users[u].role = role}

\* assertAdministratorCanBeRemoved
Removable == Cardinality(Holders("administrator")) > 1

\* A person sends a command with the versions they see.
AskAdmin(c, u, kind, target, role, duties) ==
  /\ Spend(kind) /\ ~Frozen
  /\ May(u, IF kind = "duties" THEN "roles.manage" ELSE "users.manage")
  /\ Begin(c, u, kind,
           [target |-> target, role |-> role, assignment |-> users[target].assignment,
            duties |-> duties, version |-> clerk.version,
            affected |-> Cardinality(Holders("clerk"))])
  /\ UNCHANGED <<accessVars, phase, inputs, sessionVars, creationVars>>

-----------------------------------------------------------------------------
\* What each command accepts, of its request a and the rows it reads.
ApproveAllowed(a) == users[a.target].status = "pending" /\ a.role # Nil

RoleAllowed(a) ==
  /\ users[a.target].status # "pending" /\ a.role # Nil
  /\ users[a.target].assignment = a.assignment
  /\ a.target \in Holders("administrator") /\ a.role # "administrator" => Removable

DisableAllowed(a) ==
  /\ users[a.target].status = "active"
  /\ IsAdministrator(a.target) => Removable

EnableAllowed(a) ==
  /\ users[a.target].status = "disabled"
  /\ IF a.role = Nil THEN users[a.target].role # Nil
                     ELSE users[a.target].assignment = a.assignment

DutiesAllowed(a) ==
  /\ clerk.version = a.version
  /\ clerk.permissions \ a.duties # {} /\ Holders("clerk") # {}
       => a.affected = Cardinality(Holders("clerk"))

Allowed(kind, a) ==
  /\ kind = "approve" => ApproveAllowed(a)
  /\ kind = "role"    => RoleAllowed(a)
  /\ kind = "disable" => DisableAllowed(a)
  /\ kind = "enable"  => EnableAllowed(a)
  /\ kind = "duties"  => DutiesAllowed(a)

\* The command gets the lock, then checks and reads; a refusal ends it.
Decide(c) ==
  /\ Queues(c) /\ ExclusiveGranted(c)
  /\ LET x == calls[c]
         allowed == /\ May(x.who, IF x.kind = "duties" THEN "roles.manage"
                                                       ELSE "users.manage")
                    /\ ~Frozen /\ Allowed(x.kind, x.asked)
     IN  IF allowed THEN Goes(c, "decided") ELSE End(c)
  /\ UNCHANGED <<accessVars, phase, inputs, sessionVars, creationVars, left>>

\* replaceCurrentRole: another role is another assignment row.
WithRole(x, role) ==
  IF role = Nil \/ x.role = role THEN x
  ELSE [x EXCEPT !.role = role, !.assignment = @ + 1]

Written(x, kind, role) ==
  LET y == IF kind = "disable" THEN x ELSE WithRole(x, role)
  IN  CASE kind \in {"approve", "enable"} -> [y EXCEPT !.status = "active"]
        [] kind = "disable"               -> [y EXCEPT !.status = "disabled"]
        [] kind = "role"                  -> y

WriteAccount(c) ==
  /\ Writes(c) /\ calls[c].kind \in AccountOps
  /\ LET a == calls[c].asked
     IN  users' = [users EXCEPT ![a.target] = Written(@, calls[c].kind, a.role)]
  /\ End(c)
  /\ UNCHANGED <<clerk, phase, inputs, sessionVars, creationVars, left>>

\* replaceRolePermissions; the same permissions change nothing.
WriteDuties(c) ==
  /\ Writes(c) /\ calls[c].kind = "duties"
  /\ LET wanted == calls[c].asked.duties
     IN  clerk' = IF wanted = clerk.permissions THEN clerk
                  ELSE [permissions |-> wanted, version |-> clerk.version + 1]
  /\ End(c)
  /\ UNCHANGED <<users, phase, inputs, sessionVars, creationVars, left>>

AdminStep(c) == Decide(c) \/ WriteAccount(c) \/ WriteDuties(c)

AskAdminister(c) ==
  \E u, target \in Users :
    \/ \E role \in Roles : \/ AskAdmin(c, u, "approve", target, role, {})
                           \/ AskAdmin(c, u, "role", target, role, {})
    \/ AskAdmin(c, u, "disable", target, Nil, {})
    \/ \E role \in Roles \cup {Nil} : AskAdmin(c, u, "enable", target, role, {})
    \/ \E d \in Duties : target = u /\ AskAdmin(c, u, "duties", target, Nil, d)

=============================================================================
