---------------------------- MODULE OfficeLedger ----------------------------
(***************************************************************************)
(* The rows that signed-in people share: their accounts and the one custom *)
(* role, one export session with its attempts and members, the creation    *)
(* attempts with their reserved articles; and the calls of the HTTP server *)
(* with the advisory locks they hold.  A lock is not a variable: who holds *)
(* it follows from how far the calls are.                                  *)
(***************************************************************************)
EXTENDS Integers, Sequences, FiniteSets

CONSTANTS Users,
          Author,      \* the person whose export session this is
          Calls,       \* calls the server is handling
          Keys,        \* idempotency keys of creation attempts
          Goods,       \* forms of a new product: a category and the answers
          Settings,    \* settings of an export session
          Contents,    \* what a preview is computed from: catalogue, prices
          Duties,      \* sets of permissions the custom role may be given
          Nil,         \* an empty row, slot or field
          Days         \* how often each kind of thing happens in a behaviour

VARIABLES users,       \* application_users with their current assignment
          clerk,       \* the custom role: permissions and version
          phase,       \* full_product_export_activation
          inputs,      \* the current member of Contents
          session, attempts, members,
          errands,     \* product_creation_sku_reservations and receipts
          articles,    \* public_product_sku_sequence
          stock,       \* products created
          calls,
          left         \* what this behaviour may still do

Ordinary == {"exports.view", "exports.create", "products.create"}
Reserved == {"users.manage", "roles.manage"}
Roles    == {"administrator", "clerk"}
Errands  == Users \X Keys

SharingOps  == {"save", "prepare", "generate", "confirm", "invite", "revoke",
                "accept", "decline", "leave"}
SessionOps  == SharingOps \cup {"create"}
CreationOps == {"reserve", "sell", "cancel"}
AccountOps  == {"approve", "role", "disable", "enable"}
AdminOps    == AccountOps \cup {"duties"}
Kinds == SessionOps \cup CreationOps \cup AdminOps
         \cup {"change", "fault", "phase", "loss"}

ASSUME OfficeAssumption ==
  /\ IsFiniteSet(Users) /\ Author \in Users
  /\ Duties \subseteq SUBSET Ordinary
  /\ \A g \in Goods : g = [category |-> g.category, answers |-> g.answers]
  /\ Nil \notin Users \cup Contents \cup Settings /\ Nil \notin Roles
  /\ Days \subseteq [Kinds -> Nat]

accessVars   == <<users, clerk>>
sessionVars  == <<session, attempts, members>>
creationVars == <<errands, articles, stock>>
officeVars   == <<accessVars, phase, inputs, sessionVars, creationVars, calls, left>>

Spend(kind) == left[kind] > 0 /\ left' = [left EXCEPT ![kind] = @ - 1]

Permissions(role) ==
  {p \in Ordinary \cup Reserved :
     role = "administrator" \/ (role = "clerk" /\ p \in clerk.permissions)}

\* requirePermission and assertActorStillAuthorized.
May(u, p) == users[u].status = "active" /\ p \in Permissions(users[u].role)

Frozen == phase = "preparing"

At(c, pc)     == calls[c] # Nil /\ calls[c].pc = pc
Who(c)        == calls[c].who
Goes(c, pc)   == calls' = [calls EXCEPT ![c].pc = pc]
Begin(c, u, kind, asked) ==
  calls' = [calls EXCEPT ![c] =
              [who |-> u, kind |-> kind, pc |-> "asked", asked |-> asked]]

\* The answer, or the error: the handler's finally releases every lock.
End(c) == calls' = [calls EXCEPT ![c] = Nil]

-----------------------------------------------------------------------------
\* The advisory lock of access administration: readers share it, an
\* administrator's command has it alone.
Reads(c)  == /\ calls[c] # Nil /\ calls[c].kind \notin AdminOps
             /\ calls[c].pc # "asked"
Writes(c) == At(c, "decided")
Queues(c) == At(c, "asked") /\ calls[c].kind \in AdminOps

\* Mutant: a second acquisition waits behind an administrator, as it would
\* on another connection.
SharedQueued(c) == \A d \in Calls : ~Writes(d) /\ ~Queues(d)

\* PostgreSQL grants a reader at once if it reads already, and otherwise
\* when no writer has the lock or waits for it.
SharedGranted(c) ==
  Reads(c) \/ \A d \in Calls : ~Writes(d) /\ ~Queues(d)

\* Mutant: administrators wait for readers and not for each other.
ExclusiveIfUnread(c) == \A d \in Calls \ {c} : ~Reads(d)

\* Mutant: administrators wait for each other only.
ExclusiveIfUnwritten(c) == \A d \in Calls \ {c} : ~Writes(d)

ExclusiveGranted(c) == \A d \in Calls \ {c} : ~Reads(d) /\ ~Writes(d)

\* The session lock, and transactions that hold the cutover gate open.
HasDesk(c) == calls[c] # Nil /\ calls[c].pc \in {"previewed", "capture", "commit", "recheck"}
DeskFree   == \A c \in Calls : ~HasDesk(c)
GateFree   == \A c \in Calls : ~At(c, "commit") /\ ~Writes(c)

=============================================================================
