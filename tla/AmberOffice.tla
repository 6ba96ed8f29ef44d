---------------------------- MODULE AmberOffice -----------------------------
(***************************************************************************)
(* The office: administration of access, the shared export session and     *)
(* product creation use the same people, the same advisory locks and the   *)
(* same cutover gate, while the server handles several calls at once.      *)
(***************************************************************************)
EXTENDS Authority, ExportSessions, ProductCreation

\* Somebody edits the catalogue or a product, or the rate is refreshed.
Change(x) ==
  /\ x # inputs /\ Spend("change") /\ inputs' = x
  /\ UNCHANGED <<accessVars, phase, sessionVars, creationVars, calls>>

\* The cutover of full-product exports: it freezes writes and later
\* activates.  In each of the two steps it reads the access lock and has the
\* gate alone; how it waited for the two is not modelled.
SwitchPhase ==
  /\ GateFree /\ Spend("phase")
  /\ \/ phase = "legacy" /\ phase' = "preparing"
     \/ phase = "preparing" /\ phase' = "active"
  /\ UNCHANGED <<accessVars, inputs, sessionVars, creationVars, calls>>

\* The connection or the process of a call is lost: PostgreSQL rolls back
\* its transaction and releases its locks, but not the sequence of articles.
Lose(c) ==
  /\ calls[c] # Nil /\ Spend("loss") /\ End(c)
  /\ articles' \in articles..(IF At(c, "entered") /\ calls[c].kind \in {"reserve", "sell"}
                             THEN articles + 1 ELSE articles)
  /\ UNCHANGED <<accessVars, phase, inputs, sessionVars, errands, stock>>

Ask(c)  == calls[c] = Nil /\ (AskAdminister(c) \/ AskSession(c) \/ AskCreate(c))
Step(c) == AdminStep(c) \/ SessionStep(c) \/ CreationStep(c)

OfficeNext ==
  \/ \E c \in Calls : Ask(c) \/ Step(c) \/ Lose(c)
  \/ \E x \in Contents : Change(x)
  \/ SwitchPhase

\* Accounts as the office may find them: an active administrator, others of
\* either role, or pending without one.
FirstAccounts ==
  {f \in [Users -> {[status |-> "active", role |-> "administrator", assignment |-> 1],
                    [status |-> "active", role |-> "clerk", assignment |-> 1],
                    [status |-> "pending", role |-> Nil, assignment |-> 0]}] :
     f[Author].role = "administrator"}

OfficeInit ==
  /\ users \in FirstAccounts
  /\ clerk = [permissions |-> Ordinary, version |-> 1]
  /\ phase = "legacy" /\ inputs \in Contents
  /\ session = Nil /\ attempts = <<>>
  /\ members = [u \in Users |-> [state |-> "none", epoch |-> 0]]
  /\ errands = [e \in Errands |-> [state |-> "none", article |-> 0,
                                   category |-> Nil, receipt |-> Nil]]
  /\ articles = 0 /\ stock = <<>>
  /\ calls = [c \in Calls |-> Nil]
  /\ left \in Days

OfficeSpec == OfficeInit /\ [][OfficeNext]_officeVars

-----------------------------------------------------------------------------
Account == [status : {"active", "pending", "disabled"},
            role : Roles \cup {Nil}, assignment : Nat]
Member == [state : {"none", "pending", "accepted", "declined", "left", "revoked"},
                epoch : Nat]
AttemptState == [rev : Nat \ {0}, settings : Settings, content : Contents,
                 state : {"prepared", "executing", "failed", "superseded", "succeeded"}]
ResultState == [attempt : Nat, settings : Settings, content : Contents, confirmed : BOOLEAN]
SessionState == [owner : Users, settings : Settings, rev : Nat \ {0}, current : Nat,
                 result : ResultState \cup {Nil}]

AdminRequest == [target : Users, role : Roles \cup {Nil}, assignment : Nat,
                 duties : SUBSET Ordinary, version : Nat, affected : Nat]
SharedRequest == [settings : Settings \cup {Nil}, rev : Nat, attempt : Nat,
                  seen : Contents \cup {Nil}, renew : BOOLEAN, epoch : Nat,
                  target : Users, targetEpoch : Nat]
CreationRequest == [key : Keys, goods : Goods, article : Nat, token : Contents]

CallState ==
  [who : Users, kind : AdminOps, pc : {"asked", "decided"}, asked : AdminRequest]
  \cup [who : Users, kind : {"create"}, pc : {"asked", "entered"},
        asked : [settings : Settings]]
  \cup [who : Users, kind : SharingOps, asked : SharedRequest,
        pc : {"asked", "entered", "previewed", "capture", "commit", "recheck"}]
  \cup [who : Users, kind : CreationOps, pc : {"asked", "entered"},
        asked : CreationRequest]

Receipt == [asked : CreationRequest, product : Nat]
ErrandState == [state : {"none", "reserved", "cancelled", "consumed"}, article : Nat,
                category : {g.category : g \in Goods} \cup {Nil},
                receipt : Receipt \cup {Nil}]
Product == [by : Errands, article : Nat, goods : Goods]

\* No row and no call is Nil.
ASSUME NilAssumption ==
  /\ Nil \notin SessionState /\ Nil \notin ResultState /\ Nil \notin CallState
  /\ Nil \notin Receipt /\ Nil \notin [settings : Settings, content : Contents]

\* The types, with what the tables' checks and triggers say: an attempt
\* succeeded exactly when the session has its result, only the current one
\* is not superseded and it has the settings of the session, and a receipt
\* names a product of its own attempt.
OfficeTypeOK ==
  /\ users \in [Users -> Account]
  /\ clerk \in [permissions : SUBSET Ordinary, version : Nat]
  /\ phase \in {"legacy", "preparing", "active"} /\ inputs \in Contents
  /\ session \in SessionState \cup {Nil} /\ attempts \in Seq(AttemptState)
  /\ members \in [Users -> Member]
  /\ errands \in [Errands -> ErrandState] /\ articles \in Nat /\ stock \in Seq(Product)
  /\ calls \in [Calls -> CallState \cup {Nil}] /\ left \in [Kinds -> Nat]
  /\ session = Nil => attempts = <<>>
  /\ session # Nil =>
       /\ session.current \in 0..Len(attempts)
       /\ session.result # Nil => session.current # 0
  /\ \A i \in DOMAIN attempts :
       /\ i # session.current => attempts[i].state = "superseded"
       /\ i = session.current =>
            /\ attempts[i].state # "superseded" /\ attempts[i].rev = session.rev
            /\ attempts[i].settings = session.settings
            /\ (attempts[i].state = "succeeded") = (session.result # Nil)
  /\ \A e \in Errands :
       /\ errands[e].receipt # Nil =>
            /\ errands[e].receipt.product \in DOMAIN stock
            /\ stock[errands[e].receipt.product].by = e
       /\ (errands[e].state = "consumed") => errands[e].receipt # Nil
       /\ errands[e].state \in {"reserved", "cancelled"} => errands[e].receipt = Nil

\* Somebody can always administer the system.  Two administrators who
\* disable each other, or one disabled while another gives the role up, are
\* decided one after the other.
SomeAdministrator == Holders("administrator") # {}

\* Who may do what a call does: the permission of its kind and, for the
\* session, ownership or the membership its request was made under.
Entitled(c) ==
  LET x == calls[c]
  IN  /\ x.kind \in CreationOps => May(x.who, "products.create")
      /\ x.kind \in AccountOps  => May(x.who, "users.manage")
      /\ x.kind = "duties"      => May(x.who, "roles.manage")
      /\ x.kind \in SessionOps  =>
           May(x.who, IF NeedsCreate(x.kind) THEN "exports.create" ELSE "exports.view")
      /\ x.kind \in SharingOps /\ x.who # session.owner =>
           /\ members[x.who].state = "accepted" \/ ~NeedsCreate(x.kind)
           /\ members[x.who].epoch = x.asked.epoch

\* Every write is made by a call whose person is entitled at that moment,
\* whatever administration or the owner did between its checks and its
\* commit.
OnlyTheEntitledWrite ==
  [][<<accessVars, sessionVars, errands, stock>>' # <<accessVars, sessionVars, errands, stock>>
       => \E c \in Calls : calls[c] # Nil /\ calls'[c] # calls[c] /\ Entitled(c)]_officeVars

Settled(r) == [settings |-> r.settings, content |-> r.content]

\* The session, its attempts and the lock over several transactions carry
\* out a shared export.
Export ==
  INSTANCE SharedExport WITH
    settings  <- IF session = Nil THEN Nil ELSE session.settings,
    review    <- IF session = Nil THEN Nil
                 ELSE IF session.current = 0 THEN Nil
                 ELSE Settled(attempts[session.current]),
    result    <- IF session = Nil THEN Nil
                 ELSE IF session.result = Nil THEN Nil ELSE Settled(session.result),
    confirmed <- IF session = Nil THEN FALSE
                 ELSE session.result # Nil /\ session.result.confirmed

SharedExportSpec == Export!ExportSpec

\* An attempt as the book shows it.
Shown(state) ==
  CASE state = "none" -> "open"         [] state = "reserved" -> "held"
    [] state = "cancelled" -> "dropped" [] state = "consumed" -> "lost"

BookState(e) ==
  IF errands[e].receipt # Nil THEN "made" ELSE Shown(errands[e].state)

BookArticle(e) ==
  IF errands[e].receipt = Nil THEN errands[e].article
                              ELSE stock[errands[e].receipt.product].article

\* Reservations, receipts and products of three tables keep one book.
Book ==
  INSTANCE CreationBook WITH
    book     <- [e \in Errands |-> [state |-> BookState(e), article |-> BookArticle(e)]],
    given    <- articles,
    products <- stock

CreationBookSpec == Book!BookSpec

\* Readers, an administrator who waits for them, the session lock and the
\* lock that a call takes twice never wait in a circle: while calls are
\* being handled, one of them can go on.  A call has a bounded number of
\* steps, so all of them are answered.
SomeCallGoesOn ==
  (\E c \in Calls : calls[c] # Nil) => \E c \in Calls : ENABLED Step(c)

=============================================================================
