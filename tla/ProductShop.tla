---------------------------- MODULE ProductShop -----------------------------
(***************************************************************************)
(* One product in the shop: MagentoSync composed with the lifecycle of the *)
(* product, its visibility intents and its media jobs.  The identity and   *)
(* SKU locks, the request, the sync jobs and the products row are shared;  *)
(* nothing else is.                                                        *)
(***************************************************************************)
EXTENDS ProductLifecycle, ProductVisibility, ProductMedia

ShopTypeOK ==
  /\ life \in Life
  /\ intents \in [IntentId -> Intent \cup {NoRow}]
  /\ media \in [MediaId -> Media \cup {NoRow}]
  /\ msteps \in [MediaId -> [Keys -> StepStates]]
  /\ shop \in Shop
  /\ \A a \in air : a.op \in Ops
  /\ issued \in [Ops -> Nat]
  /\ lane \in [Lanes -> Lane]

-----------------------------------------------------------------------------
\* The product was delivered and has no photographs and no intent yet; its
\* status is what someone gave it in Magento.
Delivered == [state |-> "succeeded", auto |-> 1, amber |-> InitialProduct,
              binding |-> 1, ops |-> {Core},
              base |-> [f \in Fields |-> Absent], failure |-> "none"]

ShopInit ==
  /\ product = InitialProduct /\ published = 1
  /\ gate = TRUE /\ handoff = FALSE
  /\ request = [desired |-> 1, synced |-> 1, active |-> NoJob, activeGen |-> 0,
                state |-> "synced", reason |-> "none"]
  /\ jobs  = [j \in JobId |-> IF j = 1 THEN Delivered ELSE NoRow]
  /\ steps = [j \in JobId |-> [f \in Fields |->
                IF j = 1 /\ f = Core THEN "verified" ELSE "none"]]
  /\ remote = [f \in Fields |-> product.input]
  /\ wire = {}
  /\ sent = [j \in JobId |-> [f \in Fields |-> IF j = 1 /\ f = Core THEN 1 ELSE 0]]
  /\ idLock = NoProc /\ skuLock = NoProc
  /\ pc = [p \in Proc |-> "idle"] /\ loc = [p \in Proc |-> FreshLocal]
  /\ acked = product.input /\ refuted = {}
  /\ spent = [k \in Kinds |-> 0]
  /\ life = [row |-> 1, since |-> 1, version |-> 0]
  /\ intents = [i \in IntentId |-> NoRow]
  /\ media = [m \in MediaId |-> NoRow]
  /\ msteps = [m \in MediaId |-> [k \in Keys |-> "none"]]
  /\ \E s \in {On, Off} : shop = [status |-> s, gallery |-> [p \in Photos |-> "none"]]
  /\ air = {} /\ issued = [op \in Ops |-> 0]
  /\ lane = [l \in Lanes |-> IdleLane]

-----------------------------------------------------------------------------
\* Magento: a status or gallery mutation takes effect, however late, or never.
Applied(act, photo) ==
  CASE act = "hide"   -> [shop EXCEPT !.status = Off]
    [] act = "enable" -> [shop EXCEPT !.status = On]
    [] act = "remove" -> [shop EXCEPT !.gallery[photo] = "disabled"]
    [] OTHER          -> [shop EXCEPT !.gallery[photo] = "shown"]

Arrive ==
  /\ \E a \in air : /\ air' = air \ {a}
                    /\ shop' = Applied(a.act, a.op.key.photo)
  /\ UNCHANGED <<vars, rowVars, issued, lane>>

Vanish ==
  /\ \E a \in air : air' = air \ {a}
  /\ UNCHANGED <<vars, rowVars, shop, issued, lane>>

\* Another Magento writer changes the status.
ForeignStatus ==
  /\ Spend("foreign")
  /\ shop' = [shop EXCEPT !.status = On + Off - @]
  /\ UNCHANGED <<nativeVars, request, jobs, lockVars, rowVars, air, issued, lane>>

\* A lane dies, and its sessions with it.
LaneCrash(l) ==
  /\ ~At(l, "idle") /\ Spend("crash")
  /\ LaneEnds(l)
  /\ UNCHANGED <<nativeVars, jobs, request, rowVars, shop, air, issued>>

-----------------------------------------------------------------------------
People == SavePhotos \/ Archive \/ Restore \/ Recount \/ FencedEdit
          \/ (Touch /\ UNCHANGED shopVars)

\* Everything of MagentoSync that does not touch the products row.
Native ==
  /\ \/ \E w \in Workers : RunProduct(w)
     \/ \E o \in Operators : Recover(o)
     \/ \E p \in Proc : Act(p) \/ Crash(p)
     \/ LoseSessions \/ Publish \/ Disable \/ Deliver \/ Lose \/ ForeignWrite
  /\ UNCHANGED shopVars

LaneStep(l) == Visibility(l) \/ DeliverMedia(l)
Lane_(l) ==
  \/ TakeIntent(l) \/ TakeMedia(l) \/ LaneStep(l)
  \/ ReviewIntent(l) \/ ReviewMedia(l)
  \/ StatusFault(l) \/ MediaFault(l) \/ LaneCrash(l)

ShopQuiet == Quiet /\ UNCHANGED shopVars

ShopNext ==
  \/ People \/ Native \/ FencedHandoff
  \/ \E w \in Workers : PollAfterHandoffs(w)
  \/ \E l \in Lanes : Lane_(l)
  \/ Arrive \/ Vanish \/ ForeignStatus
  \/ ShopQuiet

allVars == <<vars, shopVars>>
ShopSpec == ShopInit /\ [][ShopNext]_allVars

\* The runtimes' timers always fire again, a started call goes on, and a lock
\* that is free again and again is found free by a timer that keeps trying for
\* it: the locks are held for one pass, the timers wait five seconds.  Nothing
\* obliges a person, a review or Magento.
FindsLockFree(w) ==
  []<><<Claim(w) /\ idLock # NoProc>>_allVars
    => []<><<Claim(w) /\ idLock' = w>>_allVars

ShopFairness ==
  /\ \A w \in Workers : /\ SF_allVars(WorkerStep(w) /\ UNCHANGED shopVars)
                        /\ WF_allVars(PollAfterHandoffs(w))
                        /\ FindsLockFree(w)
  /\ WF_allVars(FencedHandoff)
  /\ \A l \in Lanes : /\ WF_allVars(LaneStep(l))
                      /\ SF_allVars(TakeIntent(l) \/ TakeMedia(l))

FairShop == ShopSpec /\ ShopFairness

-----------------------------------------------------------------------------
\* Every marker and every mutation of this module, and the promise they keep:
\* the one MagentoSync keeps for its own.
ShopLedgerOf == INSTANCE DispatchLedger
                  WITH Step   <- Ops,
                       marker <- [op \in Ops |-> Marker(op)],
                       sent   <- issued
ShopLedgerSpec == ShopLedgerOf!Spec

-----------------------------------------------------------------------------
\* Safety.

\* An intent of an earlier row that may still be sent, or was.
Orphan == \E i \in OpenIntents : intents[i].row # life.row

\* Of one row, a visibility change and a photo set are never under way
\* together: each of them decides the status.
OneAuthority ==
  \A i \in OpenIntents, m \in OpenMedia : intents[i].row # media[m].row

\* Nothing is called verified while its mutation may still arrive.
InFlightIsUnresolved ==
  ~Orphan => \A a \in air : Marker(a.op) = "dispatched"

\* An archived product whose hiding was confirmed stays hidden: no mutation
\* of an earlier decision arrives late.
HiddenWhileArchived ==
  /\ ~product.active /\ Hide # 0
  /\ intents[Hide].state = "verified" /\ intents[Hide].print = FingerprintNow
  => shop.status = Off /\ \A a \in air : a.act # "enable"

\* While a photo job's enabling is unresolved, the product Magento is about
\* to show is the product Amber has: the fence holds every edit back.
EnableIsCurrent ==
  \A m \in Rows(media) : msteps[m][StatusKey("enable")] = "dispatched" =>
    /\ product.active /\ media[m].row = life.row
    /\ request.desired = media[m].gen /\ acked = product.input
    /\ \A p \in media[m].ids : shop.gallery[p] = "shown"

\* A delivered photo set is what Magento shows, no less and no more, until the
\* next one.
GalleryIsTheSet ==
  LET m == CurrentSet
  IN  m # 0 /\ media[m].state = "succeeded" =>
        \A p \in Photos : (shop.gallery[p] = "shown") = (p \in media[m].ids)

\* A visibility change enables only what was delivered as it is now.
RestoreIsCurrent ==
  [][\A i \in Rows(intents) :
       /\ NeedsPhotos(i) /\ intents[i].state = "queued"
       /\ intents'[i].state \in {"dispatched", "verified"}
       => /\ NativeSynced /\ request.synced = intents[i].gen
          /\ acked = product.input
          /\ \A p \in media[CurrentSet].ids : shop.gallery[p] = "shown"]_allVars

-----------------------------------------------------------------------------
\* Liveness.

\* An archived product does not keep its intent to hide it queued, whatever
\* the workers were doing when it was archived.
HideIsSettled ==
  \A i \in IntentId :
    intents[i] # NoRow /\ intents[i].kind = "hide" /\ intents[i].state = "queued"
      ~> intents[i].state # "queued" \/ ~gate

\* A restored product gets its old status back, or a person has to look.
RestoreIsSettled ==
  \A i \in IntentId :
    intents[i] # NoRow /\ intents[i].kind = "restore" /\ intents[i].state = "queued"
      ~> intents[i].state # "queued" \/ request.state = "needs_attention" \/ ~gate

\* A photo set waits for the native side and for nothing else.
MediaIsSettled ==
  \A m \in MediaId :
    media[m] # NoRow /\ media[m].state \in {"pending", "running"}
      ~> \/ media[m].state \notin {"pending", "running"}
         \/ request.state = "needs_attention" \/ ~gate

-----------------------------------------------------------------------------
\* What documents and comments say, and the code does not do.

\* docs/MAGENTO_AUTOMATIC_SYNC.md:14-16: pending obligations of a binding
\* handoff are settled before each ordinary queue pass.
HandoffIsSettled == handoff ~> ~handoff \/ ~gate

=============================================================================
