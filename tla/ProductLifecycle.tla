-------------------------- MODULE ProductLifecycle --------------------------
(***************************************************************************)
(* What a person does to a product that Magento already shows: choosing    *)
(* its photographs, archiving it, restoring it, and recounting it into a   *)
(* successor row of the same public identity.  Each action is one          *)
(* transaction of product-photos.service.js, product.service.js or         *)
(* product-lifecycle.service.js, with the triggers of migrations 044, 064  *)
(* and 065 that fire in it.                                                *)
(***************************************************************************)
EXTENDS ShopLedger

shopOnly == <<shop, air, issued, lane>>
amberFrame == <<published, gate, handoff, ledgerVars, magentoVars, lockVars,
                pc, loc, historyVars, shopOnly>>

\* attach(): a new photo set and its job, unless a visibility change is open
\* or the previous job of the row is unfinished.
SavePhotos ==
  /\ product.active /\ OpenIntents = {}
  /\ \A m \in OpenMedia : media[m].row # life.row
  /\ \E m \in MediaId, ids \in SUBSET Photos, enable \in BOOLEAN :
       /\ IsNext(media, m)
       /\ media' = [media EXCEPT ![m] =
            [row |-> life.row, ids |-> ids, enable |-> enable /\ ids # {},
             gen |-> 0, binding |-> 0, state |-> "pending"]]
  /\ UNCHANGED <<amberFrame, product, request, spent, life, intents, msteps>>

\* Mutant: a queued photo set does not stop an archive.
ArchiveAllowedStarted ==
  FenceOpen /\ \A i \in Rows(intents) : intents[i].state # "dispatched"

\* Mutant: no photo set stops an archive.
ArchiveBesidePhotos == \A i \in Rows(intents) : intents[i].state # "dispatched"

\* queueArchivedVisibility: neither unfinished photographs nor a dispatched
\* visibility change.
ArchiveAllowed ==
  /\ OpenMedia = {}
  /\ \A i \in Rows(intents) : intents[i].state # "dispatched"

\* Intents with the queued ones superseded.
QueuedSuperseded ==
  [i \in IntentId |->
     IF intents[i] # NoRow /\ intents[i].state = "queued"
     THEN [intents[i] EXCEPT !.state = "superseded"] ELSE intents[i]]

\* deleteProductBySku: the row, its lifecycle, the request of the trigger and
\* the intent to hide it commit together.
Archive ==
  /\ product.active /\ ArchiveAllowed
  /\ product' = [product EXCEPT !.active = FALSE]
  /\ life' = [life EXCEPT !.version = @ + 1]
  /\ RequestSync
  /\ \E i \in IntentId :
       /\ IsNext(intents, i)
       /\ intents' = [QueuedSuperseded EXCEPT ![i] =
            [kind |-> "hide", row |-> life.row,
             print |-> [life |-> life', product |-> product'],
             target |-> Off, prev |-> 0, gen |-> 0,
             state |-> IF ConfirmedRemote THEN "queued" ELSE "blocked"]]
  /\ UNCHANGED <<amberFrame, spent, media, msteps>>

\* The newest intent to hide the current row.
Hide == LET hides == {i \in Rows(intents) : /\ intents[i].kind = "hide"
                                            /\ intents[i].row = life.row}
        IN  IF hides = {} THEN 0 ELSE Newest(hides)

\* restoreProof: everything about the archived row is settled and it is the
\* row that was archived.
Restorable ==
  /\ ~product.active /\ Hide # 0
  /\ OpenMedia = {} /\ Unfinished = {} /\ ~UnresolvedNative
  /\ intents[Hide].print = FingerprintNow
  /\ \A i \in Rows(intents) : intents[i].state # "dispatched"

\* One item of apply(): a hide that has not run is superseded; one that was
\* verified is followed by an intent to give the product its old status back,
\* bound to the generation of this very restore.
Restore ==
  LET h == Hide
      after == [product EXCEPT !.active = TRUE]
      row == [life EXCEPT !.version = @ + 1]
      back == [kind |-> "restore", row |-> life.row,
               print |-> [life |-> row, product |-> after],
               target |-> intents[h].prev, prev |-> 0,
               gen |-> request'.desired, state |-> "queued"]
  IN  /\ gate /\ idLock = NoProc /\ Restorable
      /\ RequestSync /\ request'.reason # "reconciliation_required"
      /\ product' = after /\ life' = row
      /\ IF intents[h].state = "verified" /\ intents[h].prev # 0
         THEN \E i \in IntentId : /\ IsNext(intents, i)
                                  /\ intents' = [intents EXCEPT ![i] = back]
         ELSE intents' = QueuedSuperseded
      /\ UNCHANGED <<amberFrame, spent, media, msteps>>

\* inheritRecountPhotos: the source's job is over, or was never started.
Inheritable(m) ==
  \/ media[m].state = "succeeded"
  \/ media[m].state \in {"pending", "blocked"} /\ ~Started(m)

\* The successor's job, and the end of a job that was never started.
Inherited(m, n) ==
  [media EXCEPT ![n] = [row |-> life.row + 1, ids |-> media[m].ids,
                        enable |-> media[m].enable, gen |-> 0, binding |-> 0,
                        state |-> "pending"],
                ![m].state = IF @ = "succeeded" THEN @ ELSE "superseded"]

\* applyProductRecount: a new row of the identity with another content; the
\* fence of migration 065 refuses it beside a started media job.
Recount ==
  /\ product.active /\ FenceOpen /\ Spend("edit")
  /\ \E i \in Inputs \ {product.input} :
       product' = [product EXCEPT !.input = i]
  /\ RequestSync
  /\ life' = [row |-> life.row + 1, since |-> request'.desired, version |-> 0]
  /\ IF CurrentSet = 0 THEN UNCHANGED media
     ELSE /\ Inheritable(CurrentSet)
          /\ \E n \in MediaId : /\ IsNext(media, n)
                                /\ media' = Inherited(CurrentSet, n)
  /\ UNCHANGED <<amberFrame, intents, msteps>>

\* An edit of the product: the same fence.
FencedEdit == FenceOpen /\ Edit /\ UNCHANGED shopVars

\* A handoff of binding-handoff.js that asks for a new generation while the
\* fence is closed: its error ends the whole tick().
HandoffRefused ==
  gate /\ handoff /\ product.active /\ ~Protected /\ ~FenceOpen

FencedHandoff == ~HandoffRefused /\ ProcessHandoff /\ UNCHANGED shopVars

\* tick() looks for work only after its handoffs went through.
PollAfterHandoffs(w) == ~HandoffRefused /\ Poll(w) /\ UNCHANGED shopVars

=============================================================================
