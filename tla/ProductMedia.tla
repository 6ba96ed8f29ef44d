---------------------------- MODULE ProductMedia ----------------------------
(***************************************************************************)
(* product-media-delivery.js: processJob hides the product, uploads and    *)
(* orders the photographs of the set, takes the others off, verifies all   *)
(* of them and enables the product, each mutation behind a marker of its   *)
(* own; a job is pinned to the generation and the binding it began with.   *)
(* The gallery keeps which photographs are shown, not their positions.     *)
(* A reviewer runs the same function read-only.  fresh() (the guard, then  *)
(* a read of Magento) is merged with the decision that follows it.         *)
(***************************************************************************)
EXTENDS ShopLedger

\* What an action of this module never writes.
mediaFrame == <<nativeVars, jobs, request, life, intents>>

PhotoJob(l)  == media[lane[l].id]
StepsOf(l) == msteps[lane[l].id]

\* authorize(): the gate, the pinned binding, the current row, the native
\* side at rest, the pinned generation and its acknowledged job.
Authorised(m) ==
  /\ gate /\ media[m].binding \in {0, published}
  /\ media[m].row = life.row /\ product.active /\ NativeSynced
  /\ media[m].gen \in {0, request.synced}
  /\ AckedGeneration(request.synced)

\* NATIVE_SYNC_REQUIRED is the refusal when all checks before it passed.
AwaitsNative(m) ==
  /\ gate /\ media[m].binding \in {0, published}
  /\ media[m].row = life.row /\ product.active /\ ~NativeSynced

\* Mutant: a photograph that is no longer of the set needs no proof.
EffectOfAdding(k) ==
  IF k.act = "hide" THEN shop.status = Off
  ELSE IF k.act = "enable" THEN shop.status = On
  ELSE k.act = "remove" \/ shop.gallery[k.photo] = "shown"

\* The effect of a step, as its verify callback sees it.
Effect(k) ==
  IF k.act = "hide" THEN shop.status = Off
  ELSE IF k.act = "enable" THEN shop.status = On
  ELSE shop.gallery[k.photo] = IF k.act = "remove" THEN "disabled" ELSE "shown"

AllShown(l) == \A p \in PhotoJob(l).ids : shop.gallery[p] = "shown"
Enables(l)  == PhotoJob(l).enable /\ PhotoJob(l).ids # {}

\* The step of one photograph of the set: uploaded, unless it is there and
\* was not uploaded by this job.
PhotoKey(l, p) ==
  [photo |-> p, act |-> IF \/ shop.gallery[p] = "none"
                           \/ StepsOf(l)[[act |-> "upload", photo |-> p]] # "none"
                        THEN "upload" ELSE "order"]

\* The steps that may come next, {} when only the end is left; the photographs
\* have some order.
NextKeys(l) ==
  LET done == lane[l].done
      todo == {p \in PhotoJob(l).ids : \A k \in done : k.photo # p}
      rest == {p \in Photos \ PhotoJob(l).ids : /\ shop.gallery[p] # "none"
                                           /\ \A k \in done : k.photo # p}
      Once(key) == IF key \in done THEN {} ELSE {key}
  IN  IF ~lane[l].lit /\ StatusKey("hide") \notin done
      THEN {StatusKey("hide")}
      ELSE IF todo # {} THEN {PhotoKey(l, p) : p \in todo}
      ELSE IF rest # {}
      THEN {[act |-> "remove", photo |-> p] : p \in rest}
      ELSE IF Enables(l) THEN Once(StatusKey("enable")) ELSE {}

\* What a step that is about to run needs of Magento.
Allowed(l, k) ==
  IF k.act = "hide" THEN TRUE
  ELSE IF k.act = "enable" THEN AllShown(l) /\ (lane[l].lit \/ shop.status = Off)
  ELSE shop.status = Off \/ (lane[l].lit /\ Effect(k))

Broken(l) == LaneTo(l, "broken")
Passed(l, k) ==
  lane' = [lane EXCEPT ![l].at = "step", ![l].done = @ \cup {k},
                       ![l].key = NoPhoto]

-----------------------------------------------------------------------------
\* processJob

\* The locks, the guard, the first read, and the pin of a job not yet pinned.
EnterJob(l, m, review) ==
  /\ At(l, "idle") /\ LocksFree
  /\ TakeLocks(l)
  /\ lane' = [lane EXCEPT ![l].id = m, ![l].review = review,
                ![l].at = IF Authorised(m) THEN "step" ELSE "broken",
                ![l].code = IF AwaitsNative(m) THEN "native" ELSE "other",
                ![l].lit = msteps[m][StatusKey("enable")] # "none"]
  /\ media' = IF Authorised(m) /\ media[m].gen = 0
              THEN [media EXCEPT ![m].gen = request.synced,
                                 ![m].binding = published,
                                 ![m].state = "running"]
              ELSE media
  /\ UNCHANGED <<mediaFrame, msteps, shop, air, issued>>

\* processPending selects it ...
TakeMedia(l) ==
  /\ gate /\ NativeSynced
  /\ \E m \in Rows(media) : /\ media[m].state \in {"pending", "running"}
                            /\ media[m].row = life.row
                            /\ EnterJob(l, m, FALSE)
  /\ UNCHANGED spent

\* ... or a person has the newest job of the row looked at.
ReviewMedia(l) ==
  /\ Spend("command")
  /\ CurrentSet # 0 /\ media[CurrentSet].state \notin {"succeeded", "superseded"}
  /\ EnterJob(l, CurrentSet, TRUE)

\* step(), up to its first decision.
DecideStep(l) ==
  /\ At(l, "step") /\ NextKeys(l) # {}
  /\ \E k \in NextKeys(l) :
       LET receipt == StepsOf(l)[k]
       IN  IF ~Authorised(Keep(l)) \/ ~Allowed(l, k)
              \/ (~Effect(k) /\ receipt # "none")
           THEN Broken(l)
           ELSE IF Effect(k)
           THEN IF receipt = "dispatched"
                THEN lane' = [lane EXCEPT ![l].at = "seal", ![l].key = k]
                ELSE Passed(l, k)
           ELSE lane' = [lane EXCEPT ![l].key = k, ![l].at =
                  IF lane[l].review THEN "reopen" ELSE "mark"]
  /\ UNCHANGED <<mediaFrame, media, msteps, shop, air, issued, lockVars, spent>>

\* A reviewer stops at the first step that is missing; the job goes back to
\* the runtime unless a marker is unresolved.
Reopen(l) ==
  LET m == Keep(l)
  IN  /\ At(l, "reopen")
      /\ IF UnresolvedSteps(m) # {}
         THEN LaneEnds(l) /\ UNCHANGED media
         ELSE IF Authorised(m)
         THEN /\ media' = [media EXCEPT ![m].state = "pending"]
              /\ LaneEnds(l)
         ELSE Broken(l) /\ UNCHANGED <<media, lockVars>>
      /\ UNCHANGED <<mediaFrame, msteps, shop, air, issued, spent>>

\* The primary key of product_media_steps.
MarkerFree(l) == StepsOf(l)[lane[l].key] = "none"

\* The marker commits before HTTP; the reply of the commit may be lost.
MarkStep(l) ==
  LET m == Keep(l) k == lane[l].key
  IN  /\ At(l, "mark")
      /\ IF ~Authorised(m) \/ ~MarkerFree(l)
         THEN Broken(l) /\ UNCHANGED <<msteps, spent>>
         ELSE /\ msteps' = [msteps EXCEPT ![m][k] = "dispatched"]
              /\ \/ /\ LaneTo(l, IF k.act = "enable" THEN "recheck" ELSE "send")
                    /\ UNCHANGED spent
                 \/ Spend("fault") /\ Broken(l)
      /\ UNCHANGED <<mediaFrame, media, shop, air, issued, lockVars>>

\* dispatch() of the enabling step looks at everything once more; a refusal
\* is swallowed and Magento read back.
RecheckEnable(l) ==
  /\ At(l, "recheck")
  /\ LaneTo(l, IF AllShown(l) /\ shop.status = Off /\ Authorised(Keep(l))
               THEN "send" ELSE "check")
  /\ UNCHANGED <<mediaFrame, media, msteps, shop, air, issued, lockVars, spent>>

SendStep(l) ==
  /\ At(l, "send")
  /\ Emit(MediaOp(Keep(l), lane[l].key), lane[l].key.act)
  /\ LaneTo(l, "check")
  /\ UNCHANGED <<mediaFrame, media, msteps, shop, lockVars, spent>>

\* fresh() and verify decide, whatever the dispatch answered.
CheckStep(l) ==
  /\ At(l, "check")
  /\ LaneTo(l, IF Authorised(Keep(l)) /\ Effect(lane[l].key)
               THEN "seal" ELSE "broken")
  /\ UNCHANGED <<mediaFrame, media, msteps, shop, air, issued, lockVars, spent>>

SealStep(l) ==
  LET m == Keep(l) k == lane[l].key
  IN  /\ At(l, "seal")
      /\ IF Authorised(m)
         THEN /\ msteps' = [msteps EXCEPT ![m][k] = "verified"]
              /\ Passed(l, k)
         ELSE Broken(l) /\ UNCHANGED msteps
      /\ UNCHANGED <<mediaFrame, media, shop, air, issued, lockVars, spent>>

\* Every step done: all photographs and the status, read once more.
FinishJob(l) ==
  /\ At(l, "step") /\ NextKeys(l) = {}
  /\ LaneTo(l, IF /\ Authorised(Keep(l)) /\ AllShown(l)
                  /\ shop.status = IF Enables(l) THEN On ELSE Off
               THEN "succeed" ELSE "broken")
  /\ UNCHANGED <<mediaFrame, media, msteps, shop, air, issued, lockVars, spent>>

SucceedJob(l) ==
  LET m == Keep(l)
  IN  /\ At(l, "succeed")
      /\ IF Authorised(m)
         THEN /\ media' = [media EXCEPT ![m].state = "succeeded"]
              /\ LaneEnds(l)
         ELSE Broken(l) /\ UNCHANGED <<media, lockVars>>
      /\ UNCHANGED <<mediaFrame, msteps, shop, air, issued, spent>>

\* Mutant: a job with no marker unresolved is tried again.
BrokenStateAgain(m) == IF UnresolvedSteps(m) # {} THEN "uncertain" ELSE "pending"

\* The state the catch records.
BrokenState(m) == IF UnresolvedSteps(m) # {} THEN "uncertain" ELSE "blocked"

\* The catch: a job that only waits for the native side stays as it is.
FailJob(l) ==
  LET m == Keep(l)
      waits == /\ lane[l].code = "native" /\ media[m].gen = 0
               /\ UnresolvedSteps(m) = {}
  IN  /\ At(l, "broken")
      /\ media' = IF waits \/ media[m].state \in {"succeeded", "superseded"}
                  THEN media ELSE [media EXCEPT ![m].state = BrokenState(m)]
      /\ LaneEnds(l)
      /\ UNCHANGED <<mediaFrame, msteps, shop, air, issued, spent>>

MediaFault(l) ==
  /\ lane[l].at \in {"step", "check"} /\ Spend("fault")
  /\ Broken(l)
  /\ UNCHANGED <<mediaFrame, media, msteps, shop, air, issued, lockVars>>

-----------------------------------------------------------------------------
DeliverMedia(l) ==
  \/ DecideStep(l) \/ Reopen(l) \/ MarkStep(l) \/ RecheckEnable(l)
  \/ SendStep(l) \/ CheckStep(l) \/ SealStep(l) \/ FinishJob(l)
  \/ SucceedJob(l) \/ FailJob(l)

=============================================================================
