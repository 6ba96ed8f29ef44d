------------------------- MODULE ProductVisibility --------------------------
(***************************************************************************)
(* product-visibility-worker.js: a queued intent is verified against       *)
(* Amber, compared with Magento, marked, sent once, read back and verified *)
(* against Amber again, in separate transactions under the two session     *)
(* locks; and the review that confirms an intent left blocked or           *)
(* dispatched.  A failed read is a fault.                                  *)
(***************************************************************************)
EXTENDS ShopLedger

\* What an action of this module never writes.
visFrame == <<nativeVars, life, media, msteps>>

\* Jobs of the archived row that never left a trace.
Cancelable == {j \in Unfinished : Supersedable(j) /\ jobs[j].auto >= life.since}

\* Mutant: a hide waits for the native side as a restore does.
LocalCodePatient(i) ==
  IF intents[i].row = life.row /\ (UnresolvedNative \/ Unfinished # {})
  THEN "wait" ELSE "ok"

\* verifyLocal without its photo proof.
LocalCode(i) ==
  LET intent == intents[i]
  IN  IF ~gate \/ intent.row # life.row \/ intent.print # FingerprintNow THEN "fail"
      ELSE IF intent.kind = "hide"
      THEN IF UnresolvedNative \/ Unfinished # Cancelable THEN "fail" ELSE "ok"
      ELSE IF Unfinished # {} \/ UnresolvedNative THEN "wait"
      ELSE IF request.desired # intent.gen THEN "fail"
      ELSE IF /\ request.state = "synced" /\ request.synced = intent.gen
              /\ AckedGeneration(intent.gen)
           THEN "ok" ELSE "wait"

\* assertCanEnableVisibility: the photo set of the row was delivered, and
\* nothing newer is asked of the native side.
CanEnable ==
  /\ CurrentSet # 0 /\ product.active /\ NativeSynced
  /\ LET job == media[CurrentSet]
     IN  job.state = "succeeded" /\ job.enable /\ job.ids # {}

\* Restoring the enabled status needs the photographs.
NeedsPhotos(i) == intents[i].kind = "restore" /\ intents[i].target = On

\* Mutant: what the first transaction verified still holds.
CodeOfFirst(l) == "ok"

\* verifyLocal with the photo proof taken before.
FullCode(l) ==
  LET i == Keep(l)
  IN  IF LocalCode(i) = "ok" /\ NeedsPhotos(i)
         /\ ~(CanEnable /\ lane[l].proof = CurrentSet)
      THEN "fail" ELSE LocalCode(i)

\* cancelUndispatchedNative, in the transaction that verified a hide.
CancelNative(i) ==
  IF intents[i].kind = "hide" /\ Cancelable # {}
  THEN /\ jobs' = [j \in JobId |->
            IF j \in Cancelable THEN [jobs[j] EXCEPT !.state = "superseded"]
            ELSE jobs[j]]
       /\ request' = IF request.active \in Cancelable
                     THEN [request EXCEPT !.active = NoJob, !.activeGen = 0,
                                          !.state = "needs_attention",
                                          !.reason = "product_retired"]
                     ELSE request
  ELSE UNCHANGED <<jobs, request>>

SetState(i, state) == intents' = [intents EXCEPT ![i].state = state]

-----------------------------------------------------------------------------
\* runIntent

\* processPending picks a queued intent; busy locks leave it for later.
TakeIntent(l) ==
  /\ At(l, "idle") /\ gate /\ LocksFree
  /\ \E i \in Rows(intents) :
       /\ intents[i].state = "queued"
       /\ lane' = [lane EXCEPT ![l].at = "verify", ![l].id = i]
  /\ TakeLocks(l)
  /\ UNCHANGED <<visFrame, jobs, request, intents, shop, air, issued, spent>>

\* The first transaction.
VerifyIntent(l) ==
  LET code == LocalCode(Keep(l))
  IN  /\ At(l, "verify")
      /\ IF code = "ok" THEN CancelNative(Keep(l))
                        ELSE UNCHANGED <<jobs, request>>
      /\ IF code = "wait" THEN LaneEnds(l)
         ELSE /\ LaneTo(l, IF code = "ok" THEN "look" ELSE "failed")
              /\ UNCHANGED lockVars
      /\ UNCHANGED <<visFrame, intents, shop, air, issued, spent>>

\* The status Magento has now; a product to be restored must be as it was
\* left, or already as wanted.
LookAtStatus(l) ==
  LET intent == intents[Keep(l)]
      changed == intent.kind = "restore" /\ shop.status \notin {Off, intent.target}
  IN  /\ At(l, "look")
      /\ lane' = [lane EXCEPT ![l].raw = shop.status, ![l].at =
           IF changed THEN "failed"
           ELSE IF NeedsPhotos(Keep(l)) THEN "photos" ELSE "prepare"]
      /\ UNCHANGED <<visFrame, jobs, request, lockVars, intents, shop, air,
                     issued, spent>>

\* verifyCurrentPhotoSet: the local proof, and every photograph in Magento.
CheckPhotos(l) ==
  LET i == Keep(l)
      ok == /\ CanEnable /\ request.synced = intents[i].gen
            /\ \A p \in media[CurrentSet].ids : shop.gallery[p] = "shown"
  IN  /\ At(l, "photos")
      /\ lane' = [lane EXCEPT ![l].proof = CurrentSet, ![l].at =
           IF ~ok THEN "failed"
           ELSE IF lane[l].review THEN "confirm" ELSE "prepare"]
      /\ UNCHANGED <<visFrame, jobs, request, lockVars, intents, shop, air,
                     issued, spent>>

\* The row is still queued.
Queued(i) == intents[i].state = "queued"

\* The second transaction: already as wanted, or the marker is committed; the
\* reply of the commit may be lost.
Prepare(l) ==
  LET i    == Keep(l)
      code == FullCode(l)
      seen == lane[l].raw
      row  == [intents[i] EXCEPT
                 !.prev = IF intents[i].kind = "hide" /\ @ = 0 THEN seen ELSE @,
                 !.state = IF seen = intents[i].target THEN "verified"
                                                       ELSE "dispatched"]
  IN  /\ At(l, "prepare")
      /\ IF ~Queued(i) \/ code = "wait"
         THEN LaneEnds(l) /\ UNCHANGED <<jobs, request, intents, spent>>
         ELSE IF code = "fail"
         THEN /\ LaneTo(l, "failed")
              /\ UNCHANGED <<jobs, request, intents, lockVars, spent>>
         ELSE /\ CancelNative(i)
              /\ intents' = [intents EXCEPT ![i] = row]
              /\ \/ /\ row.state = "verified" /\ LaneEnds(l) /\ UNCHANGED spent
                 \/ /\ row.state = "dispatched" /\ LaneTo(l, "put")
                    /\ UNCHANGED <<lockVars, spent>>
                 \/ Spend("fault") /\ LaneTo(l, "failed") /\ UNCHANGED lockVars
      /\ UNCHANGED <<visFrame, shop, air, issued>>

\* One PUT; whatever it answers, Magento is read back.
PutStatus(l) ==
  /\ At(l, "put")
  /\ Emit(IntentOp(Keep(l)), IF intents[Keep(l)].target = On THEN "enable" ELSE "hide")
  /\ LaneTo(l, "readback")
  /\ UNCHANGED <<visFrame, jobs, request, lockVars, intents, shop, spent>>

\* Mutant: the reply of the PUT is believed.
ReplyBelieved(i) == TRUE

\* Magento shows the status the intent asks for.
ReadsAsWanted(i) == shop.status = intents[i].target

ReadStatus(l) ==
  /\ At(l, "readback")
  /\ LaneTo(l, IF ReadsAsWanted(Keep(l)) THEN "acknowledge" ELSE "failed")
  /\ UNCHANGED <<visFrame, jobs, request, lockVars, intents, shop, air, issued,
                 spent>>

\* The third transaction.
AcknowledgeIntent(l) ==
  LET i == Keep(l)
  IN  /\ At(l, "acknowledge")
      /\ IF FullCode(l) = "ok"
         THEN CancelNative(i) /\ SetState(i, "verified") /\ LaneEnds(l)
         ELSE /\ LaneTo(l, "failed")
              /\ UNCHANGED <<jobs, request, intents, lockVars>>
      /\ UNCHANGED <<visFrame, shop, air, issued, spent>>

\* Mutant: a failed intent is queued again, whatever was sent.
RetriedState(state) == IF state = "dispatched" THEN "queued" ELSE state

\* Mutant: the states of the media jobs.
FailedAsJob(state) == IF state = "dispatched" THEN "uncertain" ELSE "blocked"

\* Mutant: nothing is given up.
KeptQueued(state) == state

\* The catch keeps a marker for ever.
FailedIntent(state) == IF state = "queued" THEN "blocked" ELSE state

FailIntent(l) ==
  LET i == Keep(l)
  IN  /\ At(l, "failed")
      /\ IF lane[l].review THEN UNCHANGED intents
         ELSE SetState(i, FailedIntent(intents[i].state))
      /\ LaneEnds(l)
      /\ UNCHANGED <<visFrame, jobs, request, shop, air, issued, spent>>

StatusFault(l) ==
  /\ lane[l].at \in {"look", "photos", "readback"} /\ Spend("fault")
  /\ LaneTo(l, "failed")
  /\ UNCHANGED <<visFrame, jobs, request, lockVars, intents, shop, air, issued>>

-----------------------------------------------------------------------------
\* reconcile

\* A person confirms what Magento shows.
ReviewIntent(l) ==
  /\ At(l, "idle") /\ Spend("command") /\ LocksFree
  /\ \E i \in Rows(intents) :
       /\ intents[i].state \in {"blocked", "dispatched"}
       /\ shop.status = intents[i].target
       /\ lane' = [lane EXCEPT ![l].id = i, ![l].was = intents[i],
                     ![l].review = TRUE,
                     ![l].at = IF NeedsPhotos(i) THEN "photos" ELSE "confirm"]
  /\ TakeLocks(l)
  /\ UNCHANGED <<visFrame, jobs, request, intents, shop, air, issued>>

ConfirmIntent(l) ==
  LET i == Keep(l)
  IN  /\ At(l, "confirm")
      /\ IF intents[i] = lane[l].was /\ FullCode(l) = "ok"
         THEN CancelNative(i) /\ SetState(i, "verified")
         ELSE UNCHANGED <<jobs, request, intents>>
      /\ LaneEnds(l)
      /\ UNCHANGED <<visFrame, shop, air, issued, spent>>

-----------------------------------------------------------------------------
Visibility(l) ==
  \/ VerifyIntent(l) \/ LookAtStatus(l) \/ CheckPhotos(l) \/ Prepare(l)
  \/ PutStatus(l) \/ ReadStatus(l) \/ AcknowledgeIntent(l) \/ FailIntent(l)
  \/ ConfirmIntent(l)

=============================================================================
