----------------------------- MODULE ShopLedger -----------------------------
(***************************************************************************)
(* What archiving, restoring and photographing a product adds to the       *)
(* synchronisation of MagentoSync: the visibility intents and the media    *)
(* jobs of the same public identity, Magento's status and gallery, and the *)
(* lanes that work on them under the locks the workers use.  Each intent   *)
(* and each step of a media job is one marker and at most one mutation.    *)
(***************************************************************************)
EXTENDS MagentoSync

CONSTANTS
  Lanes,       \* processes of the visibility and media runtimes and reviewers
  Photos,      \* photographs staged in Amber
  NoPhoto,     \* what a status step is about
  MaxIntents,  \* bound: rows of product_visibility_intents
  MaxMedia     \* bound: rows of product_media_jobs

IntentId == 1..MaxIntents
MediaId  == 1..MaxMedia

ASSUME ShopAssumption ==
  /\ Lanes \cap (Proc \cup {NoProc}) = {}
  /\ NoPhoto \notin Photos
  /\ MaxIntents \in Nat /\ MaxMedia \in Nat

VARIABLES
  life,      \* the identity's current products row and its delivery_version
  intents,   \* product_visibility_intents
  media,     \* product_media_jobs; the newest holds the photo set
  msteps,    \* product_media_steps
  shop,      \* Magento: status and gallery of the product
  air,       \* status and gallery mutations on their way
  issued,    \* history: HTTP mutations sent per marker
  lane       \* where each lane is and what it holds

shopVars == <<life, intents, media, msteps, shop, air, issued, lane>>
rowVars  == <<life, intents, media, msteps>>

-----------------------------------------------------------------------------
\* Rows.

On  == 1          \* Magento status: enabled
Off == 2          \* disabled

\* The row, the generation its Magento request had when it was created, and
\* the version of its lifecycle row.
Life == [row : Nat, since : Nat, version : Nat]

\* state.fingerprint: the product row with its lifecycle row.
Fingerprint  == [life : Life, product : Product]
FingerprintNow == [life |-> life, product |-> product]

Intent == [kind : {"hide", "restore"}, row : Nat, print : Fingerprint,
           target : {On, Off}, prev : {0, On, Off}, gen : Nat,
           state : {"queued", "blocked", "dispatched", "verified",
                    "superseded"}]
Media  == [row : Nat, ids : SUBSET Photos, enable : BOOLEAN, gen : Nat,
           binding : Nat,
           state : {"pending", "running", "uncertain", "blocked",
                    "succeeded", "superseded"}]

Rows(table)   == {n \in DOMAIN table : table[n] # NoRow}
IsNext(table, n) == table[n] = NoRow /\ \A k \in 1..n - 1 : table[k] # NoRow

\* The steps of a media job, and everything a marker can stand for.
StatusKey(act) == [act |-> act, photo |-> NoPhoto]
Keys == {StatusKey(act) : act \in {"hide", "enable"}}
        \cup [act : {"upload", "order", "remove"}, photo : Photos]
IntentOp(i) == [of |-> "intent", id |-> i, key |-> StatusKey("set")]
MediaOp(m, k) == [of |-> "media", id |-> m, key |-> k]
Ops == {IntentOp(i) : i \in IntentId}
       \cup {MediaOp(m, k) : m \in MediaId, k \in Keys}

\* The marker of a mutation; an intent's row is its own marker.
Marker(op) ==
  IF op.of = "media" THEN msteps[op.id][op.key]
  ELSE IF intents[op.id] = NoRow THEN "none"
  ELSE IF intents[op.id].state \in {"dispatched", "verified"}
       THEN intents[op.id].state ELSE "none"

Gallery == [Photos -> {"none", "shown", "disabled"}]
Shop    == [status : {On, Off}, gallery : Gallery]

Spots == {"idle", "verify", "look", "photos", "prepare", "put", "readback",
          "confirm", "acknowledge", "failed",
          "step", "reopen", "mark", "recheck", "send", "check", "seal",
          "finish", "succeed", "broken"}
Lane == [at : Spots, id : Nat, raw : {0, On, Off}, proof : Nat,
         was : Intent \cup {NoRow}, review : BOOLEAN,
         done : SUBSET Keys, key : Keys \cup {NoPhoto}, lit : BOOLEAN,
         code : {"none", "native", "other"}]
IdleLane == [at |-> "idle", id |-> 0, raw |-> 0, proof |-> 0, was |-> NoRow,
             review |-> FALSE, done |-> {}, key |-> NoPhoto, lit |-> FALSE,
             code |-> "none"]

-----------------------------------------------------------------------------
\* Facts the lifecycle, the intents and the media jobs share.

OpenMedia == {m \in Rows(media) : media[m].state \notin {"succeeded",
                                                         "superseded"}}
OpenIntents == {i \in Rows(intents) : intents[i].state \in {"queued",
                                                            "dispatched"}}
Started(m) == media[m].gen # 0 \/ \E k \in Keys : msteps[m][k] # "none"
UnresolvedSteps(m) == {k \in Keys : msteps[m][k] = "dispatched"}

\* Mutant: the fence looks at the state of the job.
FenceByState == \A m \in OpenMedia : media[m].state # "running"

\* assert_product_media_native_input: no started media job is unfinished.
FenceOpen == \A m \in OpenMedia : ~Started(m)

\* The newest media job of the current row: product_photo_sets follows it.
CurrentSet == LET mine == {m \in Rows(media) : media[m].row = life.row}
              IN  IF mine = {} THEN 0 ELSE Newest(mine)

\* facts.confirmedRemoteId, and the acknowledged job of one generation.
ConfirmedRemote == \E j \in Created : jobs[j].state = "succeeded"
AckedGeneration(gen) ==
  \E j \in Created : jobs[j].state = "succeeded" /\ jobs[j].auto = gen
UnresolvedNative == \E j \in JobId : Dispatched(j) # {}

\* The request asks for nothing that was not delivered.
NativeSynced == request.state = "synced" /\ request.synced = request.desired

-----------------------------------------------------------------------------
\* Lanes.

At(l, spot) == lane[l].at = spot
Keep(l)     == lane[l].id
LaneTo(l, spot) == lane' = [lane EXCEPT ![l].at = spot]

\* The lane returns, and releases what it still holds.
LaneEnds(l) ==
  /\ lane' = [lane EXCEPT ![l] = IdleLane]
  /\ idLock' = Unlocked(idLock, l) /\ skuLock' = Unlocked(skuLock, l)

LocksFree == idLock = NoProc /\ skuLock = NoProc
TakeLocks(l) == idLock' = l /\ skuLock' = l

\* A mutation leaves.
Emit(op, act) ==
  /\ air' = air \cup {[op |-> op, act |-> act]}
  /\ issued' = [issued EXCEPT ![op] = @ + 1]

\* Variables of the native side a lane never writes.
nativeVars == <<product, published, gate, handoff, steps, magentoVars, pc,
                loc, historyVars>>

=============================================================================
