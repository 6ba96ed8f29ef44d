# Amber SKU generator: a verification project

Amber is the system of record for amber products; Magento is the shop. The
server keeps, in PostgreSQL, durable requests, jobs and dispatch markers, and
lets workers and people drive Magento over HTTP through calls that may time out,
be lost or take effect late; people correct, reprice and export the products
meanwhile. This directory holds TLA+ modules of these protocols, the TLC runs
that check them on small instances, and the theorems TLAPS proves for every
instance. Paths below are relative to the repository.

There are four specifications. `MagentoSync` is the delivery of a product's
content. `ProductShop` composes it with what else changes the product in the shop:
archiving, restoring, recounting and photographs. `AmberDesk` is the work on the
products in Amber: correction requests, direct changes, repricing and the price
stream. `AmberOffice` is what signed-in people share: the administration of access,
an export session with its members, and the creation of products.

## 1. The system

| Component | State it keeps | Operations | Where |
| --- | --- | --- | --- |
| Durable sync jobs | `magento_sync_jobs`, `magento_sync_steps` | `enqueue`, `applyJob`, `supersedeUndispatched` | `server/src/services/magento/sync-job*.js`, migrations 042, 044, 046, 084 |
| Automatic worker | `magento_product_sync_requests`, two session locks | `tick`, `runProduct` | `automatic-sync-worker.js`, `automatic-sync-runtime.js` |
| Reviewed recovery and CLI | the same rows, `audit_events` | `inspect`, `reconcile`, `continueJob`, `supersede`; `magento:sync` | `sync-job-recovery.js`, `server/scripts/magento-sync.js` |
| Product triggers | request generation | trigger `request_magento_product_sync` | migrations 044, 060, 072 |
| Binding publication, handoff | binding revisions, handoff items | `publish`, `processHandoffs` | `binding-publication.js`, `binding-handoff.js` |
| Activation gate | `magento_auto_sync_activation` | `apply` (cutover), `disable` | `delivery-cutover.service.js` |
| Names | `magento_name_sync_states`, the request row | observe, merge, resolve | `name-*.js` |
| Product visibility | `product_visibility_intents`, both session locks | hide, restore, review | `product-visibility-worker.js` |
| Product lifecycle | `products`, delivery version, photo set | archive, restore, recount, save photographs | `product-lifecycle.service.js`, `product.service.js`, `product-photos.service.js` |
| Product media | `product_media_jobs`, `product_media_steps` | hide, upload, order, remove, enable, review | `product-media-delivery.js` |
| Test deletion | `magento_test_deletions` | plan, dispatch, settle | `test-deletion.service.js` |
| First sync, historical delivery | receipts, intents | admission, baselines | `first-sync-*.js`, `historical-*.js` |
| Configuration actions | action rows | reviewed creation of attributes, options, categories | `configuration-*.js` |
| Creation and SKU reservation | reservations, receipts, identities | reserve, save, cancel | `product.service.js`, `product/creation-*.js` |
| Correction requests, direct changes | requests with claims and versions | create, claim, refresh, complete, release, force, reject, reopen; price change, recount | `correction-request*.js`, `product-price-change.service.js`, `product.service.js` |
| Repricing | batches, one draft, a marker on each row | preview, apply, roll back, save and sync the draft | `repricing.service.js`, `repricing/` |
| Price and product exports | price revisions, snapshots | capture, confirm, retry | `export.service.js`, `price-export.service.js` |
| Shared export sessions | session, attempts, members with epochs, a session lock | create, save, prepare, generate, confirm, invite, answer, leave, revoke | `export-sessions.service.js`, `export-session-access.js`, `export-templates/` |
| Cutover of full-product exports | `full_product_export_activation` (legacy, preparing, active) | freeze, activate | `full-product-cutover.service.js`, `full-product-cutover-gate.js` |
| Catalog, SKU schemas, pricing, currency | versions, rate cache | publish, refresh | `catalog*`, `sku-schema.service.js`, `currency-*.js` |
| Administration of access | `application_users`, assignments, roles with permissions, the access lock | approve, give a role, disable, enable, permissions of a role | `application-user-admin.service.js`, `role-admin.service.js` |
| Sign-in, migrations, audit, client | login sessions, audit rows | | `server/src/auth`, `server/src/db`, `client/` |

How they interact: saving a product fires the trigger, which bumps the request's
`desired_generation` in the same transaction. The worker polls requests, takes
the session lock of the public identity, decides from the job and step rows,
and calls `enqueue` and `applyJob`, which take the session lock of the SKU. People
enter the same two functions from the CLI and use reviewed recovery for what the
worker may not decide. No row lock is held across HTTP, so between two short
transactions anything else may commit. The visibility and media lanes work on the
same identity under the same locks; a fence (migration 065) keeps edits and
handoffs away while a photo job is under way, and archiving queues an intent that
retires the worker's untouched jobs. Names are one more writer of the request row.
On the desk a person reads (a preview, a claim, a draft) long before the
transaction that uses what was read, so each transaction checks it again: claims by
owner and version, previews by their token, drafts by their fingerprint, batches by
the marker they left on each row. In the office the checks are kept true instead: a
call shares the advisory lock of access administration from its check to its answer
while an administrator's command has it alone, an export call also holds the lock of its
session over several transactions, and each of its transactions shares the advisory
lock of the cutover gate, taken before it begins.

What is hard: the Magento call is neither atomic with the marker nor reliable; the
worker uses a request row it read before many awaits; session locks may vanish
while their process lives; publications, edits, the emergency stop and reviews
commit at any point; and a request must neither be forgotten nor released too
early. An archive overtakes a pass, a mutation of an earlier decision arrives late,
three programs decide the status of one product. On the desk, slow calls commit
after the claim they began under ended, batches are undone beneath later changes,
and snapshots are confirmed in any order. In the office administrators act on each
other and on people whose calls are under way, a capture spans transactions between
which the products change and a COMMIT may go unanswered, and one lock is taken
twice by one call while somebody waits for it. `PROJECT.json` lists each such hazard at
its line.

What makes each component correct, in one sentence each: *jobs* send a step at
most once and succeed only when all of it is verified; *requests* say synced only
for the content the product has now; *the worker* brings queued work to an end or
to a person, and hands an unresolved dispatch to a person as such; *recovery*
resolves markers from observation and never leaves one on a finished job;
*visibility* and *media* follow the same marker discipline, never work on one row
together, hide what is archived and show a product only after its generation was
delivered; *lifecycle* changes wait until they cannot be overtaken; *test deletion* removes the local product
last; *names* never overwrite an unresolved reconciliation; *exports* confirm
revisions monotonically; *corrections and repricing* apply under the claim and the
preview they were reviewed with; *creation* makes one product of an attempt, never one of a
cancelled attempt, and gives no article twice; *export sessions* produce one result,
from what was reviewed; *administration* always leaves an administrator, and nobody
writes without the right to at that moment.

## 2. The modules

| Module | Models |
| --- | --- |
| `SyncLedger` | constants, all variables, rows, the statements on the request row, locks, checks made inside transactions, plan comparison |
| `SyncJob` | `sync-job.service.js`: one action per short transaction, Magento read or Magento write of `enqueue`, `applyJob`, `supersedeUndispatched` |
| `SyncWorker` | `automatic-sync-worker.js`: selection, claim, decision, and the exits of a pass |
| `SyncRecovery` | the `magento:sync` command, `reconcile`, `continueJob`, `supersede` |
| `MagentoSync` | the composition: the three programs, Amber (edits, archival, publications, handoffs, the gate), Magento, crashes, lost sessions; all properties |
| `DispatchLedger` | the abstract specification: what the ledger of markers promises, with no worker, lock, job or request |
| `ShopLedger` | visibility intents, media jobs and steps, Magento's status and gallery, the lanes with their locks, the fence |
| `ProductLifecycle` | a person's decisions: photo set, archive, restore, recount, and an edit or handoff behind the fence |
| `ProductVisibility` | `product-visibility-worker.js`: one intent from selection to acknowledgement, and its review |
| `ProductMedia` | `product-media-delivery.js`: one photo job step by step, and its review |
| `ProductShop` | `MagentoSync` composed with the three; status and gallery mutations in flight; properties |
| `DeskLedger` | the desk's tables, the calls under way, the effects of a price change and a recount |
| `Corrections` | `correction-request.service.js`, `product-price-change.service.js`, `applyProductRecount`, archival |
| `Repricing` | `repricing.service.js`: batches, rollback, the draft |
| `PriceExport` | `price-export.service.js` and the full snapshot of `export.service.js` |
| `AmberDesk` | the composition, lost calls, a change of the matrix or rate; properties |
| `PriceBook` | the abstract specification of repricing: a stack of prices for each row |
| `OfficeLedger` | the office's tables, the calls under way, permissions, and who holds which lock |
| `Authority` | administration: the five commands, each decided and written under the access lock |
| `ExportSessions` | `export-sessions.service.js` and what it calls: access, settings, preview, capture, recheck, members |
| `ProductCreation` | reserve, save and cancel of a creation attempt |
| `AmberOffice` | the composition, changing inputs, the cutover, lost connections; properties |
| `SharedExport` | the abstract specification of an export session: one result, from the latest review |
| `CreationBook` | the abstract specification of creation: attempts, articles, products |
| `MCMagentoSync`, `MCProductShop`, `MCAmberDesk`, `MCAmberOffice` | the budgets and mixes of the runs |
| `MagentoSyncProofs`, `DeskProofs`, `OfficeProofs` | the theorems |
| `SyncRowProofs`, `SyncLaneProofs`, `SyncDeliveryProofs` | theorems about the rows, the lane and the deliveries of `MagentoSync` |
| `ShopProofs`, `ShopGalleryProofs` | theorems about `ProductShop`: what holds whatever sessions are lost, and what Magento shows while they are kept |

State against code, `MagentoSync`. `product` is the product row: `input` stands for the columns
of `magento_sync_product_input` (060:93-98), `other` for columns that are hashed
into a job's evidence but ask for no request, `active` for status. `request`, `jobs`
and `steps` are the rows; `jobs[j].auto` is `automatic_generation` (0 is NULL),
`amber` and `binding` are the hashes of the evidence, `ops` the ordinals of the plan,
`base` its baseline. `idLock` and `skuLock` are the session locks. `pc` and `loc` are the
program counter and the local variables of every process: a value in `loc` is
exactly what the code read before an await and uses after it. `remote` is the product
in Magento, one value per operation of a plan, and `wire` the mutations sent whose
fate is open: `Deliver` and `Lose` decide it, at any later time or never. `sent`,
`acked` and `refuted` are history variables for the properties.

`ProductShop` adds `life` (the identity's current row, the generation its request had
when it was created, the delivery version), `intents`, `media` and `msteps` (the rows of
`product_visibility_intents`, `product_media_jobs`, `product_media_steps`), `shop` (status
and gallery in Magento), `air` (status and gallery mutations whose fate is open), `lane`
(where a pass of the visibility or media runtime, or a reviewer, is) and `issued`
(history). An intent's row is its own marker: `dispatched` is what a marker is.

`AmberDesk`: `rows` are the products (status, price, and `mark`, the batch in
`details.repricing`); `basis` is the price the matrix and the rate give; `requests`,
`batches`, `draft`, `revisions` (`product_export_revisions`) and `snapshots` are the
tables. `call[c]` is a call the server is handling, or a page a person will submit:
the operation and everything it read that its transaction will use (version, decision,
state and result of a preview, token, candidates). `left` is what the behaviour may
still command. `carried` (prices a row had under its revision), `answers` (snapshots
answered for a key) and a request's `epoch` (which claim of it this is) are history.

`AmberOffice`: `users` are the accounts with the id of their current assignment, `clerk`
is the one custom role with its version, `phase` the cutover gate. `session`, `attempts`
and `members` are the tables of one export session (a member's `epoch` is
`access_version`), `errands` the reservations and receipts, `articles` the sequence of
public articles, `stock` the products. `inputs` stands for everything a preview is
computed from. `calls[c]` has the person, the command, what the page sent (`asked`) and how
far the call is (`pc`): "asked" is before any lock, "entered" has the shared access
lock, "previewed", "capture", "commit" and "recheck" also have the session lock, and
"decided" is an administrator's command that has the access lock alone. Locks are
therefore operators, not variables (`Reads`, `Writes`, `HasDesk`), and none can be left
behind; a capture takes the access lock a second time (`SharedGranted`).

Actions against code. Each action is one transaction, one Magento read with the
local step that follows, or one Magento write; its name is in `PROJECT.json` with
its lines. Every refusal is there: the busy lock, the disabled gate, the changed
product or binding, the failed precondition or verification, the unresolved
dispatch, the unique indexes, the triggers that freeze finished jobs and verified
steps, the lost reply of a commit. `fault` spends one event on a Magento read that
fails, an unsendable report, or a lost reply.

On the desk a command with an unlocked read before its transaction is two actions,
one that starts the call and one that commits or is refused; `Claim` commits, then
`Refresh` runs in the same call and, when refused, gives the claim back in a third
transaction; `Complete` of a recount is followed by `SyncAfterRecount`; a batch whose
insert met the batch of another call is rolled back, looks that batch up again
(`ReadConflict`) and settles its draft in a further statement (`AlreadyApplied`). Commands
of one transaction are one action. A draft is named by its number, as by its id in the
code, so a call that began with a discarded draft does not settle the next one. `Drop` is
the server process dying with a call.

Abstractions, and why they are sound for these properties:

* One public identity. All rows, lock keys and indexes are per identity or per
  (origin, SKU), so products do not share state; fairness between products is
  out of scope.
* A field of the product is one value per plan operation. `plan.matches`,
  `preserve` and `precondition` compare those values as the code compares fields.
* Codes are grouped by what the code tells apart (`Codes`). Authorization and
  configuration reasons, and the admission of first-sync and historical lanes,
  are refusals that behave like the ones kept, and are left out.
* A review is bound to a hash of everything it observed and the operation observes
  again, so an accepted review equals one made at the operation's own
  observation; `ReconcileObserve` and `SupersedeObserve` start there. Replay by
  review hash returns a stored answer and changes nothing.
* Backoff: `Due` ignores `next_attempt_at`, so a retry may come at any time.
* `SupersedeUndispatched` takes and gives back the SKU lock inside one action: it
  performs one transaction under it.
* `magento:sync --apply` without a job is an enqueue command followed by an apply
  command; other things may happen in between, as they may in the code.
* The gate starts on (the cutover was applied) and can only go off: `apply`
  refuses after the CSV was retired, so `disable` is the only switch left.
* `MagentoSync` alone has no lifecycle, photographs or names; its results hold for
  products on which none of them is at work. `ProductShop` adds the first two. Names
  and test deletion are not modelled.
* `ProductShop` begins with a delivered product, whose remote identity is therefore
  confirmed, and after the CSV was retired, so a recount keeps the native route.
  A retry delay may be over at any time. The gallery says of each photograph whether
  Magento has none, shows it or has it disabled. Its position, which the code writes and
  verifies too (`product-media-delivery.js:353-372`), is left out; the "order" step of a
  photograph is the check of one that is already shown, with a marker of its own.
  `GalleryIsTheSet` is about the set and says nothing of its order. Reviewed recovery of the jobs
  (`SyncRecovery`) is part of the composition, and its runs have no person for it.
* One scope of repricing is modelled, over all active rows, in which a person follows
  the matrix or sets one price: the other scopes select other rows and other formulas,
  and apply, roll back and compare them the same way. Of a row only what the tokens
  hash and the transactions compare is kept. A draft is created without resolutions.
* Legacy claims without a version, bulk receipts, and the idempotent answer to a
  request that is already complete change nothing the properties speak of. A direct
  recount may carry no pricing decision; then only the product is compared with the
  preview, and the price written is that of now (`StillRecountable`). Restoring
  an archived row is in `ProductLifecycle`, not on the desk.
* A full snapshot happens only while the product CSV is on (the budget `full`). The
  cursor and the revisions of full-product exports are not modelled.
* The office has one export session and one custom role beside the administrator's.
  The page sends what is committed when the person acts; anything may change before
  the server looks at it. A command of one transaction under its own lock is one
  action, so articles are numbered in the order of commits; a transaction that is lost,
  or refused after it took an article, wastes one. An administrator's command is two actions, decision and write, with
  the access lock held in between.
* The access lock is PostgreSQL's queue: a new reader waits behind an administrator who
  waits, a reader that already reads is granted at once because it is on the same
  connection. The preview's second acquisition behaves like the capture's and is not
  a step of its own. A `fault` is an expired preview proof, products not ready, or a
  COMMIT whose answer is lost. A preview is a read-only transaction, which the cutover
  does not refuse; the write after it is. Freezing and activating are one step each, taken
  when no administrator has the access lock and nobody is in the gate. The cutover also
  waits, for the access lock as a reader and then for the gate, always in this order as
  every other call does; this waiting is not modelled, so `SomeCallGoesOn` does not speak
  of it.

## 3. The runs

The runs of `MCMagentoSync`: a behaviour stays within one member of `Budgets`, which
bounds how often each environment event happens; `MaxJobs` bounds the rows of
`magento_sync_jobs`; every other part of the state is finite through them. Two operations (the core one and a category link) are enough
for a partly applied job, a foreign part of the product, and an operation that
reviewed supersession accepts; two contents for a, b, a.

The runs of `MCProductShop` have one worker, one lane that takes intents and photo
jobs in turn, one operation, one photograph, and one event (`Once`): a crash, fault,
command, edit, publication, lost session, foreign status or stop in a behaviour.
`ThreeDecisions` bounds intents and photo sets together. Together with two intents,
two photo sets and three jobs this is enough for an archive that overtakes a pass,
a restore over photographs, a recount over a dispatched intent, and a photo set
that replaces another.

The run of `MCAmberDesk` has two people, two calls, two products with room for one
successor, one request, two batches, three snapshots and two prices. Each behaviour
is given one of five mixes of commands (`DeskDays`): claims on a product that may be
recounted, a request beside batches and their rollback, batches from a draft that
is edited, exports of price changes, and price changes beside a batch and a full
snapshot. People, calls, prices and keys are symmetric: no definition or property
names one of them, and the run has no liveness property.

The run of `MCAmberOffice` has two people, two calls, one creation key, two forms, two
settings and two contents of the inputs. Each behaviour is given one of six mixes
(`OfficeDays`): an export whose inputs change and whose capture fails; a member who
works on the session while access is revoked; invitations answered, left and renewed;
one form previewed, saved twice and cancelled; administrators acting on each other; and
an export and a creation while a person is disabled, a role narrowed, writes frozen and a
connection lost. Calls, contents and settings are symmetric. Two calls are enough for
every pair of hazards listed: one call is slow, the other overtakes it.

| Run | Instance | Checks | States, time |
| --- | --- | --- | --- |
| `MCSafety` | one worker; either a person with 2 commands, an edit and a crash, or a person with 3 commands and an edit, or two edits with an unrelated change or a publication, and the stop | `TypeOK`, `OneUnresolved`, `SupersededIsOver`, `SucceededIsVerified`, `LaneIsFree`, `StickyReconciliation`, `SyncedMeansDelivered`, `SyncedMeansMirrored` | 1.05 M, 95 s |
| `MCReplicas` | two replicas, an edit, one loss of sessions, a foreign write | `AtMostOnce`, `RequestChecks`, `LedgerSpec` | 0.37 M, 40 s |
| `MCLive` | one worker, archival, a crash, a fault, a publication, the stop | `QueueDrains`, `UnresolvedSurfaces`, `ReceiptConsumed` | 0.13 M, 35 s |
| `MCShop` | section above, no lost session, no foreign status | `ShopTypeOK`, `OneAuthority`, `InFlightIsUnresolved`, `HiddenWhileArchived`, `EnableIsCurrent`, `GalleryIsTheSet`, `ShopLedgerSpec`, `RestoreIsCurrent` | 0.31 M, 90 s |
| `MCShopLive` | one photo set, four jobs, every event | `HideIsSettled`, `RestoreIsSettled`, `MediaIsSettled` | 0.11 M, 140 s |
| `MCDesk` | above | `DeskTypeOK`, `EarlierClaimIsSpent`, `ReviewedIsWritten`, `ActiveRequestIsNotOvertaken`, `DraftIsWhatIsApplied`, `PriceBookSpec`, `ChangeIsNeverLost`, `ConfirmedNeverFalls`, `KeyNamesOneSnapshot` | 0.50 M, 100 s |
| `MCOffice` | above | `OfficeTypeOK`, `SomeAdministrator`, `SomeCallGoesOn`, `OnlyTheEntitledWrite`, `SharedExportSpec`, `CreationBookSpec` | 0.60 M, 110 s |
| five runs named after their property | one worker, a person or a lane, a publication, a fault, 2 commands | the five findings of section 5 | seconds |

What the passing runs show:

* `OneUnresolved`: at most one dispatch of the whole SKU is unresolved, so nobody
  builds on, or sends past, an outcome that is not known.
* `SupersededIsOver`, `SucceededIsVerified`: a retired job has no open marker and nobody
  about to write for it; a succeeded one has every step verified.
* `LaneIsFree`: `enqueue` never runs into the index of one unfinished job.
* `StickyReconciliation`: edits, handoffs and commands do not release a request
  parked for reconciliation while a dispatch is unresolved; only the receipt of its
  own job does, and then what is unresolved was planned by a person.
* `AtMostOnce`, `LedgerSpec`: the marker discipline, also with lost locks.
* `RequestChecks`: no update of the request can be refused by its row checks.
* `SyncedMeansDelivered`, `SyncedMeansMirrored`: synced means the content the product
  has now was acknowledged last, and Magento shows it; also after a, b, a.
* `QueueDrains`, `UnresolvedSurfaces`, `ReceiptConsumed`: queued work ends, an
  unresolved dispatch is put before a person as such even when the pass that made
  it died, and the receipt of a succeeded job is consumed after any crash.

* `OneAuthority`: a visibility change and a photo job of one row are never open
  together, though each is started by another program and both decide the status.
* `InFlightIsUnresolved`, `ShopLedgerSpec`: a status or gallery mutation that may
  still arrive has an unresolved marker, and no marker is sent twice: the ledger
  promise of `DispatchLedger` again, for intents and media steps.
* `HiddenWhileArchived`: once hiding was confirmed, no mutation of an earlier decision
  can show the product again.
* `EnableIsCurrent`, `RestoreIsCurrent`: a product is shown only with the content and
  the photographs it has now, across every await between the check and the PUT.
* `GalleryIsTheSet`: a delivered photo set is what Magento shows.
* `HideIsSettled`, `RestoreIsSettled`, `MediaIsSettled`: intents and photo jobs end or
  wait for a person; neither lane waits on the other for ever.
* `EarlierClaimIsSpent`: a claimed request changes only by a call of this claim; a slow
  refresh, release, rejection or forced release of an earlier one is refused.
* `ReviewedIsWritten`: a request completes with the result a person reviewed, on the
  state it was computed from.
* `ActiveRequestIsNotOvertaken`: direct changes and new batches respect a request made
  after their previews; archival and rollback do not look at requests, and the
  property says so.
* `DraftIsWhatIsApplied`: a draft edited or brought up to date while its batch is
  under way, or discarded and made anew, is not applied as something else.
* `PriceBookSpec`: the desk implements a stack of prices: a rollback takes away exactly
  the prices of its batch, everywhere or nowhere.
* `ChangeIsNeverLost`, `ConfirmedNeverFalls`, `KeyNamesOneSnapshot`: no price change of
  the price stream is confirmed without having been in a confirmed snapshot,
  confirmations may come late and twice, and a key has one snapshot.
* `SomeAdministrator`: two administrators who disable or demote each other at the same
  time are decided one after the other, so one active administrator remains.
* `OnlyTheEntitledWrite`: whoever writes has the permission, and the membership of the
  epoch the request was made under, at the moment of the write, even when the check was
  several transactions ago or the membership was revoked and renewed in between.
* `SharedExportSpec`: the session with its attempts implements a shared export: a result
  is made once, from the settings and content last reviewed, also when products change
  under the capture or the answer to its COMMIT is lost.
* `CreationBookSpec`: reservations, receipts and products keep one book: an attempt
  becomes at most one product with its own article, a cancelled one never does, in
  whatever order preview, save, cancellation and their retries commit.
* `SomeCallGoesOn`: access lock, session lock, the lock that is taken twice and a waiting
  administrator never block each other in a circle. A call has at most six steps, so
  with this every call is answered once nothing new is asked.

Limits that the runs made visible. When session locks are lost while the process
lives on, two processes apply one job: then only `AtMostOnce`, `LedgerSpec`,
`RequestChecks`, `SyncedMeansDelivered` and `SucceededIsVerified` survive; the others
need the locks, and the runs that check them keep the sessions. A foreign write after
the final readback breaks `SyncedMeansMirrored` as it must, so that run has none.
`StickyReconciliation` is checked with one worker: with two, a pass that read the
request before may drop the flag, and its next pass sets it again
(`UnresolvedSurfaces` is the promise that remains). With the gate off the worker stops
and the liveness properties promise nothing. `MCShop` keeps the sessions for the same
reason (a lane that lost its lock may retire a job a worker is about to mark) and has
no foreign writer of the status, which would break what it checks of Magento; both
events are in `MCShopLive`. An edit or recount after an intent was dispatched changes
the fingerprint its acknowledgement requires, so the intent stays for a person to
whom no acknowledgement is open: `RestoreIsSettled` promises only that it leaves the
queue.

Fairness. A process that started goes on: every database and Magento call has a
timeout, so `WorkerStep` and `OperatorStep` are weakly fair; the worker's timer is set
again after each pass (`automatic-sync-worker.js` 129-142), so `Poll` is. In
`ProductShop` the lanes' timers also always fire again, and every program only tries
for its locks: a lock held for one pass is free again and again, and a timer that
tries every few seconds finds it free in time. This is the strong fairness of
`WorkerStep` and of `TakeIntent \/ TakeMedia`, and `FindsLockFree` for the claim; with weak
fairness a lane could meet a busy lock at every try. Nothing
obliges a person, an edit, a publication, a crash, a fault, or Magento. Every
property of a passing run has a mutant, a plausible bug in a mapped definition,
under which TLC finds it violated.

## 4. The proofs

`MagentoSyncProofs` proves, for all constants allowed by the assumptions of
`SyncLedger` (processes are distinct from the free lock and workers from people;
`Core` is an operation, operations are a finite set of numbers, `Absent` and
`Foreign` are no contents, the budgets are numbers):

* `TypeCorrect`: `Spec => []TypeOK`;
* `SentAtMostOnce`: `Spec => []AtMostOnce`, with any number of replicas, people,
  crashes, faults and lost sessions;
* `LedgerImplemented`: `Spec => LedgerSpec`, the refinement of `DispatchLedger`
  (markers are `steps`, issues are `sent`);
* `Invariant`: `Spec => []IInv`, from which they follow.

The invariant. `AtMostOnce` is not inductive: it says nothing of a process that is
about to send. `IInv` adds why such a process may. A step without a marker was
never sent (`UnmarkedUnsent`). A process at "send" works on a step whose marker
is committed and whose send has not happened (`SenderOwns`), and two processes there
never work on the same step (`SendersDiffer`): the marker's primary key admits one
of them. The locks play no part in the argument, which is why lost sessions do no
harm. `JobsExist` and `TodoLeft` carry what typing needs: every job referred to has
a row, and a process inside the loop has an operation left. `IInv` does not even type
the locks: everything proved from it holds for `ProductShop` too, whose lanes take the
same locks. The proof goes program by
program: each action has a lemma for typing and one for the sends, actions that touch
neither markers nor sends share one, and the temporal theorems close with PTL.

Three modules continue from `IInv`. `SyncRowProofs` says for every action how it may
change a job row (`Rewrites`, `Inserts`) and what a process keeps of what it read
(`Stops`, `TakesJob`, `HasLeft`), and proves from that, with lost sessions:

* `RequestChecked`: `Spec => []RequestChecks`. What it adds is `GensKnown`: no process
  remembers a generation that was not asked for yet.
* `SucceededVerified`: `Spec => []SucceededIsVerified`. `StepInv` adds that steps are
  of planned operations and in their order, and `Progress`: every operation of a job
  that is not left in a process's loop is verified. A second process in the same job,
  which a lost session admits, only adds markers, so it takes nothing back.

`SyncDeliveryProofs` proves `SyncedDelivered`: `Spec => []SyncedMeansDelivered`, with lost
sessions too. Nothing relates the request's state to the content directly; what does is
the generation. `About(j, g)` says: if g is the generation desired now, job j was
planned for the content of now, and if it succeeded, that content was acknowledged and
every job still unfinished has it too (`Good`). `DeliveryInv` says so of the job and
generation the request names, of every job row with its own generation, and of the job
and generation each worker is going to acknowledge. An edit makes a newer generation,
for which all of them hold vacuously; a job is attached only after the snapshot was
compared in the same transaction; one job at most is unfinished (`OneLane`, the unique
index), so the job that succeeds leaves none behind. With the gate off edits ask for
nothing and `DeliveryInv` claims only that no job is from a generation not asked for.

`SyncLaneProofs` proves `UnresolvedIsOne`, `SupersededOver`, `LaneEmpty` and, below,
`SyncedMirrored` and `ReconciliationSticks`, all under `NoLoss`
(no budget lets PostgreSQL end a session whose process lives; a crash still ends its
own): from `LockInv`, a process inside `applyJob`, a plan or a review holds the SKU lock.
The assumption cannot be dropped for the argument, and the code gives no other reason:
after a lost session two processes may stand in one job. The runs check these
invariants under the same restriction.

`SyncedMirrored`: `Spec => []SyncedMeansMirrored`, under `NoLoss` and `NoForeign` (nobody
else writes the fields). Two invariants lead from the acknowledgement to Magento.
`AirInv` is about what is on its way, as long as no review declared a mutation absent:
it has an unresolved marker and would still change something (`InAir`), so a field that
reads as wanted has nothing in the air, and with one unresolved dispatch at most a
process that acts on what it read meets an empty wire (`Still`); `Planned` adds that an
operation a plan left out already showed the content. A job that succeeds is therefore
shown field by field, and nothing late can undo that. `MirrorInv` carries it to the
request: whenever a succeeded job is named for the generation desired now, by the
request, by its row or by a worker (`Speaks`), Magento shows the content of now.
`NoNewWord` is the step: a process gives a succeeded job no generation it did not have,
so a new claim is a new success, and `DeliveryInv` says that it was for the content of
now. A delivery is harmless for the same reason: it belongs to the unfinished job, whose
content is then that of now too.

`ReconciliationSticks`: `Spec => StickyReconciliation`, under `NoLoss` and `OneWorker`.
The second assumption is the limit named above: another replica that read the request
before it was parked drops the flag. `ParkInv` is why one worker does not. Every
unfinished job that a worker planned is the one its request names (`QueueOwns`), and
while the worker carries a job the request names that job or none (`Own`), so what the
worker ends with is about the request as it stands. Once the request is parked
(`Park`) it is in front of a person, and the worker is idle or has taken it up only
because its job succeeded. The step then has three cases: edits and handoffs keep
the flag (`OutsideRequest`); a person's step changes the request only by superseding its
job, which resolves every marker of the one job that may have any (`OperatorRequest`,
`ReleasedIsResolved`); and the worker consumes a receipt, when an unresolved dispatch
belongs to another unfinished job, which by `QueueOwns` a person planned
(`ReceiptOfAnother`).

`ShopProofs` is about the composition, with any number of lanes, photographs, intents and
jobs, and lost sessions. Each action of the lanes and of a person is first given its
form: what it does to which table, and where the lane stands afterwards (`Restates`,
`Remakes`, `Steps`, `NewIntent`, `NewJob`, `Stays`, `Holds`). Every invariant is then proved
from the forms. The theorems:

* `ShopTypeCorrect`: `ShopSpec => []ShopTypeOK`. `Shaped` says that a lane stands only where
  its row, and its step, are.
* `ShopDelivered`: `ShopSpec => []SyncedMeansDelivered`. A step of the shop is a step of
  `MagentoSync`, a change of the product with its new generation (`Changed`), an intent
  retiring the jobs nobody dispatched (`Cancels`), or nothing on that side (`Aside`).
* `ShopLedgerImplemented`: `ShopSpec => ShopLedgerSpec`, the second instance of
  `DispatchLedger`. `LedgerInv`, not the locks, keeps a marker from being used twice: a lane
  about to send stands at a marker that was not issued, and no other lane stands there.
* `OneAuthorityHolds`: `ShopSpec => []OneAuthority`. The danger is a review that brings an
  old photo set back beside an open intent. `PastPins` excludes it: while an intent is
  open, every set of its row that was started is pinned to a generation that is over,
  because each decision that opens an intent also asks for a new generation; and a review
  needs the set's generation to be the synced one (`Authorised`). A set that was not
  started cannot be open, since the decision superseded it.

`ShopGalleryProofs` proves `GalleryShown`, `EnableHolds` and `RestoreHolds`. All three need
`NoLoss` (below): a lane whose lock is gone while it lives may send beside the lane that
has the lock now, and the code has no third guard. Their invariants:

* `PinnedInv`, which needs no lock: a started photo set is of the current row and the
  desired generation, and what was acknowledged, or is still on its way, is the content
  of now. The fence of migration 065 is what keeps it: every step that would end it
  (`FencedCases`) meets the open set and is refused.
* `Excl`: a lane at work holds the identity lock, so the others are idle.
* `MediaInv`: the jobs are numbered, the newest alone may be open, and only an open job
  has unresolved steps (`OneOpen`); a job's markers fit its set, and once its enabling
  is marked, or it succeeded as the newest of the row, Magento shows exactly the set and
  nothing of it is unresolved (`Sets`, `Arranged`); a gallery mutation that is on its way has
  an unresolved marker and would still change something (`Flights`), hence it is none of
  an arranged set; and what a lane found on its way through the steps still holds
  (`Works`): what it passed shows its effect, what it is about to send does not.

`GalleryIsTheSet` is no invariant by itself: it says nothing of a late upload while the set
is being delivered. That a verified step never has its mutation in the air is what makes
the step from "the last one verified" to "the set is shown" sound. For
`RestoreIsCurrent` the proof is that an intent leaves its queue in two transactions only,
and each of them checks everything again (`FullCode`).

Its second half proves `InFlightUnresolved` and `ArchivedStaysHidden`, under `NoLoss` and
`NoForeign` (no budget allows a status write of somebody else, as in `MCShop`). The second
assumption is needed: a PUT is on its way, somebody sets the status to the one wanted, a
review reads it and confirms the intent, and the PUT arrives later. Beside the above the
inductive invariant `DecidedInv` has three parts:

* `IntentInv`: intents are numbered without a gap; one of the current row at most is open,
  and of an archived product it is the newest and hides it (`Retired`); no fingerprint is of
  the future (`Aged`); and where a lane stands fits the state of its intent.
* `StatusInv`: a status mutation on its way is unresolved and would still change the status
  (`Pending`), and what a lane knows of the status still holds (`Knows`): what it read
  before it prepared, that the status is not the wanted one before it sends, and that it is
  before it says verified. The argument is `OneStatus`: one status mutation at most is
  unresolved, that of an open intent or of the newest photo job, because the fence keeps the
  two apart. And while one is on its way, no lane relies on a status read before it
  arrives (`NobodyRelies`).
* `HiddenInv`: an intent that hides the product as it is now and is verified, or is about to
  be confirmed by a person, is one whose product is hidden. While the product is archived no
  photo set is under way and no intent is open but the hiding one, so nothing that is on
  its way would show it (`RetiredQuiet`).

`StatusInv` promises nothing once a recount left a dispatched intent on an earlier row
(`Abandoned`): no review may confirm it any more, and its mutation may arrive at any time.
That is an orphan, which `InFlightIsUnresolved` excludes. `ArchivedStaysHidden` needs no such
exception: of an archived product every open intent is of its current row.

`DeskProofs` proves, for all constants allowed by `DeskAssumption` and `NilAssumption`
(sizes are numbers, `Matrix` is no price, `Nil` is no person, key, price, row or call,
mixes give numbers of commands), every property of `MCDesk` except the refinement:
`DeskTypeCorrect`, `KeysAreIdempotent`, `StreamIsComplete` for the invariants;
`ConfirmedOnlyRises`, `EarlierClaimsAreSpent`, `ReviewedResultsAreWritten`,
`ActiveRequestsAreNotOvertaken`, `DraftsAreWhatIsApplied` for the action properties. The
budgets only appear as numbers, so they hold for any number of commands.

Its invariant (`DeskInvariant`) adds to the types: `CallsKnown`, a call's version is at
most its request's, and where it is the version of a claimed request the call belongs
to that claim (versions rise with every claim and every end of one, which is why a
version identifies a claim, and why rejecting and reopening may leave it alone);
`RowsKnown`, requests are about existing rows; `KeysKnown`, a key has one snapshot and
was answered with nothing else; and three facts of the price stream: a row's price is
among those of its revision (`PricesCarried`), no captured item is newer than its row
and one of the same revision holds a price of it (`ItemsCarried`), and whatever is
confirmed is in a confirmed snapshot (`ConfirmedHeld`). `ChangeIsNeverLost` alone is not
inductive: it says nothing of a revision that was confirmed and then left behind.
The proof first says what a step can do to a table (a request rewritten or ended, a
row repriced, recounted or rewritten, a snapshot added, a call started or ended), then
has one lemma per action that composes them; the action properties follow from the
invariant and from lemmas that say which actions change which table.

`OfficeProofs` proves, for all constants allowed by `OfficeAssumption` and
`NilAssumption` (finitely many people, `Author` among them; duties are ordinary
permissions; forms have their two fields; `Nil` is no person, row or value; mixes give
numbers), every property of `MCOffice` except `SomeCallGoesOn`: `OfficeTypeCorrect` and
`AdministratorRemains` for the invariants, `EntitledWrites` for the action property, and
`SharedExportImplemented` and `CreationBookImplemented` for the two refinements, for any
number of people, calls and attempts.

Its invariant (`OfficeInvariant`) says why a check may be trusted later. `OneWriter`: a
command of an administrator runs alone. `OneAtDesk`: one call has the session. `Cleared`:
what an administrator's command found allowed is still allowed when it writes, and a
reader's permission lasts while it reads, both because accounts and roles change only
under the lock held alone. `Placed`: where a call is in the session tells what the
session looks like (before a capture commits there is no result and the attempt is
executing, and a call about to commit has captured what was reviewed).
`SomeAdministrator` is inductive only with `Cleared`: that more than one administrator is
active was counted before the write. Its step is an argument about cardinality (a
finite set with more than one element has one that differs from the target). Each
refinement has one lemma per action that says which abstract step it is; all other
actions share one lemma that the mapping does not change.

Only model-checked: `PriceBookSpec`, whose mapping follows a chain of batches of any
length, and facts that need induction over data; the liveness properties; and
`SomeCallGoesOn`, which is about ENABLED. The last two are out of the prover's reach.

## 5. Where documents and code differ

Each is a run that TLC refutes, quoted in `PROJECT.json` under "findings":
an unfinished manual job can be adopted by the worker (`ManualNeverAdopted`); a
reviewed supersession can leave its request parked (`SupersededReturned`); applying an
uncertain job after a newer publication closes its documented exit
(`UnresolvedKeepsExit`); what a review records as provably absent may still arrive
(`RefutedIsAbsent`); and a photo job left for review keeps a binding handoff, and with
it every later queue pass, from being settled (`HandoffIsSettled`).

Met while modelling, without a run of their own:

* `docs/REPRICING.md:64` says an idempotent retry returns the completed
  batch. A retry whose draft was already applied is refused with 409.
* A token is a function of the rows and the matrix, so when direct changes bring a
  product back to the very state it had before a completed batch, the same preview has
  that batch's token, and applying it answers "already applied" and changes nothing
  (`BeginReprice`, `AlreadyApplied`; `repricing.service.js:499`).
* When the batch turns out to be applied already, its draft becomes applied without a
  second look at its resolutions.
* A direct recount without a pricing decision writes the price of the moment it commits,
  which may differ from the previewed one when the matrix changed in between
  (`product.service.js:703-707`); with a decision, and for a price change, the token
  covers the price.
* A draft created with overrides stores a fingerprint computed with them, and applying
  compares it with one computed without.
* `docs/EXPORTS.md:162` names direct changes and completed requests as
  what advances a price revision; batches and rollbacks indeed do not, so the price
  stream does not carry them (`Repriced` against `ApplyBatch`).

## 6. Plan

1. Done: `MagentoSync`, its abstract ledger, its first theorems.
2. Done: the shop. Visibility, lifecycle and media composed with the worker; their
   markers as a second instance of `DispatchLedger`; liveness of the lanes.
3. Done: the desk, with its abstract price book and its theorems.
4. Done: the office: administration, export sessions, creation, with two abstract
   specifications and their theorems.
5. Next, in this order: the names' writes to the request row (a conflict resolved while
   a pass holds it); test deletion (remote gone before local); the refresh of the
   currency rate beside previews; the cursor of full-product exports.
6. Done: the proofs of the status (`DecidedInv`), as `MediaInv` is one of the gallery. Every
   invariant and action property of the passing runs is now a theorem, except those named
   under "Only model-checked".

Hazards of the parts under 5 are known but have no property yet; those that weigh most are
in `PROJECT.json` with the reason.

Not planned: catalog, templates, pricing arithmetic, sign-in and the client
(data or presentation rather than protocol), and the first-sync and historical
lanes (evidence formats on top of the jobs modelled here).

## 7. Running

    tlc -workers 2 -config MCSafety.cfg MCMagentoSync
    tlc -workers 2 -config MCShop.cfg MCProductShop
    tlc -workers 2 -config MCDesk.cfg MCAmberDesk
    tlc -workers 2 -config MCOffice.cfg MCAmberOffice
    tlapm MagentoSyncProofs.tla
    tlapm SyncRowProofs.tla
    tlapm SyncLaneProofs.tla
    tlapm SyncDeliveryProofs.tla
    tlapm ShopProofs.tla
    tlapm ShopGalleryProofs.tla
    tlapm DeskProofs.tla
    tlapm OfficeProofs.tla
