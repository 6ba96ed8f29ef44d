------------------------------ MODULE Repricing -----------------------------
(***************************************************************************)
(* repricing.service.js: a batch of price changes computed from a preview, *)
(* applied in one transaction long after the preview was read, and rolled  *)
(* back as a whole.  A pricing scenario over all active rows is modelled;  *)
(* the person either follows the matrix (Matrix) or sets one price.        *)
(***************************************************************************)
EXTENDS DeskLedger

repriceFrame == <<exportVars, basis, requests>>

\* A preview: the active rows' states and the price the matrix gives.
PreviewNow == [seen  |-> [r \in Row |-> IF Active(r) THEN rows[r] ELSE Nil],
               basis |-> basis]

\* getApplicationToken: a preview and the person's resolutions.
Token(pv, choice) == [seen |-> pv.seen, basis |-> pv.basis, choice |-> choice]

NewPrice(token) == IF token.choice = Matrix THEN token.basis ELSE token.choice

\* The items of a preview whose price changes.
Changed(token) ==
  {r \in Row : token.seen[r] # Nil /\ token.seen[r].price # NewPrice(token)}

\* The row as batch b leaves it.
Written(b, token) ==
  [status |-> "active", price |-> NewPrice(token), mark |-> b]

\* getBatchByPreviewToken: completed batches only.
AppliedAs(token) ==
  {b \in Used(batches) : batches[b].status = "completed" /\ batches[b].token = token}

OpenDraft == draft # Nil /\ draft.status = "draft"

\* Mutant: the draft is not read again under its lock.
DraftOpen(token) == OpenDraft

\* The draft is open, unchanged since it was read, and says this.
DraftSays(token) ==
  OpenDraft /\ Token(draft, draft.choice) = token

\* assertNoBlockingCorrectionRequests over some rows.
Unblocked(S) == \A r \in S : ActiveRequests(r) = {}

\* Mutant: blocking requests are looked for in the preview only.
UnblockedBefore(token) == TRUE

\* They are looked for again where the batch commits, in the changed rows.
StillUnblocked(token) == Unblocked(Changed(token))

\* A call names the draft it began with, or none; another one is not settled.
NameOf(used) == IF used THEN draft.no ELSE 0

DraftApplied(no) ==
  draft' = IF OpenDraft /\ draft.no = no THEN [draft EXCEPT !.status = "applied"]
                                         ELSE draft

\* applyRepricingScope up to its transaction.  The token sent is that of a
\* completed batch (a retry, or the same state reached again) or that of
\* the preview computed now.
BeginReprice(c, token, used) ==
  /\ used => OpenDraft /\ draft.choice = token.choice
  /\ Spend("reprice")
  /\ \/ /\ AppliedAs(token) # {}
        /\ Start(c, [op |-> "applied", used |-> NameOf(used)])
     \/ /\ AppliedAs(token) = {}
        /\ token = Token(PreviewNow, token.choice)
        /\ used => DraftSays(token)
        /\ Unblocked({r \in Row : Active(r)}) /\ Changed(token) # {}
        /\ Start(c, [op |-> "reprice", token |-> token, used |-> NameOf(used)])
  /\ UNCHANGED <<repriceFrame, priceVars, batchVars>>

\* The batch had been applied: only the draft is settled, by a statement of
\* its own that asks whether the draft is open and nothing else.
AlreadyApplied(c) ==
  /\ Doing(c, "applied") /\ End(c) /\ DraftApplied(call[c].used)
  /\ UNCHANGED <<repriceFrame, priceVars, batches, left>>

\* The locked rows are as the preview saw them.
RowsAsSeen(token) == \A r \in Changed(token) : rows[r] = token.seen[r]

\* The transaction of applyRepricingScope: everything it saw is checked again
\* under the locks of the changed rows and the draft.
ApplyBatch(c) ==
  LET token == call[c].token
      no    == call[c].used
      clear == StillUnblocked(token) /\ (no # 0 => DraftSays(token) /\ draft.no = no)
  IN  /\ Doing(c, "reprice")
      /\ \/ /\ clear /\ AppliedAs(token) # {}
            /\ Becomes(c, [op |-> "conflict", token |-> token, used |-> no])
            /\ UNCHANGED <<priceVars, batchVars>>
         \/ /\ clear /\ AppliedAs(token) = {} /\ RowsAsSeen(token) /\ End(c)
            /\ \E b \in Batch :
                 /\ IsNew(batches, b)
                 /\ batches' = [batches EXCEPT ![b] =
                                  [status |-> "completed", token |-> token]]
                 /\ rows' = [r \in Row |-> IF r \in Changed(token)
                                           THEN Written(b, token) ELSE rows[r]]
            /\ carried' = [r \in Row |-> IF r \in Changed(token)
                             THEN carried[r] \cup {NewPrice(token)} ELSE carried[r]]
            /\ DraftApplied(no) /\ UNCHANGED revisions
         \/ /\ \/ ~clear
               \/ AppliedAs(token) = {} /\ ~RowsAsSeen(token)
            /\ End(c) /\ UNCHANGED <<priceVars, batchVars>>
      /\ UNCHANGED <<repriceFrame, left>>

\* The insert met the batch of another call: after the rollback it is read
\* again, and may have been rolled back itself meanwhile.
ReadConflict(c) ==
  /\ Doing(c, "conflict")
  /\ IF AppliedAs(call[c].token) = {}
     THEN End(c) ELSE Becomes(c, [op |-> "applied", used |-> call[c].used])
  /\ UNCHANGED <<repriceFrame, priceVars, batchVars, left>>

\* Mutant: the batch's mark is not compared.
StillSamePrice(r, b) ==
  Active(r) /\ rows[r].price = NewPrice(batches[b].token)

\* doesProductMatchRepricingBatch
StillMatches(r, b) == rows[r] = Written(b, batches[b].token)

\* rollbackRepricing: every row of the batch goes back, or none.
Rollback(b) ==
  LET token == batches[b].token
  IN  /\ batches[b] # Nil /\ batches[b].status = "completed"
      /\ Spend("undo")
      /\ \A r \in Changed(token) : StillMatches(r, b)
      /\ rows' = [r \in Row |-> IF r \in Changed(token)
                                THEN token.seen[r] ELSE rows[r]]
      /\ carried' = [r \in Row |-> IF r \in Changed(token)
                       THEN carried[r] \cup {token.seen[r].price} ELSE carried[r]]
      /\ batches' = [batches EXCEPT ![b].status = "rolled_back"]
      /\ UNCHANGED <<repriceFrame, revisions, draft, call>>

\* createRepricingDraft: one open draft; resolutions are saved afterwards.
CreateDraft ==
  /\ ~OpenDraft /\ Spend("draft")
  /\ draft' = [status |-> "draft", no |-> IF draft = Nil THEN 1 ELSE draft.no + 1,
               seen |-> PreviewNow.seen, basis |-> basis, choice |-> Matrix]
  /\ UNCHANGED <<repriceFrame, priceVars, batches, call>>

\* saveRepricingDraft
SaveDraft(choice) ==
  /\ OpenDraft /\ choice # draft.choice /\ Spend("draft")
  /\ draft' = [draft EXCEPT !.choice = choice]
  /\ UNCHANGED <<repriceFrame, priceVars, batches, call>>

\* syncRepricingDraft: the stored preview is brought up to date.
Synced == [draft EXCEPT !.seen = PreviewNow.seen, !.basis = basis]

SyncDraft ==
  /\ OpenDraft /\ Spend("draft") /\ draft' = Synced
  /\ UNCHANGED <<repriceFrame, priceVars, batches, call>>

\* syncActiveRepricingDrafts, after a recount completed a request.
SyncAfterRecount(c) ==
  /\ Doing(c, "sync") /\ End(c)
  /\ draft' = IF OpenDraft THEN Synced ELSE draft
  /\ UNCHANGED <<repriceFrame, priceVars, batches, left>>

DiscardDraft ==
  /\ OpenDraft /\ Spend("draft")
  /\ draft' = [draft EXCEPT !.status = "discarded"]
  /\ UNCHANGED <<repriceFrame, priceVars, batches, call>>

RepricingNext ==
  \/ \E c \in Calls, used \in BOOLEAN :
       \/ \E choice \in Decisions : BeginReprice(c, Token(PreviewNow, choice), used)
       \/ \E b \in Used(batches) : BeginReprice(c, batches[b].token, used)
  \/ \E c \in Calls : \/ AlreadyApplied(c) \/ ApplyBatch(c) \/ ReadConflict(c)
                      \/ SyncAfterRecount(c)
  \/ \E b \in Batch : Rollback(b)
  \/ CreateDraft \/ (\E choice \in Decisions : SaveDraft(choice))
  \/ SyncDraft \/ DiscardDraft

=============================================================================
