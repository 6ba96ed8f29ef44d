----------------------------- MODULE AmberDesk ------------------------------
(***************************************************************************)
(* The Amber desk: correction requests, direct changes, repricing and the  *)
(* price stream act on the same products while the server handles several  *)
(* calls at once.                                                          *)
(***************************************************************************)
EXTENDS Corrections, Repricing, PriceExport

DeskNext ==
  \/ CorrectionNext \/ RepricingNext \/ ExportNext
  \/ \E c \in Calls : Drop(c)
  \/ \E p \in Prices : ChangeBasis(p)

DeskSpec == DeskInit /\ [][DeskNext]_deskVars

-----------------------------------------------------------------------------
RowState == [status : {"active", "corrected", "archived"}, price : Prices,
             mark : 0..MaxBatches]
RequestState ==
  [type : {"price_change", "recount"}, row : Row, decision : Decisions,
   from : RowState, to : Prices,
   status : {"pending", "in_progress", "rejected", "completed"},
   owner : Staff \cup {Nil}, version : Nat, epoch : Nat]
PreviewState == [Row -> RowState \cup {Nil}]
TokenState == [seen : PreviewState, basis : Prices, choice : Decisions]
BatchState == [status : {"completed", "rolled_back"}, token : TokenState]
DraftState == [status : {"draft", "applied", "discarded"}, no : Nat \ {0},
               seen : PreviewState, basis : Prices, choice : Decisions]
SnapshotState ==
  [key : Keys \cup {Nil}, status : {"generated", "confirmed"},
   items : [Row -> [rev : Nat, price : Prices] \cup {Nil}]]
HeldOps == {"claim", "refresh", "complete", "release", "force", "reject"}
CallState ==
  [op : HeldOps, who : Staff, q : Request, version : Nat, epoch : Nat,
   from : RowState, to : Prices]
  \cup [op : {"price_change", "recount"}, row : Row, decision : Decisions,
        from : RowState, to : Prices]
  \cup [op : {"reprice", "conflict"}, token : TokenState, used : Nat]
  \cup [op : {"applied"}, used : Nat]
  \cup [op : {"sync"}]
  \cup [op : {"export"}, key : Keys, candidates : SUBSET Row]

\* No row and no call is Nil.
ASSUME NilAssumption ==
  /\ Nil \notin RowState /\ Nil \notin RequestState /\ Nil \notin BatchState
  /\ Nil \notin DraftState /\ Nil \notin SnapshotState /\ Nil \notin CallState

\* The types, with what the tables' own indexes and checks say: a product
\* has at most one active request, a request has an owner exactly while it
\* is in progress, and nothing is confirmed that was not yet changed.
DeskTypeOK ==
  /\ rows \in [Row -> RowState \cup {Nil}] /\ basis \in Prices
  /\ requests \in [Request -> RequestState \cup {Nil}]
  /\ batches \in [Batch -> BatchState \cup {Nil}]
  /\ draft \in DraftState \cup {Nil}
  /\ revisions \in [Row -> [rev : Nat, confirmed : Nat, exposed : BOOLEAN]]
  /\ snapshots \in [Snapshot -> SnapshotState \cup {Nil}]
  /\ call \in [Calls -> CallState \cup {Nil}]
  /\ left \in [Kinds -> Nat]
  /\ carried \in [Row -> SUBSET Prices] /\ answers \in [Keys -> SUBSET Snapshot]
  /\ \A r \in Row : /\ \A p, q \in ActiveRequests(r) : p = q
                    /\ revisions[r].confirmed <= revisions[r].rev
  /\ \A q \in Used(requests) :
       (requests[q].owner # Nil) = (requests[q].status = "in_progress")

\* A claimed request changes only by a call that began under this very
\* claim.  A person may have given a request back and claimed it again, or
\* somebody else may have it now, before a slow call of the earlier claim
\* reaches its transaction; then that call is refused, and a claim whose
\* refresh failed does not give back somebody else's.
EarlierClaimIsSpent ==
  [][\A q \in Used(requests) :
       requests[q].status = "in_progress" /\ requests'[q] # requests[q] =>
         \E c \in Calls :
           /\ call[c] # Nil /\ call[c].op \in HeldOps /\ call'[c] # call[c]
           /\ call[c].q = q /\ call[c].epoch = requests[q].epoch]_deskVars

\* A request is completed with the result it proposed, on the product state
\* that result was computed from, although a batch may be rolled back, the
\* matrix changed, the product archived or the request refreshed between
\* the person's review and the transaction.
ReviewedIsWritten ==
  [][\A q \in Used(requests) :
       LET x == requests[q]
       IN  x.status # "completed" /\ requests'[q].status = "completed" =>
             /\ rows[x.row] = x.from
             /\ \/ /\ x.type = "price_change"
                   /\ rows'[x.row] = [x.from EXCEPT !.price = x.to, !.mark = 0]
                \/ /\ x.type = "recount" /\ rows'[x.row].status = "corrected"
                   /\ \E s \in Row : rows[s] = Nil /\ rows'[s] # Nil /\
                                     rows'[s].price = x.to]_deskVars

\* A product with an active request changes by that request, or because it
\* is archived or a batch is rolled back, the two operations that do not
\* look at requests; never by a direct change or a new batch whose preview
\* was taken before the request was made.
ActiveRequestIsNotOvertaken ==
  [][\A r \in Row :
       ActiveRequests(r) # {} /\ rows'[r] # rows[r] =>
         \/ \E q \in ActiveRequests(r) : requests'[q].status = "completed"
         \/ rows'[r].status = "archived"
         \/ \E b \in Used(batches) : batches'[b] # batches[b]]_deskVars

\* A batch committed from a draft is the batch that draft describes: its
\* preview and its resolutions, and that draft, not one made since it was
\* discarded, is applied with it.
DraftIsWhatIsApplied ==
  [][\A b \in Batch, c \in Calls :
       /\ batches[b] = Nil /\ batches'[b] # Nil
       /\ Doing(c, "reprice") /\ call'[c] = Nil /\ call[c].used # 0
       => /\ draft.status = "draft" /\ draft'.status = "applied"
          /\ draft.no = call[c].used
          /\ Token(draft, draft.choice) = batches'[b].token]_deskVars

\* Nothing of the price stream is lost: a revision that counts as confirmed
\* was in a confirmed snapshot, with a price the row had under it.
ChangeIsNeverLost ==
  \A r \in Row :
    revisions[r].rev > 0 /\ revisions[r].confirmed = revisions[r].rev =>
      \E s \in Used(snapshots) :
        /\ snapshots[s].status = "confirmed" /\ snapshots[s].items[r] # Nil
        /\ snapshots[s].items[r].rev = revisions[r].rev
        /\ snapshots[s].items[r].price \in carried[r]

\* Snapshots are confirmed in any order and more than once; an older one
\* does not bring back to the queue what a newer one confirmed.
ConfirmedNeverFalls ==
  [][\A r \in Row : revisions'[r].confirmed >= revisions[r].confirmed]_deskVars

\* Every call with one idempotency key, the retry of a lost answer and two
\* at once included, is answered with one snapshot.
KeyNamesOneSnapshot == \A k \in Keys : \A s, t \in answers[k] : s = t

-----------------------------------------------------------------------------
\* The prices under the batch a row's price belongs to, from what the
\* batches recorded.
Under(r) ==
  LET chain[b \in 0..MaxBatches] ==
        IF b = 0 \/ batches[b] = Nil THEN <<>>
        ELSE LET old == batches[b].token.seen[r]
             IN  Append(chain[old.mark], [price |-> old.price, batch |-> old.mark])
  IN  chain[rows[r].mark]

Book ==
  INSTANCE PriceBook WITH
    book <- [r \in Row |->
               IF rows[r] = Nil THEN <<>>
               ELSE Append(Under(r), [price |-> rows[r].price, batch |-> rows[r].mark])],
    applied <- [b \in Batch |->
                  IF batches[b] = Nil THEN [status |-> "none", rows |-> {}]
                  ELSE [status |-> IF batches[b].status = "completed"
                                   THEN "applied" ELSE "undone",
                        rows |-> Changed(batches[b].token)]]

\* The desk implements the price book: rollback restores exactly the prices
\* its batch replaced, in every row or in none, however batches, direct
\* changes and completed requests were interleaved.
PriceBookSpec == Book!BookSpec

=============================================================================
