----------------------------- MODULE PriceExport ----------------------------
(***************************************************************************)
(* The price stream of price-export.service.js and the exposure that a     *)
(* full snapshot of export.service.js establishes: pending price changes   *)
(* are captured under an idempotency key and confirmed later, in any       *)
(* order.                                                                  *)
(***************************************************************************)
EXTENDS DeskLedger

exportFrame == <<rows, carried, batchVars, basis, requests>>

\* A change Magento may be told about: the row was in a full snapshot, is
\* not excluded, and has a price revision nobody confirmed.
PendingPrice(r) ==
  Active(r) /\ revisions[r].exposed /\ revisions[r].confirmed < revisions[r].rev

\* What a snapshot of these rows captures.
Captured(S) ==
  [r \in Row |-> IF r \in S THEN [rev |-> revisions[r].rev, price |-> rows[r].price]
                 ELSE Nil]

\* Mutant: the key's unique index and its lookup are gone.
NamedNever(k) == {}

\* The snapshot with this key.
Named(k) == {s \in Used(snapshots) : snapshots[s].key = k}

Answer(k, S) == answers' = [answers EXCEPT ![k] = @ \cup S]

\* createPriceExportSnapshot up to its transaction: the key is looked up,
\* then the candidates are read.
BeginExport(c, k) ==
  /\ Spend("export")
  /\ \/ /\ Named(k) # {} /\ Answer(k, Named(k))
        /\ UNCHANGED call
     \/ /\ Named(k) = {} /\ \E r \in Row : PendingPrice(r)
        /\ Start(c, [op |-> "export", key |-> k,
                     candidates |-> {r \in Row : PendingPrice(r)}])
        /\ UNCHANGED answers
  /\ UNCHANGED <<exportFrame, revisions, snapshots>>

\* The candidates that are still pending once their rows are locked.
Relocked(S) == {r \in S : PendingPrice(r)}

\* Its transaction; another call with the key may have won the insert.
CaptureExport(c) ==
  LET k == call[c].key
      S == Relocked(call[c].candidates)
  IN  /\ Doing(c, "export") /\ End(c)
      /\ \/ /\ S = {} /\ UNCHANGED exportVars
         \/ /\ S # {} /\ Named(k) # {} /\ Answer(k, Named(k))
            /\ UNCHANGED snapshots
         \/ /\ S # {} /\ Named(k) = {}
            /\ \E s \in Snapshot :
                 /\ IsNew(snapshots, s)
                 /\ snapshots' = [snapshots EXCEPT ![s] =
                      [key |-> k, items |-> Captured(S), status |-> "generated"]]
                 /\ Answer(k, {s})
      /\ UNCHANGED <<exportFrame, revisions, left>>

\* createExportSnapshot while the product CSV is still written: its rows are
\* exposed from now on, and the price changes made before are captured.
FullSnapshot ==
  LET S == {r \in Row : Active(r)}
  IN  /\ S # {} /\ Spend("full")
      /\ revisions' = [r \in Row |-> [revisions[r] EXCEPT !.exposed = @ \/ r \in S]]
      /\ \E s \in Snapshot :
           /\ IsNew(snapshots, s)
           /\ snapshots' = [snapshots EXCEPT ![s] =
                [key |-> Nil, status |-> "generated",
                 items |-> Captured({r \in S : /\ ~revisions[r].exposed
                                               /\ revisions[r].rev > 0})]]
      /\ UNCHANGED <<exportFrame, answers, call>>

\* Mutant: the captured revision is written as it is.
ConfirmedAsCaptured(r, item) == item.rev

\* Mutant: what is pending now counts as confirmed.
ConfirmedAsCurrent(r, item) == revisions[r].rev

\* The revision a confirmation leaves: GREATEST of the two.
ConfirmedAs(r, item) ==
  IF item.rev > revisions[r].confirmed THEN item.rev ELSE revisions[r].confirmed

\* confirmPriceExportSnapshot and confirmExportSnapshot, which may be called
\* again and in any order.
Confirm(s) ==
  /\ snapshots[s] # Nil /\ Spend("confirm")
  /\ revisions' = [r \in Row |->
       LET item == snapshots[s].items[r]
       IN  IF item # Nil /\ item.rev <= revisions[r].rev
           THEN [revisions[r] EXCEPT !.confirmed = ConfirmedAs(r, item)]
           ELSE revisions[r]]
  /\ snapshots' = [snapshots EXCEPT ![s].status = "confirmed"]
  /\ UNCHANGED <<exportFrame, answers, call>>

ExportNext ==
  \/ \E c \in Calls, k \in Keys : BeginExport(c, k)
  \/ \E c \in Calls : CaptureExport(c)
  \/ FullSnapshot \/ \E s \in Snapshot : Confirm(s)

=============================================================================
