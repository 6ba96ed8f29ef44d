--------------------------- MODULE DispatchLedger ---------------------------
(***************************************************************************)
(* What the dispatch ledger promises: a mutation of Magento leaves at most *)
(* once per step, only after its marker is durable, and a marker is never  *)
(* withdrawn.  Nothing is said of workers, locks, requests or jobs: the    *)
(* promise holds whoever dispatches.                                       *)
(***************************************************************************)
EXTENDS Naturals

CONSTANTS Step         \* the (job, ordinal) pairs a marker may exist for

VARIABLES marker, sent

States == {"none", "dispatched", "verified"}

Init == /\ marker = [s \in Step |-> "none"]
        /\ sent = [s \in Step |-> 0]

\* The marker is committed.
Commit(s) == /\ marker[s] = "none"
             /\ marker' = [marker EXCEPT ![s] = "dispatched"]
             /\ UNCHANGED sent

\* The mutation leaves, once.
Issue(s) == /\ marker[s] # "none" /\ sent[s] = 0
            /\ sent' = [sent EXCEPT ![s] = 1]
            /\ UNCHANGED marker

\* Observed effects become verified: several at once in a reconciliation, and
\* a step whose effect was already there needs no marker.
Resolve == /\ marker' = [s \in Step |-> IF marker'[s] = marker[s]
                                        THEN marker[s] ELSE "verified"]
           /\ UNCHANGED sent

Next == \/ Resolve
        \/ \E s \in Step : Commit(s) \/ Issue(s)

Spec == Init /\ [][Next]_<<marker, sent>>

=============================================================================
