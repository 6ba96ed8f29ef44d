--------------------------- MODULE MCMagentoSync ----------------------------
(***************************************************************************)
(* Small instances of MagentoSync for TLC.  Each run gives the processes   *)
(* and names, from the budgets below, the events it explores together.     *)
(***************************************************************************)
EXTENDS MagentoSync, TLC

NoEvents == [k \in Kinds |-> 0]

\* A person works beside the worker, which may die at any point.
RecoveryEvents ==
  [NoEvents EXCEPT !["edit"] = 1, !["crash"] = 1, !["command"] = 2]

\* A person resolves a parked job, plans the next one and applies it before the
\* worker consumes the receipt of the first.
ReviewEvents == [NoEvents EXCEPT !["edit"] = 1, !["command"] = 3]

\* The content goes a, b, a while an unrelated column or the publication
\* moves in between, and the gate may go off in the middle of a pass.
TouchEvents   == [NoEvents EXCEPT !["edit"] = 2, !["touch"] = 1, !["disable"] = 1]
PublishEvents == [NoEvents EXCEPT !["edit"] = 2, !["publish"] = 1, !["disable"] = 1]

LedgerEvents == {RecoveryEvents, ReviewEvents, TouchEvents, PublishEvents}

\* Replicas keep running after PostgreSQL dropped their sessions, while
\* another writer changes Magento.
ReplicaEvents ==
  {[NoEvents EXCEPT !["edit"] = 1, !["loss"] = 1, !["foreign"] = 1]}

\* One of each thing that can stop a worker's progress.
LiveEvents ==
  {[NoEvents EXCEPT !["retire"] = 1, !["crash"] = 1, !["fault"] = 1,
                    !["publish"] = 1, !["disable"] = 1]}

\* For the runs that refute a document.
FindingEvents ==
  {[NoEvents EXCEPT !["publish"] = 1, !["fault"] = 1, !["command"] = 2]}

Symmetry == Permutations(Workers)

=============================================================================
