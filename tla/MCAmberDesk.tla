---------------------------- MODULE MCAmberDesk -----------------------------
(***************************************************************************)
(* A small instance of AmberDesk for TLC: every behaviour is given one of  *)
(* a few mixes of commands.                                                *)
(***************************************************************************)
EXTENDS AmberDesk, TLC

Nothing == [k \in Kinds |-> 0]

\* Two calls about one request, while its product may change.
ClaimDay == [Nothing EXCEPT !["request"] = 1, !["desk"] = 4, !["recount"] = 1,
                            !["basis"] = 1, !["drop"] = 1]

\* A request on products that batches change and give back.
BatchDay == [Nothing EXCEPT !["reprice"] = 2, !["undo"] = 2, !["request"] = 1,
                            !["desk"] = 2, !["draft"] = 1]

\* Batches from a draft that people edit meanwhile.
DraftDay == [Nothing EXCEPT !["reprice"] = 2, !["undo"] = 1, !["draft"] = 3,
                            !["basis"] = 1, !["price_change"] = 1]

\* Price changes, their exports and confirmations.
ExportDay == [Nothing EXCEPT !["price_change"] = 2, !["full"] = 1, !["export"] = 3,
                             !["confirm"] = 2, !["archive"] = 1, !["drop"] = 1]

\* Price changes beside a batch and a full snapshot.
MixedDay == [Nothing EXCEPT !["price_change"] = 2, !["full"] = 1, !["export"] = 1,
                            !["confirm"] = 2, !["reprice"] = 2, !["undo"] = 1]

DeskDays == {ClaimDay, BatchDay, DraftDay, ExportDay, MixedDay}

Symmetric == Permutations(Calls) \cup Permutations(Staff)
             \cup Permutations(Prices) \cup Permutations(Keys)

=============================================================================
