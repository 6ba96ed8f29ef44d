---------------------------- MODULE CreationBook ----------------------------
(***************************************************************************)
(* What product creation promises: an attempt becomes at most one product, *)
(* with the article that was put aside for it if there was one; a dropped  *)
(* attempt never becomes one; and no article is given twice.               *)
(***************************************************************************)
EXTENDS Integers, Sequences

CONSTANTS Errands, Goods

VARIABLES book,      \* for each attempt, its state and article, 0 for none
          given,     \* articles taken so far
          products   \* what was created: attempt, article, goods

bookVars == <<book, given, products>>

BookInit ==
  /\ book = [e \in Errands |-> [state |-> "open", article |-> 0]]
  /\ given = 0 /\ products = <<>>

PutAside(e) ==
  /\ book[e].state = "open"
  /\ given' = given + 1
  /\ book' = [book EXCEPT ![e] = [state |-> "held", article |-> given']]
  /\ UNCHANGED products

Drop(e) ==
  /\ book[e].state \in {"open", "held"}
  /\ book' = [book EXCEPT ![e].state = "dropped"]
  /\ UNCHANGED <<given, products>>

Make(e, g) ==
  /\ book[e].state \in {"open", "held"}
  /\ given' = IF book[e].state = "held" THEN given ELSE given + 1
  /\ book' = [book EXCEPT ![e] =
                [state |-> "made",
                 article |-> IF @.state = "held" THEN @.article ELSE given']]
  /\ products' = Append(products, [by |-> e, article |-> book'[e].article, goods |-> g])

\* An article is lost with the transaction that took it.
Waste == given' = given + 1 /\ UNCHANGED <<book, products>>

BookNext ==
  \/ \E e \in Errands : PutAside(e) \/ Drop(e) \/ \E g \in Goods : Make(e, g)
  \/ Waste

BookSpec == BookInit /\ [][BookNext]_bookVars

=============================================================================
