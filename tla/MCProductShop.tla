--------------------------- MODULE MCProductShop ----------------------------
(***************************************************************************)
(* Small instances of ProductShop for TLC: one product that Magento shows. *)
(***************************************************************************)
EXTENDS ProductShop, TLC

\* One event of this kind, and nothing else.
Once(kind) == [k \in Kinds |-> IF k = kind THEN 1 ELSE 0]

\* The product is archived, restored, recounted, republished and given photo
\* sets while the runtimes work on it and one thing at a time goes wrong.
ShopEvents == {Once(k) : k \in {"crash", "command", "fault", "edit", "publish"}}

\* Things that can stop the runtimes' progress.
StopEvents ==
  {Once(k) : k \in {"crash", "loss", "fault", "foreign", "disable", "touch"}}

PublishEvents == {Once("publish")}

\* At most three decisions of a person: intents and photo sets together.
ThreeDecisions == Cardinality(Rows(intents)) + Cardinality(Rows(media)) <= 3

=============================================================================
