-------------------------- MODULE ProductCreation ---------------------------
(***************************************************************************)
(* A creation attempt reserves its public article when the form is         *)
(* previewed, is saved at most once, or is cancelled.  Each command is one *)
(* transaction under the attempt's own advisory lock.                      *)
(***************************************************************************)
EXTENDS OfficeLedger

creationByOthers == <<accessVars, phase, inputs, sessionVars>>

\* The form sends its reservation, and the token of the preview it shows:
\* what that preview was computed from.  A cancellation names no article.
AskCreation(c, u, k, kind, g, article) ==
  /\ Spend(kind) /\ ~Frozen /\ May(u, "products.create")
  /\ Begin(c, u, kind, [key |-> k, goods |-> g, article |-> article, token |-> inputs])
  /\ UNCHANGED <<creationByOthers, creationVars>>

AskCreate(c) ==
  \E u \in Users, k \in Keys, g \in Goods, kind \in CreationOps :
    \E article \in {0, errands[<<u, k>>].article} :
      (kind = "cancel" => article = 0) /\ AskCreation(c, u, k, kind, g, article)

\* lockAuthority; the permission is checked inside the transaction.
EnterCreation(c) ==
  /\ At(c, "asked") /\ calls[c].kind \in CreationOps /\ SharedGranted(c)
  /\ Goes(c, "entered")
  /\ UNCHANGED <<creationByOthers, creationVars, left>>

-----------------------------------------------------------------------------
Errand(c) == <<Who(c), calls[c].asked.key>>
RowOf(c)  == errands[Errand(c)]

Transacts(c, kind) == At(c, "entered") /\ calls[c].kind = kind

Admitted(c) == ~Frozen /\ May(Who(c), "products.create")

\* reserve(): an attempt that is not closed, and still the same one.
Reservable(c) ==
  LET row == RowOf(c) a == calls[c].asked
  IN  /\ row.receipt = Nil /\ row.state \in {"none", "reserved"}
      /\ row.state = "reserved" => row.category = a.goods.category
      /\ a.article # 0 => row.article = a.article

\* A check of the form, its names or photographs for instance, may refuse the
\* transaction before or after it took an article from the sequence.
Refused(taking) ==
  /\ UNCHANGED <<errands, stock>>
  /\ articles' = articles \/ (taking /\ articles' = articles + 1)

\* A preview allocates the article of its attempt once.
Reserve(c) ==
  LET allocates == Admitted(c) /\ Reservable(c) /\ RowOf(c).state = "none"
  IN  /\ Transacts(c, "reserve")
      /\ \/ /\ allocates
            /\ articles' = articles + 1
            /\ errands' = [errands EXCEPT ![Errand(c)] =
                             [@ EXCEPT !.state = "reserved", !.article = articles + 1,
                                       !.category = calls[c].asked.goods.category]]
            /\ UNCHANGED stock
         \/ Refused(allocates)
      /\ End(c) /\ UNCHANGED <<creationByOthers, left>>

\* Mutant: a form with a reservation is saved whatever became of it.
SaleableUnclosed(c) ==
  LET a == calls[c].asked
  IN  /\ RowOf(c).receipt = Nil /\ a.token = inputs
      /\ a.article = 0 => RowOf(c).state = "none"

\* What saveProduct requires once no receipt answers it: with a reservation
\* the form must name it, and the preview must still be what it was.
Saleable(c) ==
  LET row == RowOf(c) a == calls[c].asked
  IN  /\ row.receipt = Nil
      /\ IF a.article = 0 THEN row.state = "none"
                          ELSE row.state = "reserved" /\ Reservable(c)
      /\ a.token = inputs

\* The product, the consumed reservation and the receipt commit together.
\* Without a reservation the trigger allocates the article.
Sell(c) ==
  LET a     == calls[c].asked
      sells == Admitted(c) /\ Saleable(c)
      own   == IF a.article = 0 THEN articles + 1 ELSE RowOf(c).article
  IN  /\ Transacts(c, "sell")
      /\ \/ /\ sells
            /\ articles' = IF a.article = 0 THEN articles + 1 ELSE articles
            /\ stock' = Append(stock, [by |-> Errand(c), article |-> own, goods |-> a.goods])
            /\ errands' = [errands EXCEPT ![Errand(c)] =
                             [@ EXCEPT !.state = IF RowOf(c).state = "reserved"
                                                 THEN "consumed" ELSE RowOf(c).state,
                                       !.receipt = [asked |-> a, product |-> Len(stock) + 1]]]
         \/ Refused(sells /\ a.article = 0)
      /\ End(c) /\ UNCHANGED <<creationByOthers, left>>

\* A cancellation that comes before the reservation leaves a tombstone.
Cancel(c) ==
  /\ Transacts(c, "cancel")
  /\ errands' =
       IF Admitted(c) /\ RowOf(c).receipt = Nil /\ RowOf(c).state \in {"none", "reserved"}
       THEN [errands EXCEPT ![Errand(c)] =
               [@ EXCEPT !.state = "cancelled",
                         !.category = IF RowOf(c).category = Nil
                                      THEN calls[c].asked.goods.category
                                      ELSE RowOf(c).category]]
       ELSE errands
  /\ End(c) /\ UNCHANGED <<articles, stock, creationByOthers, left>>

CreationStep(c) == EnterCreation(c) \/ Reserve(c) \/ Sell(c) \/ Cancel(c)

=============================================================================
