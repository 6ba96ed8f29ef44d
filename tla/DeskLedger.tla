----------------------------- MODULE DeskLedger -----------------------------
(***************************************************************************)
(* The rows the Amber desk works on: products, correction requests,        *)
(* repricing batches and their draft, price-export revisions and           *)
(* snapshots, and the calls of the HTTP server that are between two of     *)
(* their transactions.  A call's record is what its handler (or the page   *)
(* it was sent from) has read and will use after the rows may have         *)
(* changed.                                                                *)
(***************************************************************************)
EXTENDS Integers, Sequences, FiniteSets

CONSTANTS Staff,        \* people signed in
          Calls,        \* calls the server is handling
          Stock,        \* how many product rows exist at the start
          MaxRows, MaxRequests, MaxBatches, MaxSnapshots,
          Prices,       \* UAH prices a decision may produce
          Matrix,       \* the decision to follow the price matrix
          Keys,         \* idempotency keys of price exports
          Nil,          \* an empty row, slot or field
          Days          \* which commands one behaviour is given

VARIABLES rows,         \* products: status, price, and the batch that owns
                        \* the price (details.repricing), 0 for none
          basis,        \* the price the matrix and the rate now give
          requests, batches, draft,
          revisions,    \* product_export_revisions
          snapshots, call,
          left,         \* commands this behaviour may still give
          carried,      \* history: prices a row had under its revision
          answers       \* history: snapshots answered for a key

Row      == 1..MaxRows
Request  == 1..MaxRequests
Batch    == 1..MaxBatches
Snapshot == 1..MaxSnapshots
Kinds == {"request", "desk", "price_change", "recount", "archive", "basis",
          "reprice", "undo", "draft", "export", "full", "confirm", "drop"}

ASSUME DeskAssumption ==
  /\ Stock \in 1..MaxRows
  /\ \A n \in {MaxRows, MaxRequests, MaxBatches, MaxSnapshots} : n \in Nat
  /\ Matrix \notin Prices /\ Nil \notin Prices \cup {Matrix} \cup Staff \cup Keys
  /\ Days \subseteq [Kinds -> Nat]

Decisions == Prices \cup {Matrix}

deskVars == <<rows, basis, requests, batches, draft, revisions, snapshots,
              call, left, carried, answers>>
priceVars   == <<rows, revisions, carried>>
exportVars  == <<snapshots, answers>>
batchVars   == <<batches, draft>>

IsNew(table, i) ==
  /\ table[i] = Nil
  /\ \A j \in DOMAIN table : j < i => table[j] # Nil

Used(table) == {i \in DOMAIN table : table[i] # Nil}

Spend(k) == /\ left[k] > 0
            /\ left' = [left EXCEPT ![k] = @ - 1]

\* The price a pricing decision gives now.
PriceOf(d) == IF d = Matrix THEN basis ELSE d

Active(r) == rows[r] # Nil /\ rows[r].status = "active"

\* The requests a product's unique index counts.
ActiveRequests(r) ==
  {q \in Used(requests) : /\ requests[q].row = r
                          /\ requests[q].status \in {"pending", "in_progress"}}

\* An in-place price change: the batch marker goes, the revision advances.
Repriced(r, p) ==
  /\ rows' = [rows EXCEPT ![r].price = p, ![r].mark = 0]
  /\ revisions' = [revisions EXCEPT ![r].rev = @ + 1]
  /\ carried' = [carried EXCEPT ![r] = {p}]

\* The source is corrected and excluded; its successor is a new row.
Recounted(r, p) ==
  \E s \in Row :
    /\ IsNew(rows, s)
    /\ rows' = [rows EXCEPT ![r].status = "corrected",
                  ![s] = [status |-> "active", price |-> p, mark |-> 0]]
    /\ carried' = [carried EXCEPT ![s] = {p}]
    /\ UNCHANGED revisions

Start(c, record) == call[c] = Nil /\ call' = [call EXCEPT ![c] = record]
Becomes(c, record) == call' = [call EXCEPT ![c] = record]
End(c) == call' = [call EXCEPT ![c] = Nil]
Doing(c, op) == call[c] # Nil /\ call[c].op = op

\* The server process dies while it handles the call.
Drop(c) ==
  /\ call[c] # Nil /\ Spend("drop") /\ End(c)
  /\ UNCHANGED <<priceVars, exportVars, batchVars, basis, requests>>

\* Somebody edits the matrix, or the rate is refreshed.
ChangeBasis(p) ==
  /\ p # basis /\ Spend("basis") /\ basis' = p
  /\ UNCHANGED <<priceVars, exportVars, batchVars, requests, call>>

DeskInit ==
  /\ basis \in Prices
  /\ rows = [r \in Row |-> IF r <= Stock
                           THEN [status |-> "active", price |-> basis, mark |-> 0]
                           ELSE Nil]
  /\ requests = [q \in Request |-> Nil]
  /\ batches = [b \in Batch |-> Nil]
  /\ draft = Nil
  /\ revisions = [r \in Row |-> [rev |-> 0, confirmed |-> 0, exposed |-> FALSE]]
  /\ snapshots = [s \in Snapshot |-> Nil]
  /\ call = [c \in Calls |-> Nil]
  /\ left \in Days
  /\ carried = [r \in Row |-> IF r <= Stock THEN {basis} ELSE {}]
  /\ answers = [k \in Keys |-> {}]

=============================================================================
