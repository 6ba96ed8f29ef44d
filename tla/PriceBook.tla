----------------------------- MODULE PriceBook ------------------------------
(***************************************************************************)
(* What repricing promises: every row keeps the prices its batches set on  *)
(* top of the last price a person set, newest last; a batch adds one price *)
(* to all of its rows, and undoing it takes exactly those prices away, so  *)
(* it is possible only while they are the newest everywhere.               *)
(***************************************************************************)
EXTENDS Integers, Sequences

CONSTANTS Row, Batch, Prices

VARIABLES book,     \* for each row, its prices with their batches
          applied   \* for each batch, its state and rows

Entry(p, b) == [price |-> p, batch |-> b]
Last(s) == s[Len(s)]

BookInit ==
  /\ \E p \in Prices : book \in [Row -> {<<>>, <<Entry(p, 0)>>}]
  /\ applied = [b \in Batch |-> [status |-> "none", rows |-> {}]]

\* A person sets a price, or a recount makes a row: no batch can be undone
\* through it any more.
Set(r, p) ==
  /\ book' = [book EXCEPT ![r] = <<Entry(p, 0)>>]
  /\ UNCHANGED applied

ApplyTo(b, S, p) ==
  /\ applied[b].status = "none" /\ S # {}
  /\ \A r \in S : book[r] # <<>> /\ Last(book[r]).price # p
  /\ book' = [r \in Row |-> IF r \in S THEN Append(book[r], Entry(p, b)) ELSE book[r]]
  /\ applied' = [applied EXCEPT ![b] = [status |-> "applied", rows |-> S]]

Undo(b) ==
  /\ applied[b].status = "applied"
  /\ \A r \in applied[b].rows : Last(book[r]).batch = b
  /\ book' = [r \in Row |-> IF r \in applied[b].rows
                            THEN SubSeq(book[r], 1, Len(book[r]) - 1) ELSE book[r]]
  /\ applied' = [applied EXCEPT ![b].status = "undone"]

BookNext ==
  \/ \E r \in Row, p \in Prices : Set(r, p)
  \/ \E b \in Batch, S \in SUBSET Row, p \in Prices : ApplyTo(b, S, p)
  \/ \E b \in Batch : Undo(b)

BookSpec == BookInit /\ [][BookNext]_<<book, applied>>

=============================================================================
