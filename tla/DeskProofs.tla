----------------------------- MODULE DeskProofs -----------------------------
(***************************************************************************)
(* Theorems about AmberDesk, for every number of people, calls, rows and   *)
(* prices and every mix of commands.                                       *)
(***************************************************************************)
EXTENDS AmberDesk, TLAPS

-----------------------------------------------------------------------------
(* The inductive invariant, in the groups of variables the actions frame.  *)

PriceTypes ==
  /\ rows \in [Row -> RowState \cup {Nil}]
  /\ revisions \in [Row -> [rev : Nat, confirmed : Nat, exposed : BOOLEAN]]
  /\ carried \in [Row -> SUBSET Prices]
  /\ \A r \in Row : revisions[r].confirmed <= revisions[r].rev

RequestTypes ==
  /\ requests \in [Request -> RequestState \cup {Nil}]
  /\ \A r \in Row : \A p, q \in ActiveRequests(r) : p = q
  /\ \A q \in Used(requests) :
       (requests[q].owner # Nil) = (requests[q].status = "in_progress")

BatchTypes ==
  /\ batches \in [Batch -> BatchState \cup {Nil}]
  /\ draft \in DraftState \cup {Nil}

ExportTypes ==
  /\ snapshots \in [Snapshot -> SnapshotState \cup {Nil}]
  /\ answers \in [Keys -> SUBSET Snapshot]

CallTypes == call \in [Calls -> CallState \cup {Nil}]
LeftTypes == left \in [Kinds -> Nat]
BasisType == basis \in Prices

\* A call about a request names a version it has or had; the claim that is
\* in force under the version it has is the one the call began under.
Known(x) ==
  /\ requests[x.q] # Nil
  /\ x.version <= requests[x.q].version
  /\ requests[x.q].status = "in_progress" /\ x.version = requests[x.q].version
       => x.epoch = requests[x.q].epoch
CallsKnown ==
  \A c \in Calls : call[c] # Nil /\ call[c].op \in HeldOps => Known(call[c])

\* Requests are about rows that exist.
RowsKnown == \A q \in Used(requests) : rows[requests[q].row] # Nil

\* A key has one snapshot, and nothing else was ever answered for it.
KeysKnown ==
  \A k \in Keys : /\ answers[k] \subseteq Named(k)
                  /\ \A s, t \in Named(k) : s = t

\* Only an existing row has revisions, and its price is among those its
\* revision had.
PricesCarried ==
  \A r \in Row : /\ rows[r] # Nil => rows[r].price \in carried[r]
                 /\ rows[r] = Nil => revisions[r].rev = 0

\* A captured item is no newer than its row; one of the row's own revision
\* holds a price of that revision.
ItemsCarried ==
  \A s \in Used(snapshots), r \in Row :
    LET item == snapshots[s].items[r]
    IN  item # Nil => /\ 0 < item.rev /\ item.rev <= revisions[r].rev
                      /\ item.rev = revisions[r].rev => item.price \in carried[r]

\* Whatever revision is confirmed, a confirmed snapshot holds it.
ConfirmedHeld ==
  \A r \in Row :
    revisions[r].confirmed > 0 =>
      \E s \in Used(snapshots) :
        /\ snapshots[s].status = "confirmed" /\ snapshots[s].items[r] # Nil
        /\ snapshots[s].items[r].rev = revisions[r].confirmed

Types == /\ PriceTypes /\ RequestTypes /\ BatchTypes /\ ExportTypes
         /\ CallTypes /\ LeftTypes /\ BasisType
Stream == PricesCarried /\ ItemsCarried /\ ConfirmedHeld
IInv == Types /\ CallsKnown /\ RowsKnown /\ KeysKnown /\ Stream

LEMMA TypesAreDeskTypes == Types <=> DeskTypeOK
BY DEF Types, PriceTypes, RequestTypes, BatchTypes, ExportTypes, CallTypes,
       LeftTypes, BasisType, DeskTypeOK

LEMMA SpendTypes ==
  ASSUME LeftTypes, NEW k \in Kinds, Spend(k) PROVE LeftTypes'
BY DEF LeftTypes, Spend

LEMMA EndTypes ==
  ASSUME CallTypes, NEW c \in Calls, End(c) PROVE CallTypes'
BY DEF CallTypes, End

LEMMA StartTypes ==
  ASSUME CallTypes, NEW c \in Calls, NEW x \in CallState, Start(c, x)
  PROVE  CallTypes'
BY DEF CallTypes, Start

\* What a call's operation says of its record.
LEMMA CallsByOp ==
  ASSUME CallTypes, NEW c \in Calls, call[c] # Nil
  PROVE  /\ call[c].op \in HeldOps =>
              call[c] \in [op : HeldOps, who : Staff, q : Request, version : Nat,
                           epoch : Nat, from : RowState, to : Prices]
         /\ call[c].op \in {"price_change", "recount"} =>
              call[c] \in [op : {"price_change", "recount"}, row : Row,
                           decision : Decisions, from : RowState, to : Prices]
         /\ call[c].op \in {"reprice", "conflict"} =>
              call[c] \in [op : {"reprice", "conflict"}, token : TokenState,
                           used : Nat]
         /\ call[c].op = "applied" =>
              call[c] \in [op : {"applied"}, used : Nat]
         /\ call[c].op = "export" =>
              call[c] \in [op : {"export"}, key : Keys, candidates : SUBSET Row]
BY DEF CallTypes, CallState, HeldOps

LEMMA PriceOfType ==
  ASSUME BasisType, NEW d \in Decisions PROVE PriceOf(d) \in Prices
BY DEF BasisType, Decisions, PriceOf

LEMMA ActiveIsRow ==
  ASSUME PriceTypes, NEW r \in Row, Active(r) PROVE rows[r] \in RowState
BY DEF PriceTypes, Active

-----------------------------------------------------------------------------
(* What happens to prices.                                                 *)

\* Every row that exists goes on existing.
RowsKept == \A r \in Row : rows[r] # Nil => rows'[r] # Nil

\* One row, written or new, and the prices it had under its revision.
LEMMA RowWritten ==
  ASSUME PriceTypes, NEW r \in Row, NEW x \in RowState,
         rows' = [rows EXCEPT ![r] = x]
  PROVE  /\ rows' \in [Row -> RowState \cup {Nil}]
         /\ rows'[r] = x /\ x # Nil
         /\ \A s \in Row \ {r} : rows'[s] = rows[s]
         /\ RowsKept
BY NilAssumption DEF PriceTypes, RowsKept

LEMMA ItemTypes ==
  ASSUME ExportTypes
  PROVE  \A s \in Used(snapshots), r \in Row :
           LET item == snapshots[s].items[r]
           IN  item # Nil => item \in [rev : Nat, price : Prices]
BY DEF ExportTypes, SnapshotState, Used

LEMMA RepricedPrices ==
  ASSUME PriceTypes, ExportTypes, Stream, NEW r \in Row, NEW p \in Prices, Active(r),
         Repriced(r, p), UNCHANGED snapshots
  PROVE  PriceTypes' /\ Stream' /\ RowsKept
<1>1. rows[r] \in RowState BY ActiveIsRow
<1>2. 0 \in 0..MaxBatches BY DeskAssumption
<1> DEFINE x == [rows[r] EXCEPT !.price = p, !.mark = 0]
<1>3. x \in RowState /\ x.price = p BY <1>1, <1>2 DEF RowState
<1>4. rows' = [rows EXCEPT ![r] = x] BY DEF Repriced, PriceTypes
<1> HIDE DEF x
<1>5. /\ rows' \in [Row -> RowState \cup {Nil}] /\ rows'[r] = x
      /\ \A s \in Row \ {r} : rows'[s] = rows[s]
      /\ RowsKept
  BY <1>3, <1>4, RowWritten
<1>6. /\ revisions' \in [Row -> [rev : Nat, confirmed : Nat, exposed : BOOLEAN]]
      /\ \A s \in Row : /\ revisions'[s].confirmed = revisions[s].confirmed
                        /\ revisions[s].rev <= revisions'[s].rev
      /\ revisions'[r].rev = revisions[r].rev + 1
      /\ \A s \in Row \ {r} : revisions'[s] = revisions[s]
  BY DEF Repriced, PriceTypes
<1>7. /\ carried' \in [Row -> SUBSET Prices] /\ carried'[r] = {p}
      /\ \A s \in Row \ {r} : carried'[s] = carried[s]
  BY DEF Repriced, PriceTypes
<1>8. PriceTypes'
  <2>1. \A s \in Row : revisions'[s].confirmed <= revisions'[s].rev
    BY <1>6 DEF PriceTypes
  <2> QED BY <2>1, <1>5, <1>6, <1>7 DEF PriceTypes
<1>9. PricesCarried'
  <2>1. rows[r] # Nil BY DEF Active
  <2> QED BY <1>3, <1>5, <1>6, <1>7, <2>1 DEF Stream, PricesCarried, RowsKept
<1>10. ItemsCarried'
  BY <1>6, <1>7, ItemTypes DEF Stream, ItemsCarried, PriceTypes, Used
<1>11. ConfirmedHeld'
  BY <1>6 DEF Stream, ConfirmedHeld, Used
<1> QED BY <1>5, <1>8, <1>9, <1>10, <1>11 DEF Stream

LEMMA RecountedPrices ==
  ASSUME PriceTypes, ExportTypes, Stream, NEW r \in Row, NEW p \in Prices, Active(r),
         Recounted(r, p), UNCHANGED snapshots
  PROVE  PriceTypes' /\ Stream' /\ RowsKept
<1>1. rows[r] \in RowState /\ rows[r] # Nil BY ActiveIsRow DEF Active
<1>2. 0 \in 0..MaxBatches BY DeskAssumption
<1> DEFINE x == [rows[r] EXCEPT !.status = "corrected"]
           y == [status |-> "active", price |-> p, mark |-> 0]
<1>3. /\ x \in RowState /\ x.price = rows[r].price
      /\ y \in RowState /\ y.price = p
      /\ x # Nil /\ y # Nil
  BY <1>1, <1>2, NilAssumption DEF RowState
<1>4. PICK s \in Row :
        /\ rows[s] = Nil
        /\ rows' = [rows EXCEPT ![r] = x, ![s] = y]
        /\ carried' = [carried EXCEPT ![s] = {p}]
        /\ UNCHANGED revisions
  BY DEF Recounted, IsNew, PriceTypes
<1> HIDE DEF x, y
<1>5. r # s BY <1>1, <1>4
<1>6. /\ rows' \in [Row -> RowState \cup {Nil}]
      /\ rows'[r] = x /\ rows'[s] = y
      /\ \A t \in Row \ {r, s} : rows'[t] = rows[t]
  BY <1>3, <1>4, <1>5 DEF PriceTypes
<1>7. /\ carried' \in [Row -> SUBSET Prices] /\ carried'[s] = {p}
      /\ \A t \in Row \ {s} : carried'[t] = carried[t]
  BY <1>4 DEF PriceTypes
<1>8. RowsKept BY <1>3, <1>6 DEF RowsKept
<1>9. PriceTypes' BY <1>4, <1>6, <1>7 DEF PriceTypes
<1>10. PricesCarried'
  BY <1>1, <1>3, <1>4, <1>5, <1>6, <1>7 DEF Stream, PricesCarried
<1>11. ItemsCarried'
  <2>1. \A u \in Used(snapshots) : snapshots[u].items[s] = Nil
    BY <1>4, ItemTypes DEF Stream, PricesCarried, ItemsCarried
  <2> QED BY <1>4, <1>7, <2>1 DEF Stream, ItemsCarried, Used
<1>12. ConfirmedHeld' BY <1>4 DEF Stream, ConfirmedHeld, Used
<1> QED BY <1>8, <1>9, <1>10, <1>11, <1>12 DEF Stream

\* Rows that are rewritten under the revision they have, with every price of
\* theirs noted.
LEMMA RewrittenPrices ==
  ASSUME PriceTypes, ExportTypes, Stream,
         rows' \in [Row -> RowState \cup {Nil}],
         carried' \in [Row -> SUBSET Prices],
         \A r \in Row : \/ rows'[r] = rows[r] /\ carried'[r] = carried[r]
                        \/ /\ rows[r] # Nil /\ rows'[r] # Nil
                           /\ rows'[r].price \in carried'[r]
                           /\ carried[r] \subseteq carried'[r],
         UNCHANGED <<revisions, snapshots>>
  PROVE  PriceTypes' /\ Stream' /\ RowsKept
<1>1. PriceTypes' BY DEF PriceTypes
<1>2. RowsKept BY DEF RowsKept
<1>3. PricesCarried' BY DEF Stream, PricesCarried
<1>4. ItemsCarried' BY DEF Stream, ItemsCarried, Used
<1>5. ConfirmedHeld' BY DEF Stream, ConfirmedHeld, Used
<1> QED BY <1>1, <1>2, <1>3, <1>4, <1>5 DEF Stream

LEMMA SamePrices ==
  ASSUME PriceTypes, ExportTypes, Stream, UNCHANGED <<priceVars, snapshots>>
  PROVE  PriceTypes' /\ Stream' /\ RowsKept
BY DEF priceVars, PriceTypes, Stream, PricesCarried, ItemsCarried,
       ConfirmedHeld, RowsKept, Used

-----------------------------------------------------------------------------
(* What happens to requests and to the calls about them.                   *)

IsActive(x) == x.status \in {"pending", "in_progress"}

\* A request stays one about its row, its version never falls, and within a
\* version it is claimed only by the claim it already had.
Moved(q) ==
  IF requests[q] = Nil THEN requests'[q] = Nil
  ELSE /\ requests'[q] # Nil /\ requests'[q].row = requests[q].row
       /\ requests[q].version <= requests'[q].version
       /\ requests'[q].status = "in_progress"
            /\ requests'[q].version = requests[q].version
          => /\ requests[q].status = "in_progress"
             /\ requests'[q].epoch = requests[q].epoch
RequestsMove == \A q \in Request : Moved(q)

CallKept(c) ==
  \/ call'[c] = call[c] \/ call'[c] = Nil \/ call'[c].op \notin HeldOps
  \/ Known(call[c])'
CallsKept == \A c \in Calls : CallKept(c)

LEMMA RequestType ==
  ASSUME RequestTypes
  PROVE  \A q \in Request : requests[q] # Nil => requests[q] \in RequestState
BY DEF RequestTypes

LEMMA SameRequests ==
  ASSUME RequestTypes, UNCHANGED requests
  PROVE  RequestTypes' /\ RequestsMove
<1>1. RequestTypes' BY DEF RequestTypes, ActiveRequests, Used
<1>2. RequestsMove BY RequestType DEF RequestsMove, Moved, RequestState
<1> QED BY <1>1, <1>2

\* One request rewritten: it is still about its row, has an owner exactly
\* while it is claimed, and becomes active only beside no other.
LEMMA RequestWritten ==
  ASSUME RequestTypes, NEW q \in Request, NEW x \in RequestState,
         requests[q] # Nil, requests' = [requests EXCEPT ![q] = x],
         x.row = requests[q].row,
         (x.owner # Nil) = (x.status = "in_progress"),
         IsActive(x) => IsActive(requests[q])
                        \/ ActiveRequests(requests[q].row) = {},
         requests[q].version <= x.version,
         x.status = "in_progress" /\ x.version = requests[q].version
           => requests[q].status = "in_progress" /\ x.epoch = requests[q].epoch
  PROVE  RequestTypes' /\ RequestsMove
<1>1. /\ requests' \in [Request -> RequestState \cup {Nil}]
      /\ requests'[q] = x /\ x # Nil
      /\ \A p \in Request \ {q} : requests'[p] = requests[p]
  BY NilAssumption DEF RequestTypes
<1>2. Used(requests') = Used(requests)
  BY <1>1 DEF Used, RequestTypes
<1>3. ASSUME NEW r \in Row
      PROVE  \A s, t \in ActiveRequests(r)' : s = t
  <2>1. ActiveRequests(r)' =
          {p \in Used(requests) : /\ requests'[p].row = r
                                  /\ IsActive(requests'[p])}
    BY <1>2 DEF ActiveRequests, IsActive
  <2>2. ActiveRequests(r) =
          {p \in Used(requests) : requests[p].row = r /\ IsActive(requests[p])}
    BY DEF ActiveRequests, IsActive
  <2>3. \A s, t \in ActiveRequests(r) : s = t BY DEF RequestTypes
  <2>4. Used(requests) \subseteq Request BY DEF Used, RequestTypes
  <2>5. CASE q \in ActiveRequests(r)' /\ q \notin ActiveRequests(r)
    <3>1. r = requests[q].row /\ IsActive(x)
      BY <1>1, <2>1, <2>5
    <3>2. ActiveRequests(r) = {} BY <2>2, <2>5, <3>1, <2>1
    <3>3. ActiveRequests(r)' \subseteq {q}
      BY <1>1, <2>1, <2>2, <2>4, <3>2
    <3> QED BY <3>3
  <2>6. CASE ~(q \in ActiveRequests(r)' /\ q \notin ActiveRequests(r))
    <3>1. ActiveRequests(r)' \subseteq ActiveRequests(r)
      BY <1>1, <2>1, <2>2, <2>4, <2>6
    <3> QED BY <3>1, <2>3
  <2> QED BY <2>5, <2>6
<1>4. \A p \in Used(requests') :
        (requests'[p].owner # Nil) = (requests'[p].status = "in_progress")
  BY <1>1, <1>2 DEF RequestTypes, Used
<1>5. RequestTypes' BY <1>1, <1>3, <1>4 DEF RequestTypes
<1>6. ASSUME NEW p \in Request PROVE Moved(p)
  <2>1. CASE p = q BY <1>1, <2>1 DEF Moved
  <2>2. CASE p # q BY <1>1, <2>2, RequestType DEF Moved, RequestState
  <2> QED BY <2>1, <2>2
<1> QED BY <1>5, <1>6 DEF RequestsMove

\* A request with another status, owner, version and claim.
Revised(x, status, owner, version, epoch) ==
  [x EXCEPT !.status = status, !.owner = owner, !.version = version,
            !.epoch = epoch]

LEMMA RequestRevised ==
  ASSUME NEW x \in RequestState,
         NEW status \in {"pending", "in_progress", "rejected", "completed"},
         NEW owner \in Staff \cup {Nil}, NEW version \in Nat, NEW epoch \in Nat
  PROVE  /\ Revised(x, status, owner, version, epoch) \in RequestState
         /\ Revised(x, status, owner, version, epoch).row = x.row
         /\ Revised(x, status, owner, version, epoch).status = status
         /\ Revised(x, status, owner, version, epoch).owner = owner
         /\ Revised(x, status, owner, version, epoch).version = version
         /\ Revised(x, status, owner, version, epoch).epoch = epoch
BY DEF RequestState, Revised

LEMMA EndedRequest ==
  ASSUME RequestTypes, NEW q \in Request, requests[q] # Nil,
         requests[q].status = "in_progress",
         NEW status \in {"pending", "rejected", "completed"},
         requests' = Ended(q, status)
  PROVE  RequestTypes' /\ RequestsMove /\ requests'[q].status = status
<1>1. PICK z \in RequestState : requests[q] = z
  BY RequestType
<1>2. PICK v \in Nat : v = z.version + 1
  BY DEF RequestState
<1> DEFINE x == Revised(z, status, Nil, v, z.epoch)
<1>3. /\ x \in RequestState /\ x.row = z.row /\ x.status = status
      /\ x.owner = Nil /\ x.version = v
  <2>1. /\ status \in {"pending", "in_progress", "rejected", "completed"}
        /\ Nil \in Staff \cup {Nil} /\ z.epoch \in Nat
    BY DEF RequestState
  <2> QED BY <2>1, RequestRevised
<1>4. requests' = [requests EXCEPT ![q] = x]
  BY <1>1, <1>2 DEF Ended, RequestTypes, RequestState, Revised
<1> HIDE DEF x
<1>5. /\ IsActive(requests[q])
      /\ (x.owner # Nil) = (x.status = "in_progress")
      /\ requests[q].version <= x.version
  BY <1>1, <1>2, <1>3 DEF IsActive, RequestState
<1>6. RequestTypes' /\ RequestsMove
  BY <1>1, <1>3, <1>4, <1>5, RequestWritten
<1> QED BY <1>3, <1>4, <1>6 DEF RequestTypes

LEMMA CallsKnownAfter ==
  ASSUME CallsKnown, RequestTypes, RequestTypes', RequestsMove, CallTypes,
         CallsKept
  PROVE  CallsKnown'
<1> SUFFICES ASSUME NEW c \in Calls, call'[c] # Nil, call'[c].op \in HeldOps
             PROVE  Known(call[c])'
  BY DEF CallsKnown
<1>1. CASE Known(call[c])' BY <1>1
<1>2. CASE call'[c] = call[c]
  <2>1. Known(call[c]) BY <1>2 DEF CallsKnown
  <2>2. /\ call[c].q \in Request /\ call[c].version \in Nat
    BY <1>2, CallsByOp
  <2>3. requests[call[c].q] \in RequestState BY <2>1, <2>2, RequestType DEF Known
  <2>4. Moved(call[c].q) BY <2>2 DEF RequestsMove
  <2>5. requests'[call[c].q] \in RequestState
    BY <2>1, <2>2, <2>4 DEF Moved, Known, RequestTypes
  <2> QED BY <1>2, <2>1, <2>2, <2>3, <2>4, <2>5 DEF Known, Moved, RequestState
<1> QED BY <1>1, <1>2 DEF CallsKept, CallKept

LEMMA RowsKnownAfter ==
  ASSUME RowsKnown, RequestTypes, RequestTypes', RequestsMove, RowsKept
  PROVE  RowsKnown'
BY RequestType DEF RowsKnown, RequestTypes, RequestsMove, Moved, RowsKept, Used,
                   RequestState

\* Unless a request is created, a step keeps the invariant by keeping its
\* parts.
LEMMA Composed ==
  ASSUME IInv, PriceTypes', Stream', RowsKept, RequestTypes', RequestsMove,
         BatchTypes', ExportTypes', KeysKnown', CallTypes', CallsKept,
         LeftTypes', BasisType'
  PROVE  IInv'
BY CallsKnownAfter, RowsKnownAfter DEF IInv, Types

LEMMA EndedCall ==
  ASSUME CallTypes, NEW c \in Calls, End(c)
  PROVE  CallTypes' /\ CallsKept
BY DEF CallTypes, End, CallsKept, CallKept

LEMMA BecameCall ==
  ASSUME CallTypes, NEW c \in Calls, NEW x \in CallState, x.op \notin HeldOps,
         Becomes(c, x)
  PROVE  CallTypes' /\ CallsKept /\ call'[c] # Nil
BY NilAssumption DEF CallTypes, Becomes, CallsKept, CallKept

LEMMA StartedCall ==
  ASSUME CallTypes, NEW c \in Calls, NEW x \in CallState, Start(c, x),
         x.op \in HeldOps =>
           /\ requests'[x.q] # Nil
           /\ x.version <= requests'[x.q].version
           /\ requests'[x.q].status = "in_progress"
                /\ x.version = requests'[x.q].version
              => x.epoch = requests'[x.q].epoch
  PROVE  CallTypes' /\ CallsKept
<1>1. /\ call' \in [Calls -> CallState \cup {Nil}]
      /\ call'[c] = x
      /\ \A d \in Calls \ {c} : call'[d] = call[d]
  BY DEF CallTypes, Start
<1>2. CallKept(c) BY <1>1 DEF CallKept, Known
<1> QED BY <1>1, <1>2 DEF CallTypes, CallsKept, CallKept

LEMMA SameCalls ==
  ASSUME CallTypes, UNCHANGED call PROVE CallTypes' /\ CallsKept
BY DEF CallTypes, CallsKept, CallKept

LEMMA SameExports ==
  ASSUME ExportTypes, KeysKnown, UNCHANGED exportVars
  PROVE  ExportTypes' /\ KeysKnown' /\ UNCHANGED snapshots
BY DEF exportVars, ExportTypes, KeysKnown, Named, Used

LEMMA SameBatches ==
  ASSUME BatchTypes, UNCHANGED batchVars PROVE BatchTypes'
BY DEF batchVars, BatchTypes

LEMMA SameBasis == ASSUME BasisType, UNCHANGED basis PROVE BasisType'
BY DEF BasisType

LEMMA SameLeft == ASSUME LeftTypes, UNCHANGED left PROVE LeftTypes'
BY DEF LeftTypes

\* What a call about a request is about.
LEMMA CallAbout ==
  ASSUME IInv, NEW c \in Calls, NEW op \in HeldOps, Doing(c, op)
  PROVE  /\ call[c] \in CallState
         /\ call[c].q \in Request /\ call[c].who \in Staff /\ call[c].version \in Nat
         /\ call[c].to \in Prices /\ call[c].from \in RowState
         /\ requests[call[c].q] # Nil
         /\ requests[call[c].q] \in RequestState
         /\ Known(call[c])
<1>1. CallTypes BY DEF IInv, Types
<1>2. call[c] # Nil /\ call[c].op \in HeldOps BY DEF Doing
<1>3. call[c] \in [op : HeldOps, who : Staff, q : Request, version : Nat,
                   epoch : Nat, from : RowState, to : Prices]
  BY <1>1, <1>2, CallsByOp
<1>4. Known(call[c]) BY <1>2 DEF IInv, CallsKnown
<1>5. call[c] \in CallState BY <1>3 DEF CallState
<1> QED BY <1>3, <1>4, <1>5, RequestType DEF Known, IInv, Types

-----------------------------------------------------------------------------
(* Requests and direct changes keep the invariant.                         *)

LEMMA Parts ==
  ASSUME IInv
  PROVE  /\ PriceTypes /\ RequestTypes /\ BatchTypes /\ ExportTypes
         /\ CallTypes /\ LeftTypes /\ BasisType
         /\ CallsKnown /\ RowsKnown /\ KeysKnown /\ Stream
BY DEF IInv, Types

\* A step that touches only requests and calls.
LEMMA RequestStep ==
  ASSUME IInv, UNCHANGED requestFrame, RequestTypes', RequestsMove, CallTypes',
         CallsKept, LeftTypes'
  PROVE  IInv'
<1>1. /\ UNCHANGED priceVars /\ UNCHANGED exportVars /\ UNCHANGED batchVars
      /\ UNCHANGED basis
  BY DEF requestFrame
<1>2. UNCHANGED snapshots BY <1>1 DEF exportVars
<1> QED BY <1>1, <1>2, Parts, SamePrices, SameBatches, SameExports, SameBasis,
           Composed

LEMMA CreateKeeps ==
  ASSUME IInv, NEW r \in Row, NEW type \in {"price_change", "recount"},
         NEW d \in Decisions, CreateRequest(r, type, d)
  PROVE  IInv'
<1>1. PICK z \in RowState : rows[r] = z BY Parts, ActiveIsRow DEF CreateRequest
<1>2. PICK t \in Prices : t = PriceOf(d) BY Parts, PriceOfType
<1> DEFINE x == [type |-> type, row |-> r, decision |-> d, from |-> z, to |-> t,
                 status |-> "pending", owner |-> Nil, version |-> 0, epoch |-> 0]
<1>3. PICK q \in Request :
        requests[q] = Nil /\ requests' = [requests EXCEPT ![q] = x]
  BY <1>1, <1>2 DEF CreateRequest, IsNew
<1>4. /\ x \in RequestState /\ x.row = r /\ x.owner = Nil
      /\ x.status = "pending" /\ x # Nil
  BY NilAssumption DEF RequestState
<1> HIDE DEF x
<1>5. /\ requests' \in [Request -> RequestState \cup {Nil}]
      /\ requests'[q] = x
      /\ \A p \in Request \ {q} : requests'[p] = requests[p]
      /\ Used(requests') = Used(requests) \cup {q}
  BY <1>3, <1>4, Parts DEF RequestTypes, Used
<1>6. ASSUME NEW s \in Row PROVE \A u, v \in ActiveRequests(s)' : u = v
  <2>1. \A u, v \in ActiveRequests(s) : u = v BY Parts DEF RequestTypes
  <2>2. Used(requests) \subseteq Request /\ q \notin Used(requests)
    BY <1>3, Parts DEF Used, RequestTypes
  <2>3. CASE s = r
    <3>1. ActiveRequests(s) = {} BY <2>3 DEF CreateRequest
    <3>2. ActiveRequests(s)' \subseteq {q}
      BY <1>5, <2>2, <3>1 DEF ActiveRequests
    <3> QED BY <3>2
  <2>4. CASE s # r
    <3>1. ActiveRequests(s)' \subseteq ActiveRequests(s)
      BY <1>4, <1>5, <2>2, <2>4 DEF ActiveRequests
    <3> QED BY <2>1, <3>1
  <2> QED BY <2>3, <2>4
<1>7. RequestTypes'
  <2>1. \A p \in Used(requests') :
          (requests'[p].owner # Nil) = (requests'[p].status = "in_progress")
    BY <1>4, <1>5, Parts DEF RequestTypes, Used
  <2> QED BY <1>5, <1>6, <2>1 DEF RequestTypes
<1>8. /\ UNCHANGED priceVars /\ UNCHANGED exportVars /\ UNCHANGED batchVars
      /\ UNCHANGED basis /\ UNCHANGED call
  BY DEF CreateRequest, requestFrame
<1>9. CallsKnown'
  BY <1>3, <1>5, <1>8, Parts, CallsByOp DEF CallsKnown, Known
<1>10. RowsKnown'
  <2>1. rows[r] # Nil BY DEF CreateRequest, Active
  <2>2. UNCHANGED rows BY <1>8 DEF priceVars
  <2> QED BY <1>3, <1>4, <1>5, <2>1, <2>2, Parts
          DEF RowsKnown, Used, RequestTypes
<1>11. LeftTypes' BY Parts, SpendTypes DEF CreateRequest, Kinds
<1>12. UNCHANGED snapshots BY <1>8 DEF exportVars
<1>13. PriceTypes' /\ Stream' BY <1>8, <1>12, Parts, SamePrices
<1>14. BatchTypes' /\ ExportTypes' /\ KeysKnown' /\ BasisType' /\ CallTypes'
  BY <1>8, Parts, SameBatches, SameExports, SameBasis, SameCalls
<1> QED BY <1>7, <1>9, <1>10, <1>11, <1>13, <1>14 DEF IInv, Types

LEMMA ClaimKeeps ==
  ASSUME IInv, NEW c \in Calls, NEW p \in Staff, NEW q \in Request,
         Claim(c, p, q)
  PROVE  IInv'
<1>1. PICK z \in RequestState : requests[q] = z
  BY Parts, RequestType DEF Claim
<1>2. PICK v \in Nat : v = z.version + 1 BY DEF RequestState
<1>3. PICK e \in Nat : e = z.epoch + 1 BY DEF RequestState
<1> DEFINE x == Revised(z, "in_progress", p, v, e)
<1>4. /\ x \in RequestState /\ x.row = z.row /\ x.status = "in_progress"
      /\ x.owner = p /\ x.version = v /\ x.epoch = e
  BY RequestRevised
<1>5. requests' = [requests EXCEPT ![q] = x]
  BY <1>1, <1>2, <1>3, Parts DEF Claim, RequestTypes, RequestState, Revised
<1> HIDE DEF x
<1>6. /\ requests[q] # Nil /\ IsActive(requests[q])
      /\ (x.owner # Nil) = (x.status = "in_progress")
      /\ requests[q].version <= x.version /\ requests[q].version # x.version
  BY <1>1, <1>2, <1>4, DeskAssumption DEF Claim, IsActive, RequestState
<1>7. RequestTypes' /\ RequestsMove
  BY <1>1, <1>4, <1>5, <1>6, Parts, RequestWritten
<1> DEFINE y == [op |-> "claim", who |-> p, q |-> q, version |-> v,
                 epoch |-> e, from |-> z.from, to |-> z.to]
<1>8. y \in CallState /\ y.op = "claim" /\ y.q = q /\ y.version = v /\ y.epoch = e
  BY DEF CallState, HeldOps, RequestState
<1>9. Start(c, y)
  BY <1>1, <1>2, <1>3 DEF Claim, About, RequestState
<1> HIDE DEF y
<1>10. requests'[q] = x /\ x # Nil
  BY <1>4, <1>5, Parts, NilAssumption DEF RequestTypes
<1>11. CallTypes' /\ CallsKept
  BY <1>4, <1>8, <1>9, <1>10, Parts, StartedCall
<1>12. LeftTypes' BY Parts, SpendTypes DEF Claim, Kinds
<1> QED BY <1>7, <1>11, <1>12, RequestStep DEF Claim

\* A call that starts with what a request says.
LEMMA AboutStarts ==
  ASSUME IInv, NEW op \in HeldOps, NEW c \in Calls, NEW p \in Staff,
         NEW q \in Request, requests[q] # Nil, UNCHANGED requests,
         Start(c, About(op, p, q, requests[q].version))
  PROVE  CallTypes' /\ CallsKept
<1>1. PICK z \in RequestState : requests[q] = z BY Parts, RequestType
<1> DEFINE y == [op |-> op, who |-> p, q |-> q, version |-> z.version,
                 epoch |-> z.epoch, from |-> z.from, to |-> z.to]
<1>2. /\ y \in CallState /\ y.op = op /\ y.q = q /\ y.version = z.version
      /\ y.epoch = z.epoch
  BY DEF CallState, HeldOps, RequestState
<1>3. Start(c, y) BY <1>1 DEF About
<1>4. z.version <= z.version BY DEF RequestState
<1> HIDE DEF y
<1> QED BY <1>1, <1>2, <1>3, <1>4, Parts, StartedCall

LEMMA SendKeeps ==
  ASSUME IInv, NEW c \in Calls, NEW p \in Staff, NEW q \in Request,
         NEW op \in HeldOps, Send(c, op, p, q) \/ SendFromPage(c, op, p, q)
  PROVE  IInv'
<1>1. /\ requests[q] # Nil /\ UNCHANGED requests /\ UNCHANGED requestFrame
      /\ Spend("desk") /\ Start(c, About(op, p, q, requests[q].version))
  BY DEF Send, SendFromPage
<1>2. RequestTypes' /\ RequestsMove BY <1>1, Parts, SameRequests
<1>3. CallTypes' /\ CallsKept BY <1>1, AboutStarts
<1>4. LeftTypes' BY <1>1, Parts, SpendTypes DEF Kinds
<1> QED BY <1>1, <1>2, <1>3, <1>4, RequestStep

\* A call that goes on as another command about the same claim.
LEMMA ContinuedCall ==
  ASSUME IInv, NEW c \in Calls, NEW op \in HeldOps, Doing(c, op),
         UNCHANGED requests, call' = [call EXCEPT ![c].op = "release"]
  PROVE  CallTypes' /\ CallsKept
<1>1. PICK z \in [op : HeldOps, who : Staff, q : Request, version : Nat,
                  epoch : Nat, from : RowState, to : Prices] : call[c] = z
  <2>1. call[c] # Nil /\ call[c].op \in HeldOps BY DEF Doing
  <2> QED BY <2>1, Parts, CallsByOp
<1> DEFINE y == [z EXCEPT !.op = "release"]
<1>2. /\ y \in [op : HeldOps, who : Staff, q : Request, version : Nat,
                epoch : Nat, from : RowState, to : Prices]
      /\ y.q = z.q /\ y.version = z.version /\ y.epoch = z.epoch
  BY DEF HeldOps
<1>3. y \in CallState BY <1>2 DEF CallState
<1>4. call' = [call EXCEPT ![c] = y] BY <1>1, Parts DEF CallTypes
<1> HIDE DEF y
<1>5. /\ call' \in [Calls -> CallState \cup {Nil}] /\ call'[c] = y
      /\ \A d \in Calls \ {c} : call'[d] = call[d]
  BY <1>3, <1>4, Parts DEF CallTypes
<1>6. Known(call[c]) BY CallAbout
<1>7. CallKept(c)
  BY <1>1, <1>2, <1>5, <1>6 DEF CallKept, Known
<1> QED BY <1>5, <1>7 DEF CallTypes, CallsKept, CallKept

LEMMA RefreshKeeps ==
  ASSUME IInv, NEW c \in Calls, Refresh(c)
  PROVE  IInv'
<1>1. PICK op \in HeldOps : Doing(c, op) BY DEF Refresh, HeldOps
<1>2. UNCHANGED requestFrame /\ UNCHANGED left BY DEF Refresh
<1>3. LeftTypes' BY <1>2, Parts, SameLeft
<1> DEFINE x == call[c]
           taken == Owns(x.q, x.who, x.version) /\ Refreshable(x.q)
<1>4. CASE taken
  <2>1. PICK q \in Request : q = call[c].q BY <1>1, CallAbout
  <2>2. PICK z \in RequestState : requests[q] = z /\ requests[q] # Nil
    BY <1>1, <2>1, CallAbout
  <2>3. PICK w \in RowState : rows[z.row] = w
    BY <1>4, <2>1, <2>2, Parts, ActiveIsRow DEF Refreshable, RequestState
  <2>4. PICK t \in Prices : t = PriceOf(z.decision)
    BY Parts, PriceOfType DEF RequestState
  <2> DEFINE y == [z EXCEPT !.from = w, !.to = t]
  <2>5. /\ y \in RequestState /\ y.row = z.row /\ y.owner = z.owner
        /\ y.status = z.status /\ y.version = z.version /\ y.epoch = z.epoch
    BY DEF RequestState
  <2>6. requests' = [requests EXCEPT ![q] = y]
    BY <1>4, <2>1, <2>2, <2>3, <2>4, Parts DEF Refresh, RequestTypes, RequestState
  <2> HIDE DEF y
  <2>7. /\ z.status = "in_progress"
        /\ (z.owner # Nil) = (z.status = "in_progress")
    BY <1>4, <2>1, <2>2, Parts DEF Owns, RequestTypes, Used
  <2>8. z.version <= z.version BY DEF RequestState
  <2>9. RequestTypes' /\ RequestsMove
    BY <2>2, <2>5, <2>6, <2>7, <2>8, Parts, RequestWritten DEF IsActive
  <2>10. End(c) BY <1>4 DEF Refresh
  <2> QED BY <1>2, <1>3, <2>9, <2>10, Parts, EndedCall, RequestStep
<1>5. CASE ~taken
  <2>1. UNCHANGED requests BY <1>5 DEF Refresh
  <2>2. \/ End(c) \/ call' = [call EXCEPT ![c].op = "release"]
    BY <1>5 DEF Refresh
  <2>3. CallTypes' /\ CallsKept
    BY <1>1, <2>1, <2>2, Parts, EndedCall, ContinuedCall
  <2>4. RequestTypes' /\ RequestsMove BY <2>1, Parts, SameRequests
  <2> QED BY <1>2, <1>3, <2>3, <2>4, RequestStep
<1> QED BY <1>4, <1>5

LEMMA ReleaseKeeps ==
  ASSUME IInv, NEW c \in Calls, Release(c) \/ ForceRelease(c)
  PROVE  IInv'
<1>1. PICK op \in HeldOps : Doing(c, op) BY DEF Release, ForceRelease, HeldOps
<1>2. UNCHANGED requestFrame /\ UNCHANGED left /\ End(c)
  BY DEF Release, ForceRelease
<1>3. PICK q \in Request : q = call[c].q /\ requests[q] # Nil
  BY <1>1, CallAbout
<1>4. \/ UNCHANGED requests
      \/ requests[q].status = "in_progress" /\ requests' = Ended(q, "pending")
  BY <1>3 DEF Release, ForceRelease, Owns, Forcible
<1>5. RequestTypes' /\ RequestsMove
  BY <1>3, <1>4, Parts, SameRequests, EndedRequest
<1> QED BY <1>2, <1>5, Parts, EndedCall, SameLeft, RequestStep

\* A request that gets another status without a new version.
LEMMA Restated ==
  ASSUME RequestTypes, NEW q \in Request, requests[q] # Nil,
         NEW status \in {"pending", "rejected"},
         requests[q].status # "in_progress",
         status = "pending" => ActiveRequests(requests[q].row) = {},
         requests' = [requests EXCEPT ![q].status = status]
  PROVE  RequestTypes' /\ RequestsMove
<1>1. PICK z \in RequestState : requests[q] = z BY RequestType
<1>2. PICK o \in Staff \cup {Nil}, v \in Nat, e \in Nat :
        o = z.owner /\ v = z.version /\ e = z.epoch
  BY DEF RequestState
<1> DEFINE x == Revised(z, status, o, v, e)
<1>3. /\ x \in RequestState /\ x.row = z.row /\ x.status = status
      /\ x.owner = z.owner /\ x.version = z.version
  <2>1. status \in {"pending", "in_progress", "rejected", "completed"}
    OBVIOUS
  <2> QED BY <1>2, <2>1, RequestRevised
<1>4. requests' = [requests EXCEPT ![q] = x]
  BY <1>1, <1>2 DEF RequestTypes, RequestState, Revised
<1> HIDE DEF x
<1>5. /\ (x.owner # Nil) = (x.status = "in_progress")
      /\ requests[q].version <= x.version /\ x.status # "in_progress"
  <2>1. z.owner = Nil BY <1>1 DEF RequestTypes, Used
  <2> QED BY <1>1, <1>3, <2>1 DEF RequestState
<1>6. IsActive(x) => ActiveRequests(requests[q].row) = {}
  BY <1>3 DEF IsActive
<1> QED BY <1>1, <1>3, <1>4, <1>5, <1>6, RequestWritten

LEMMA RejectKeeps ==
  ASSUME IInv, NEW c \in Calls, Reject(c)
  PROVE  IInv'
<1>1. Doing(c, "reject") /\ "reject" \in HeldOps BY DEF Reject, HeldOps
<1>2. UNCHANGED requestFrame /\ UNCHANGED left /\ End(c) BY DEF Reject
<1>3. PICK q \in Request : q = call[c].q /\ requests[q] # Nil
  BY <1>1, CallAbout
<1>4. \/ UNCHANGED requests
      \/ /\ requests[q].status = "pending"
         /\ requests' = [requests EXCEPT ![q].status = "rejected"]
      \/ requests[q].status = "in_progress" /\ requests' = Ended(q, "rejected")
  BY <1>3 DEF Reject, Owns
<1>5. RequestTypes' /\ RequestsMove
  BY <1>3, <1>4, Parts, SameRequests, EndedRequest, Restated
<1> QED BY <1>2, <1>5, Parts, EndedCall, SameLeft, RequestStep

LEMMA ReopenKeeps ==
  ASSUME IInv, NEW q \in Request, Reopen(q)
  PROVE  IInv'
<1>1. /\ UNCHANGED requestFrame /\ UNCHANGED call /\ Spend("desk")
      /\ requests[q] # Nil /\ requests[q].status # "in_progress"
      /\ ActiveRequests(requests[q].row) = {}
      /\ requests' = [requests EXCEPT ![q].status = "pending"]
  BY DEF Reopen
<1>2. RequestTypes' /\ RequestsMove BY <1>1, Parts, Restated
<1>3. LeftTypes' BY <1>1, Parts, SpendTypes DEF Kinds
<1> QED BY <1>1, <1>2, <1>3, Parts, SameCalls, RequestStep

\* A step that writes prices and leaves exports, batches and the matrix.
LEMMA PriceStep ==
  ASSUME IInv, PriceTypes', Stream', RowsKept, UNCHANGED exportVars,
         UNCHANGED batchVars, UNCHANGED basis, RequestTypes', RequestsMove,
         CallTypes', CallsKept, LeftTypes'
  PROVE  IInv'
BY Parts, SameBatches, SameExports, SameBasis, Composed

LEMMA CompleteKeeps ==
  ASSUME IInv, NEW c \in Calls, Complete(c)
  PROVE  IInv'
<1>1. Doing(c, "complete") /\ "complete" \in HeldOps BY DEF Complete, HeldOps
<1>2. /\ UNCHANGED exportVars /\ UNCHANGED batchVars /\ UNCHANGED basis
      /\ UNCHANGED left /\ UNCHANGED snapshots
  BY DEF Complete, exportVars
<1>3. PICK q \in Request :
        q = call[c].q /\ requests[q] # Nil /\ requests[q] \in RequestState
  BY <1>1, CallAbout
<1>4. PICK p \in Prices : p = call[c].to BY <1>1, CallAbout
<1>5. PICK r \in Row : r = requests[q].row BY <1>3 DEF RequestState
<1>6. LeftTypes' BY <1>2, Parts, SameLeft
<1>7. CASE Completable(c)
  <2>1. /\ Active(r) /\ requests[q].status = "in_progress"
        /\ requests' = Ended(q, "completed")
        /\ Repriced(r, p) \/ Recounted(r, p)
    BY <1>3, <1>4, <1>5, <1>7 DEF Completable, Current, Owns, Complete
  <2>2. RequestTypes' /\ RequestsMove BY <1>3, <2>1, Parts, EndedRequest
  <2>3. PriceTypes' /\ Stream' /\ RowsKept
    BY <1>2, <2>1, Parts, RepricedPrices, RecountedPrices
  <2>4. CallTypes' /\ CallsKept
    <3>1. CASE End(c) BY <3>1, Parts, EndedCall
    <3>2. CASE call' = [call EXCEPT ![c] = [op |-> "sync"]]
      BY <3>2, Parts DEF CallTypes, CallState, HeldOps, CallsKept, CallKept
    <3> QED BY <1>7, <3>1, <3>2 DEF Complete
  <2> QED BY <1>2, <1>6, <2>2, <2>3, <2>4, PriceStep
<1>8. CASE ~Completable(c)
  <2>1. UNCHANGED requests /\ UNCHANGED priceVars /\ End(c)
    BY <1>8 DEF Complete
  <2> QED BY <1>2, <1>6, <2>1, Parts, SameRequests, SamePrices, EndedCall, PriceStep
<1> QED BY <1>7, <1>8

\* A direct change writes one active row that nobody requested to change.
LEMMA DirectWrites ==
  ASSUME IInv, NEW c \in Calls, Direct(c)
  PROVE  \/ UNCHANGED priceVars
         \/ \E r \in Row, p \in Prices :
              /\ Active(r) /\ ActiveRequests(r) = {}
              /\ Repriced(r, p) \/ Recounted(r, p)
<1>1. call[c] # Nil /\ call[c].op \in {"price_change", "recount"}
  BY DEF Direct, Doing
<1>2. PICK r \in Row, p \in Prices, d \in Decisions :
        r = call[c].row /\ p = call[c].to /\ d = call[c].decision
  BY <1>1, Parts, CallsByOp
<1>3. PriceOf(d) \in Prices BY Parts, PriceOfType
<1> QED BY <1>2, <1>3 DEF Direct, StillRecountable, Current

LEMMA DirectKeeps ==
  ASSUME IInv, NEW c \in Calls, Direct(c)
  PROVE  IInv'
<1>1. End(c) BY DEF Direct
<1>2. /\ UNCHANGED exportVars /\ UNCHANGED batchVars /\ UNCHANGED basis
      /\ UNCHANGED left /\ UNCHANGED requests /\ UNCHANGED snapshots
  BY DEF Direct, exportVars
<1>3. PriceTypes' /\ Stream' /\ RowsKept
  BY <1>2, Parts, DirectWrites, RepricedPrices, RecountedPrices, SamePrices
<1> QED BY <1>1, <1>2, <1>3, Parts, SameRequests, EndedCall, SameLeft, PriceStep

LEMMA PreviewKeeps ==
  ASSUME IInv, NEW c \in Calls, NEW type \in {"price_change", "recount"},
         NEW r \in Row, NEW d \in Decisions, Preview(c, type, r, d)
  PROVE  IInv'
<1>1. PICK z \in RowState : rows[r] = z BY Parts, ActiveIsRow DEF Preview
<1>2. PICK t \in Prices : t = PriceOf(d) BY Parts, PriceOfType
<1> DEFINE y == [op |-> type, row |-> r, decision |-> d, from |-> z, to |-> t]
<1>3. y \in CallState /\ y.op \notin HeldOps BY DEF CallState, HeldOps
<1>4. Start(c, y) BY <1>1, <1>2 DEF Preview
<1> HIDE DEF y
<1>5. CallTypes' /\ CallsKept BY <1>3, <1>4, Parts, StartedCall
<1>6. LeftTypes' BY Parts, SpendTypes DEF Preview, Kinds
<1>7. UNCHANGED requestFrame /\ UNCHANGED requests BY DEF Preview
<1> QED BY <1>5, <1>6, <1>7, Parts, SameRequests, RequestStep

LEMMA ArchiveKeeps ==
  ASSUME IInv, NEW r \in Row, ArchiveRow(r)
  PROVE  IInv'
<1>1. PICK z \in RowState : rows[r] = z /\ rows[r] # Nil
  BY Parts, ActiveIsRow DEF ArchiveRow, Active
<1> DEFINE x == [z EXCEPT !.status = "archived"]
<1>2. x \in RowState /\ x.price = z.price BY DEF RowState
<1>3. rows' = [rows EXCEPT ![r] = x] BY <1>1, Parts DEF ArchiveRow, PriceTypes
<1> HIDE DEF x
<1>4. /\ UNCHANGED revisions /\ UNCHANGED carried /\ UNCHANGED exportVars
      /\ UNCHANGED batchVars /\ UNCHANGED basis /\ UNCHANGED requests
      /\ UNCHANGED call /\ UNCHANGED snapshots
  BY DEF ArchiveRow, exportVars
<1>5. /\ rows' \in [Row -> RowState \cup {Nil}] /\ rows'[r] = x /\ x # Nil
      /\ \A s \in Row \ {r} : rows'[s] = rows[s]
  BY <1>2, <1>3, Parts, RowWritten
<1>6. rows[r].price \in carried[r] BY <1>1, Parts DEF Stream, PricesCarried
<1>7. \A s \in Row : \/ rows'[s] = rows[s] /\ carried'[s] = carried[s]
                     \/ /\ rows[s] # Nil /\ rows'[s] # Nil
                        /\ rows'[s].price \in carried'[s]
                        /\ carried[s] \subseteq carried'[s]
  BY <1>1, <1>2, <1>4, <1>5, <1>6
<1>8. carried' \in [Row -> SUBSET Prices] BY <1>4, Parts DEF PriceTypes
<1>9. PriceTypes' /\ Stream' /\ RowsKept
  BY <1>4, <1>5, <1>7, <1>8, Parts, RewrittenPrices
<1>10. LeftTypes' BY Parts, SpendTypes DEF ArchiveRow, Kinds
<1> QED BY <1>4, <1>9, <1>10, Parts, SameRequests, SameCalls, PriceStep

-----------------------------------------------------------------------------
(* Repricing keeps the invariant.                                          *)

LEMMA PreviewType ==
  ASSUME IInv
  PROVE  /\ PreviewNow.seen = [r \in Row |-> IF Active(r) THEN rows[r] ELSE Nil]
         /\ PreviewNow.basis = basis
         /\ PreviewNow.seen \in PreviewState /\ PreviewNow.basis \in Prices
<1>1. [r \in Row |-> IF Active(r) THEN rows[r] ELSE Nil] \in PreviewState
  BY Parts DEF PriceTypes, PreviewState
<1> QED BY <1>1, Parts DEF PreviewNow, BasisType

LEMMA NewPriceType ==
  ASSUME NEW token \in TokenState
  PROVE  NewPrice(token) \in Prices
BY DEF TokenState, NewPrice, Decisions

\* The rows a preview changes existed when it was taken.
LEMMA ChangedType ==
  ASSUME NEW token \in TokenState
  PROVE  /\ Changed(token) \subseteq Row
         /\ \A r \in Changed(token) : /\ token.seen[r] # Nil
                                      /\ token.seen[r] \in RowState
                                      /\ token.seen[r].price \in Prices
BY DEF TokenState, Changed, PreviewState, RowState

LEMMA WrittenType ==
  ASSUME NEW token \in TokenState, NEW b \in Batch
  PROVE  /\ Written(b, token) \in RowState /\ Written(b, token) # Nil
         /\ Written(b, token).price = NewPrice(token)
<1>1. b \in 0..MaxBatches BY DeskAssumption DEF Batch
<1>2. Written(b, token) \in RowState /\ Written(b, token).price = NewPrice(token)
  BY <1>1, NewPriceType DEF Written, RowState
<1> QED BY <1>2, NilAssumption

LEMMA DraftAppliedType ==
  ASSUME BatchTypes, NEW no, DraftApplied(no)
  PROVE  draft' \in DraftState \cup {Nil}
<1>1. CASE OpenDraft /\ draft.no = no
  <2>1. PICK z \in DraftState : draft = z BY <1>1 DEF BatchTypes, OpenDraft
  <2>2. [z EXCEPT !.status = "applied"] \in DraftState BY DEF DraftState
  <2> QED BY <1>1, <2>1, <2>2 DEF DraftApplied
<1>2. CASE ~(OpenDraft /\ draft.no = no) BY <1>2 DEF DraftApplied, BatchTypes
<1> QED BY <1>1, <1>2

\* A step that touches only batches, the draft and calls.
LEMMA BatchStep ==
  ASSUME IInv, UNCHANGED repriceFrame, UNCHANGED priceVars, BatchTypes',
         CallTypes', CallsKept, LeftTypes'
  PROVE  IInv'
<1>1. UNCHANGED exportVars /\ UNCHANGED basis /\ UNCHANGED requests
  BY DEF repriceFrame
<1>2. UNCHANGED snapshots BY <1>1 DEF exportVars
<1> QED BY <1>1, <1>2, Parts, SamePrices, SameRequests, SameExports, SameBasis,
           Composed

LEMMA BeginRepriceKeeps ==
  ASSUME IInv, NEW c \in Calls, NEW token \in TokenState, NEW used \in BOOLEAN,
         BeginReprice(c, token, used)
  PROVE  IInv'
<1>1. /\ UNCHANGED repriceFrame /\ UNCHANGED priceVars /\ UNCHANGED batchVars
      /\ Spend("reprice")
  BY DEF BeginReprice
<1>2. PICK y \in CallState : Start(c, y) /\ y.op \notin HeldOps
  <2>1. PICK no \in Nat : no = NameOf(used)
    <3>1. CASE used
      <4>1. draft \in DraftState BY <3>1, Parts DEF BeginReprice, OpenDraft, BatchTypes
      <4> QED BY <3>1, <4>1 DEF DraftState, NameOf
    <3>2. CASE ~used BY <3>2 DEF NameOf
    <3> QED BY <3>1, <3>2
  <2>2. [op |-> "applied", used |-> no] \in CallState BY DEF CallState
  <2>3. [op |-> "reprice", token |-> token, used |-> no] \in CallState
    BY DEF CallState
  <2>4. \/ Start(c, [op |-> "applied", used |-> no])
        \/ Start(c, [op |-> "reprice", token |-> token, used |-> no])
    BY <2>1 DEF BeginReprice
  <2> QED BY <2>2, <2>3, <2>4 DEF HeldOps
<1>3. CallTypes' /\ CallsKept BY <1>2, Parts, StartedCall
<1>4. LeftTypes' BY <1>1, Parts, SpendTypes DEF Kinds
<1> QED BY <1>1, <1>3, <1>4, Parts, SameBatches, BatchStep

LEMMA AlreadyAppliedKeeps ==
  ASSUME IInv, NEW c \in Calls, AlreadyApplied(c)
  PROVE  IInv'
<1>1. /\ UNCHANGED repriceFrame /\ UNCHANGED priceVars /\ UNCHANGED batches
      /\ UNCHANGED left /\ End(c) /\ DraftApplied(call[c].used)
  BY DEF AlreadyApplied
<1>2. BatchTypes'
  <2>1. draft' \in DraftState \cup {Nil} BY <1>1, Parts, DraftAppliedType
  <2> QED BY <1>1, <2>1, Parts DEF BatchTypes
<1> QED BY <1>1, <1>2, Parts, EndedCall, SameLeft, BatchStep

LEMMA SyncKeeps ==
  ASSUME IInv, \/ SyncDraft \/ CreateDraft \/ DiscardDraft
               \/ \E choice \in Decisions : SaveDraft(choice)
  PROVE  IInv'
<1>1. /\ UNCHANGED repriceFrame /\ UNCHANGED priceVars /\ UNCHANGED batches
      /\ UNCHANGED call /\ Spend("draft")
  BY DEF SyncDraft, CreateDraft, DiscardDraft, SaveDraft
<1>2. PICK seen \in PreviewState, now \in Prices :
        seen = PreviewNow.seen /\ now = basis
  BY PreviewType
<1>3. draft' \in DraftState
  <2>1. CASE CreateDraft
    <3>1. PICK choice \in Decisions : choice = Matrix BY DEF Decisions
    <3>2. PICK no \in Nat \ {0} : no = IF draft = Nil THEN 1 ELSE draft.no + 1
      BY Parts DEF BatchTypes, DraftState
    <3> DEFINE y == [status |-> "draft", no |-> no, seen |-> seen, basis |-> now,
                     choice |-> choice]
    <3>3. y \in DraftState BY DEF DraftState
    <3>4. draft' = y BY <1>2, <2>1, <3>1, <3>2 DEF CreateDraft
    <3> QED BY <3>3, <3>4
  <2>2. ASSUME OpenDraft, SyncDraft \/ DiscardDraft
                          \/ \E choice \in Decisions : SaveDraft(choice)
        PROVE  draft' \in DraftState
    <3>1. PICK z \in DraftState : draft = z BY <2>2, Parts DEF BatchTypes, OpenDraft
    <3>2. CASE SyncDraft
      <4>1. [z EXCEPT !.seen = seen, !.basis = now] \in DraftState BY DEF DraftState
      <4> QED BY <1>2, <3>1, <3>2, <4>1, PreviewType DEF SyncDraft, Synced
    <3>3. CASE DiscardDraft
      <4>1. [z EXCEPT !.status = "discarded"] \in DraftState BY DEF DraftState
      <4> QED BY <3>1, <3>3, <4>1 DEF DiscardDraft
    <3>4. CASE \E choice \in Decisions : SaveDraft(choice)
      <4>1. PICK choice \in Decisions : SaveDraft(choice) BY <3>4
      <4>2. [z EXCEPT !.choice = choice] \in DraftState BY DEF DraftState
      <4> QED BY <3>1, <4>1, <4>2 DEF SaveDraft
    <3> QED BY <2>2, <3>2, <3>3, <3>4
  <2> QED BY <2>1, <2>2 DEF SyncDraft, DiscardDraft, SaveDraft
<1>4. BatchTypes' BY <1>1, <1>3, Parts DEF BatchTypes
<1>5. LeftTypes' BY <1>1, Parts, SpendTypes DEF Kinds
<1> QED BY <1>1, <1>4, <1>5, Parts, SameCalls, BatchStep

LEMMA SyncAfterRecountKeeps ==
  ASSUME IInv, NEW c \in Calls, SyncAfterRecount(c)
  PROVE  IInv'
<1>1. /\ UNCHANGED repriceFrame /\ UNCHANGED priceVars /\ UNCHANGED batches
      /\ UNCHANGED left /\ End(c)
  BY DEF SyncAfterRecount
<1>2. draft' \in DraftState \cup {Nil}
  <2>1. CASE OpenDraft
    <3>1. PICK z \in DraftState : draft = z BY <2>1, Parts DEF BatchTypes, OpenDraft
    <3>2. PICK seen \in PreviewState, now \in Prices :
            seen = PreviewNow.seen /\ now = basis
      BY PreviewType
    <3>3. [z EXCEPT !.seen = seen, !.basis = now] \in DraftState BY DEF DraftState
    <3> QED BY <2>1, <3>1, <3>2, <3>3 DEF SyncAfterRecount, Synced
  <2>2. CASE ~OpenDraft BY <2>2, Parts DEF SyncAfterRecount, BatchTypes
  <2> QED BY <2>1, <2>2
<1>3. BatchTypes' BY <1>1, <1>2, Parts DEF BatchTypes
<1> QED BY <1>1, <1>3, Parts, EndedCall, SameLeft, BatchStep

\* A step that writes prices and batches.
LEMMA BatchPriceStep ==
  ASSUME IInv, UNCHANGED repriceFrame, PriceTypes', Stream', RowsKept,
         BatchTypes', CallTypes', CallsKept, LeftTypes'
  PROVE  IInv'
<1>1. UNCHANGED exportVars /\ UNCHANGED basis /\ UNCHANGED requests
  BY DEF repriceFrame
<1> QED BY <1>1, Parts, SameRequests, SameExports, SameBasis, Composed

LEMMA ApplyBatchKeeps ==
  ASSUME IInv, NEW c \in Calls, ApplyBatch(c)
  PROVE  IInv'
<1>1. /\ UNCHANGED repriceFrame /\ UNCHANGED left /\ UNCHANGED snapshots
  BY DEF ApplyBatch, repriceFrame, exportVars
<1>2. PICK token \in TokenState, no \in Nat :
        token = call[c].token /\ no = call[c].used
  BY Parts, CallsByOp DEF ApplyBatch, Doing
<1>3. CallTypes' /\ CallsKept
  <2>1. [op |-> "conflict", token |-> token, used |-> no] \in CallState
    BY DEF CallState
  <2>2. \/ End(c)
        \/ Becomes(c, [op |-> "conflict", token |-> token, used |-> no])
    BY <1>2 DEF ApplyBatch
  <2> QED BY <2>1, <2>2, Parts, EndedCall, BecameCall DEF HeldOps
<1>4. LeftTypes' BY <1>1, Parts, SameLeft
<1>5. CASE UNCHANGED priceVars /\ UNCHANGED batchVars
  BY <1>1, <1>3, <1>4, <1>5, Parts, SameBatches, BatchStep
<1>6. CASE /\ RowsAsSeen(token) /\ DraftApplied(call[c].used)
           /\ UNCHANGED revisions
           /\ \E b \in Batch :
                /\ batches' = [batches EXCEPT ![b] =
                                 [status |-> "completed", token |-> token]]
                /\ rows' = [r \in Row |-> IF r \in Changed(token)
                                          THEN Written(b, token) ELSE rows[r]]
           /\ carried' = [r \in Row |-> IF r \in Changed(token)
                            THEN carried[r] \cup {NewPrice(token)} ELSE carried[r]]
  <2>1. PICK b \in Batch :
          /\ batches' = [batches EXCEPT ![b] =
                           [status |-> "completed", token |-> token]]
          /\ rows' = [r \in Row |-> IF r \in Changed(token)
                                    THEN Written(b, token) ELSE rows[r]]
    BY <1>6
  <2>2. [status |-> "completed", token |-> token] \in BatchState
    BY DEF BatchState
  <2>3. draft' \in DraftState \cup {Nil} BY <1>6, Parts, DraftAppliedType
  <2>4. BatchTypes' BY <2>1, <2>2, <2>3, Parts DEF BatchTypes
  <2>5. PICK w \in RowState : w = Written(b, token) /\ w # Nil
                              /\ w.price = NewPrice(token)
    BY WrittenType
  <2>6. PICK p \in Prices : p = NewPrice(token) BY NewPriceType
  <2>7. /\ rows' \in [Row -> RowState \cup {Nil}]
        /\ carried' \in [Row -> SUBSET Prices]
    BY <1>6, <2>1, <2>5, <2>6, Parts DEF PriceTypes
  <2>8. \A r \in Changed(token) : rows[r] # Nil
    BY <1>6, ChangedType DEF RowsAsSeen
  <2>9. \A r \in Row : \/ rows'[r] = rows[r] /\ carried'[r] = carried[r]
                       \/ /\ rows[r] # Nil /\ rows'[r] # Nil
                          /\ rows'[r].price \in carried'[r]
                          /\ carried[r] \subseteq carried'[r]
    BY <1>6, <2>1, <2>5, <2>6, <2>8
  <2>10. PriceTypes' /\ Stream' /\ RowsKept
    BY <1>1, <1>6, <2>7, <2>9, Parts, RewrittenPrices
  <2> QED BY <1>1, <1>3, <1>4, <2>4, <2>10, BatchPriceStep
<1> QED BY <1>2, <1>5, <1>6 DEF ApplyBatch, batchVars

LEMMA ReadConflictKeeps ==
  ASSUME IInv, NEW c \in Calls, ReadConflict(c)
  PROVE  IInv'
<1>1. /\ UNCHANGED repriceFrame /\ UNCHANGED priceVars /\ UNCHANGED batchVars
      /\ UNCHANGED left
  BY DEF ReadConflict
<1>2. PICK no \in Nat : no = call[c].used
  BY Parts, CallsByOp DEF ReadConflict, Doing
<1>3. [op |-> "applied", used |-> no] \in CallState BY DEF CallState
<1>4. End(c) \/ Becomes(c, [op |-> "applied", used |-> no])
  BY <1>2 DEF ReadConflict
<1>5. CallTypes' /\ CallsKept
  BY <1>3, <1>4, Parts, EndedCall, BecameCall DEF HeldOps
<1> QED BY <1>1, <1>5, Parts, SameLeft, SameBatches, BatchStep

LEMMA RollbackKeeps ==
  ASSUME IInv, NEW b \in Batch, Rollback(b)
  PROVE  IInv'
<1>1. /\ UNCHANGED repriceFrame /\ UNCHANGED revisions /\ UNCHANGED draft
      /\ UNCHANGED call /\ UNCHANGED snapshots /\ Spend("undo")
      /\ batches[b] # Nil
  BY DEF Rollback, repriceFrame, exportVars
<1>2. PICK z \in BatchState : batches[b] = z BY <1>1, Parts DEF BatchTypes
<1>3. PICK token \in TokenState : token = z.token BY DEF BatchState
<1>4. BatchTypes'
  <2>1. [z EXCEPT !.status = "rolled_back"] \in BatchState BY DEF BatchState
  <2>2. batches' = [batches EXCEPT ![b] = [z EXCEPT !.status = "rolled_back"]]
    BY <1>2, Parts DEF Rollback, BatchTypes
  <2> QED BY <1>1, <2>1, <2>2, Parts DEF BatchTypes
<1>5. /\ \A r \in Changed(token) : rows[r] = Written(b, token)
      /\ rows' = [r \in Row |-> IF r \in Changed(token)
                                THEN token.seen[r] ELSE rows[r]]
      /\ carried' = [r \in Row |-> IF r \in Changed(token)
                       THEN carried[r] \cup {token.seen[r].price} ELSE carried[r]]
  BY <1>2, <1>3 DEF Rollback, StillMatches
<1>6. \A r \in Changed(token) : /\ rows[r] # Nil /\ token.seen[r] # Nil
                                /\ token.seen[r] \in RowState
                                /\ token.seen[r].price \in Prices
  BY <1>5, WrittenType, ChangedType
<1>7. /\ rows' \in [Row -> RowState \cup {Nil}]
      /\ carried' \in [Row -> SUBSET Prices]
  BY <1>5, <1>6, Parts DEF PriceTypes
<1>8. \A r \in Row : \/ rows'[r] = rows[r] /\ carried'[r] = carried[r]
                     \/ /\ rows[r] # Nil /\ rows'[r] # Nil
                        /\ rows'[r].price \in carried'[r]
                        /\ carried[r] \subseteq carried'[r]
  BY <1>5, <1>6
<1>9. PriceTypes' /\ Stream' /\ RowsKept
  BY <1>1, <1>7, <1>8, Parts, RewrittenPrices
<1>10. LeftTypes' BY <1>1, Parts, SpendTypes DEF Kinds
<1> QED BY <1>1, <1>4, <1>9, <1>10, Parts, SameCalls, BatchPriceStep

-----------------------------------------------------------------------------
(* Exports keep the invariant.                                             *)

\* What a snapshot captures of rows that are active and have a revision.
LEMMA CapturedType ==
  ASSUME IInv, NEW S \in SUBSET Row,
         \A r \in S : Active(r) /\ revisions[r].rev > 0
  PROVE  /\ Captured(S) \in [Row -> [rev : Nat, price : Prices] \cup {Nil}]
         /\ \A r \in Row : Captured(S)[r] # Nil =>
              /\ r \in S
              /\ Captured(S)[r].rev = revisions[r].rev
              /\ Captured(S)[r].rev > 0
              /\ Captured(S)[r].price \in carried[r]
<1>1. \A r \in S : rows[r] \in RowState /\ rows[r].price \in Prices
  BY Parts, ActiveIsRow DEF RowState
<1>2. \A r \in S : rows[r].price \in carried[r]
  BY Parts DEF Stream, PricesCarried, Active
<1>3. \A r \in Row : revisions[r].rev \in Nat BY Parts DEF PriceTypes
<1> QED BY <1>1, <1>2, <1>3 DEF Captured

\* A snapshot is added; revisions stay, though rows may become exposed.
LEMMA SnapshotAdded ==
  ASSUME IInv, NEW s \in Snapshot, snapshots[s] = Nil, NEW x \in SnapshotState,
         snapshots' = [snapshots EXCEPT ![s] = x],
         UNCHANGED <<rows, carried>>,
         revisions' \in [Row -> [rev : Nat, confirmed : Nat, exposed : BOOLEAN]],
         \A r \in Row : /\ revisions'[r].rev = revisions[r].rev
                        /\ revisions'[r].confirmed = revisions[r].confirmed,
         \A r \in Row : x.items[r] # Nil =>
           /\ x.items[r].rev = revisions[r].rev /\ x.items[r].rev > 0
           /\ x.items[r].price \in carried[r]
  PROVE  /\ snapshots' \in [Snapshot -> SnapshotState \cup {Nil}]
         /\ Used(snapshots') = Used(snapshots) \cup {s}
         /\ snapshots'[s] = x
         /\ \A t \in Used(snapshots) : snapshots'[t] = snapshots[t]
         /\ PriceTypes' /\ Stream' /\ RowsKept
<1>1. /\ snapshots' \in [Snapshot -> SnapshotState \cup {Nil}]
      /\ Used(snapshots') = Used(snapshots) \cup {s}
      /\ snapshots'[s] = x
      /\ \A t \in Used(snapshots) : snapshots'[t] = snapshots[t]
  BY Parts, NilAssumption DEF ExportTypes, Used
<1>2. \A r \in Row : revisions[r].rev \in Nat BY Parts DEF PriceTypes
<1>3. PriceTypes' BY Parts DEF PriceTypes
<1>4. PricesCarried' BY Parts DEF Stream, PricesCarried
<1>5. ItemsCarried'
  <2> SUFFICES ASSUME NEW t \in Used(snapshots'), NEW r \in Row,
                      snapshots'[t].items[r] # Nil
               PROVE  LET item == snapshots'[t].items[r]
                      IN  /\ 0 < item.rev /\ item.rev <= revisions[r].rev
                          /\ item.rev = revisions[r].rev
                               => item.price \in carried[r]
    BY DEF ItemsCarried
  <2>1. CASE t = s BY <1>1, <1>2, <2>1
  <2>2. CASE t \in Used(snapshots)
    BY <1>1, <2>2, Parts DEF Stream, ItemsCarried
  <2> QED BY <1>1, <2>1, <2>2
<1>6. ConfirmedHeld'
  <2> SUFFICES ASSUME NEW r \in Row, revisions'[r].confirmed > 0
               PROVE  \E t \in Used(snapshots') :
                        /\ snapshots'[t].status = "confirmed"
                        /\ snapshots'[t].items[r] # Nil
                        /\ snapshots'[t].items[r].rev = revisions'[r].confirmed
    BY DEF ConfirmedHeld
  <2>1. revisions'[r].confirmed = revisions[r].confirmed OBVIOUS
  <2>2. PICK t \in Used(snapshots) :
          /\ snapshots[t].status = "confirmed" /\ snapshots[t].items[r] # Nil
          /\ snapshots[t].items[r].rev = revisions[r].confirmed
    BY <2>1, Parts DEF Stream, ConfirmedHeld
  <2> QED BY <1>1, <2>1, <2>2
<1>7. RowsKept BY DEF RowsKept
<1> QED BY <1>1, <1>3, <1>4, <1>5, <1>6, <1>7 DEF Stream

\* A step that touches only revisions, snapshots, answers and calls.
LEMMA ExportStep ==
  ASSUME IInv, UNCHANGED <<batchVars, basis, requests>>, PriceTypes', Stream',
         RowsKept, ExportTypes', KeysKnown', CallTypes', CallsKept, LeftTypes'
  PROVE  IInv'
BY Parts, SameRequests, SameBatches, SameBasis, Composed

LEMMA AnsweredType ==
  ASSUME IInv, NEW k \in Keys, Answer(k, Named(k)), UNCHANGED snapshots
  PROVE  ExportTypes' /\ KeysKnown'
<1>1. Named(k) \subseteq Snapshot BY Parts DEF Named, Used, ExportTypes
<1>2. /\ answers' \in [Keys -> SUBSET Snapshot]
      /\ answers'[k] = answers[k] \cup Named(k)
      /\ \A j \in Keys \ {k} : answers'[j] = answers[j]
  BY <1>1, Parts DEF Answer, ExportTypes
<1>3. \A j \in Keys : Named(j)' = Named(j) BY DEF Named, Used
<1> QED BY <1>2, <1>3, Parts DEF ExportTypes, KeysKnown

LEMMA BeginExportKeeps ==
  ASSUME IInv, NEW c \in Calls, NEW k \in Keys, BeginExport(c, k)
  PROVE  IInv'
<1>1. /\ UNCHANGED <<batchVars, basis, requests>> /\ UNCHANGED priceVars
      /\ UNCHANGED snapshots /\ Spend("export")
  BY DEF BeginExport, exportFrame, priceVars
<1>2. PriceTypes' /\ Stream' /\ RowsKept BY <1>1, Parts, SamePrices
<1>3. LeftTypes' BY <1>1, Parts, SpendTypes DEF Kinds
<1>4. CASE Answer(k, Named(k)) /\ UNCHANGED call
  BY <1>1, <1>2, <1>3, <1>4, Parts, AnsweredType, SameCalls, ExportStep
<1>5. CASE UNCHANGED answers
           /\ Start(c, [op |-> "export", key |-> k,
                        candidates |-> {r \in Row : PendingPrice(r)}])
  <2>1. PICK S \in SUBSET Row : S = {r \in Row : PendingPrice(r)} OBVIOUS
  <2> DEFINE y == [op |-> "export", key |-> k, candidates |-> S]
  <2>2. y \in CallState /\ y.op \notin HeldOps BY DEF CallState, HeldOps
  <2>3. Start(c, y) BY <1>5, <2>1
  <2> HIDE DEF y
  <2>4. CallTypes' /\ CallsKept BY <2>2, <2>3, Parts, StartedCall
  <2>5. UNCHANGED exportVars BY <1>1, <1>5 DEF exportVars
  <2> QED BY <1>1, <1>2, <1>3, <2>4, <2>5, Parts, SameExports, ExportStep
<1> QED BY <1>4, <1>5 DEF BeginExport

LEMMA CaptureExportKeeps ==
  ASSUME IInv, NEW c \in Calls, CaptureExport(c)
  PROVE  IInv'
<1>1. /\ UNCHANGED <<batchVars, basis, requests>> /\ UNCHANGED priceVars
      /\ UNCHANGED left /\ End(c)
  BY DEF CaptureExport, exportFrame, priceVars
<1>2. PICK k \in Keys, T \in SUBSET Row :
        k = call[c].key /\ T = call[c].candidates
  BY Parts, CallsByOp DEF CaptureExport, Doing
<1>3. PICK S \in SUBSET Row : S = Relocked(T) BY DEF Relocked
<1>4. CallTypes' /\ CallsKept /\ LeftTypes' BY <1>1, Parts, EndedCall, SameLeft
<1>5. CASE UNCHANGED exportVars
  <2>1. UNCHANGED snapshots BY <1>5 DEF exportVars
  <2> QED BY <1>1, <1>4, <1>5, <2>1, Parts, SamePrices, SameExports, ExportStep
<1>6. CASE Answer(k, Named(k)) /\ UNCHANGED snapshots
  BY <1>1, <1>4, <1>6, Parts, SamePrices, AnsweredType, ExportStep
<1>7. CASE /\ Named(k) = {}
           /\ \E s \in Snapshot :
                /\ IsNew(snapshots, s)
                /\ snapshots' = [snapshots EXCEPT ![s] =
                     [key |-> k, items |-> Captured(S), status |-> "generated"]]
                /\ Answer(k, {s})
  <2>1. PICK s \in Snapshot :
          /\ snapshots[s] = Nil
          /\ snapshots' = [snapshots EXCEPT ![s] =
               [key |-> k, items |-> Captured(S), status |-> "generated"]]
          /\ Answer(k, {s})
    BY <1>7 DEF IsNew
  <2>2. \A r \in S : Active(r) /\ revisions[r].rev > 0
    BY <1>3, Parts DEF Relocked, PendingPrice, PriceTypes
  <2>3. PICK items \in [Row -> [rev : Nat, price : Prices] \cup {Nil}] :
          items = Captured(S)
    BY <2>2, CapturedType
  <2> DEFINE x == [key |-> k, items |-> items, status |-> "generated"]
  <2>4. /\ x \in SnapshotState /\ x.key = k /\ x.items = items
        /\ snapshots' = [snapshots EXCEPT ![s] = x]
    BY <2>1, <2>3 DEF SnapshotState
  <2> HIDE DEF x
  <2>5. \A r \in Row : x.items[r] # Nil =>
          /\ x.items[r].rev = revisions[r].rev /\ x.items[r].rev > 0
          /\ x.items[r].price \in carried[r]
    BY <2>2, <2>3, <2>4, CapturedType
  <2>6. /\ UNCHANGED <<rows, carried>> /\ UNCHANGED revisions
        /\ revisions' \in [Row -> [rev : Nat, confirmed : Nat, exposed : BOOLEAN]]
    BY <1>1, Parts DEF priceVars, PriceTypes
  <2>7. /\ snapshots' \in [Snapshot -> SnapshotState \cup {Nil}]
        /\ Used(snapshots') = Used(snapshots) \cup {s}
        /\ snapshots'[s] = x
        /\ \A t \in Used(snapshots) : snapshots'[t] = snapshots[t]
        /\ PriceTypes' /\ Stream' /\ RowsKept
    BY <2>1, <2>4, <2>5, <2>6, SnapshotAdded
  <2>8. /\ answers' \in [Keys -> SUBSET Snapshot]
        /\ answers'[k] = answers[k] \cup {s}
        /\ \A j \in Keys \ {k} : answers'[j] = answers[j]
    BY <2>1, Parts DEF Answer, ExportTypes
  <2>9. \A j \in Keys : Named(j)' = IF j = k THEN {s} ELSE Named(j)
    <3>1. s \notin Used(snapshots) BY <2>1 DEF Used
    <3>2. \A j \in Keys : Named(j)' =
            {t \in Used(snapshots) \cup {s} : snapshots'[t].key = j}
      BY <2>7 DEF Named
    <3>3. ASSUME NEW j \in Keys, j # k PROVE Named(j)' = Named(j)
      BY <2>4, <2>7, <3>2, <3>3 DEF Named
    <3>4. Named(k)' = {s}
      <4>1. \A t \in Used(snapshots) : snapshots[t].key # k BY <1>7 DEF Named
      <4> QED BY <2>4, <2>7, <3>2, <4>1
    <3> QED BY <3>3, <3>4
  <2>10. ExportTypes' /\ KeysKnown'
    BY <1>7, <2>7, <2>8, <2>9, Parts DEF ExportTypes, KeysKnown
  <2> QED BY <1>1, <1>4, <2>7, <2>10, ExportStep
<1> QED BY <1>2, <1>3, <1>5, <1>6, <1>7 DEF CaptureExport

LEMMA FullSnapshotKeeps ==
  ASSUME IInv, FullSnapshot
  PROVE  IInv'
<1> DEFINE A == {r \in Row : Active(r)}
           S == {r \in A : ~revisions[r].exposed /\ revisions[r].rev > 0}
<1>1. /\ UNCHANGED <<batchVars, basis, requests>> /\ UNCHANGED <<rows, carried>>
      /\ UNCHANGED answers /\ UNCHANGED call /\ Spend("full")
      /\ revisions' = [r \in Row |-> [revisions[r] EXCEPT !.exposed = @ \/ r \in A]]
  BY DEF FullSnapshot, exportFrame
<1>2. PICK s \in Snapshot :
        /\ snapshots[s] = Nil
        /\ snapshots' = [snapshots EXCEPT ![s] =
             [key |-> Nil, status |-> "generated", items |-> Captured(S)]]
  BY DEF FullSnapshot, IsNew
<1>3. PICK items \in [Row -> [rev : Nat, price : Prices] \cup {Nil}] :
        /\ items = Captured(S)
        /\ \A r \in Row : items[r] # Nil =>
             /\ items[r].rev = revisions[r].rev /\ items[r].rev > 0
             /\ items[r].price \in carried[r]
  <2>1. \A r \in S : Active(r) /\ revisions[r].rev > 0 OBVIOUS
  <2>2. S \in SUBSET Row OBVIOUS
  <2> HIDE DEF S
  <2> QED BY <2>1, <2>2, CapturedType
<1> DEFINE x == [key |-> Nil, status |-> "generated", items |-> items]
<1>4. /\ x \in SnapshotState /\ x.key = Nil /\ x.items = items
      /\ snapshots' = [snapshots EXCEPT ![s] = x]
  BY <1>2, <1>3 DEF SnapshotState
<1>5. /\ revisions' \in [Row -> [rev : Nat, confirmed : Nat, exposed : BOOLEAN]]
      /\ \A r \in Row : /\ revisions'[r].rev = revisions[r].rev
                        /\ revisions'[r].confirmed = revisions[r].confirmed
  BY <1>1, Parts DEF PriceTypes
<1> HIDE DEF x, S, A
<1>6. \A r \in Row : x.items[r] # Nil =>
         /\ x.items[r].rev = revisions[r].rev /\ x.items[r].rev > 0
         /\ x.items[r].price \in carried[r]
  BY <1>3, <1>4
<1>7. /\ snapshots' \in [Snapshot -> SnapshotState \cup {Nil}]
      /\ Used(snapshots') = Used(snapshots) \cup {s}
      /\ snapshots'[s] = x
      /\ \A t \in Used(snapshots) : snapshots'[t] = snapshots[t]
      /\ PriceTypes' /\ Stream' /\ RowsKept
  BY <1>1, <1>2, <1>4, <1>5, <1>6, SnapshotAdded
<1>8. ExportTypes' BY <1>1, <1>7, Parts DEF ExportTypes
<1>9. KeysKnown'
  <2>1. \A k \in Keys : Named(k)' = Named(k)
    BY <1>2, <1>4, <1>7, DeskAssumption DEF Named, Used
  <2> QED BY <1>1, <2>1, Parts DEF KeysKnown
<1>10. LeftTypes' BY <1>1, Parts, SpendTypes DEF Kinds
<1> QED BY <1>1, <1>7, <1>8, <1>9, <1>10, Parts, SameCalls, ExportStep

LEMMA ConfirmKeeps ==
  ASSUME IInv, NEW s \in Snapshot, Confirm(s)
  PROVE  IInv'
<1>1. /\ UNCHANGED <<batchVars, basis, requests>> /\ UNCHANGED <<rows, carried>>
      /\ UNCHANGED answers /\ UNCHANGED call /\ Spend("confirm")
      /\ snapshots[s] # Nil
  BY DEF Confirm, exportFrame
<1>2. PICK z \in SnapshotState : snapshots[s] = z BY <1>1, Parts DEF ExportTypes
<1> DEFINE x == [z EXCEPT !.status = "confirmed"]
<1>3. /\ x \in SnapshotState /\ x.key = z.key /\ x.items = z.items
      /\ x.status = "confirmed"
  BY DEF SnapshotState
<1>4. snapshots' = [snapshots EXCEPT ![s] = x]
  BY <1>2, Parts DEF Confirm, ExportTypes
<1>5. x # Nil BY <1>3, NilAssumption
<1> HIDE DEF x
<1>6. /\ snapshots' \in [Snapshot -> SnapshotState \cup {Nil}]
      /\ Used(snapshots') = Used(snapshots)
      /\ snapshots'[s] = x
      /\ \A t \in Used(snapshots) : /\ snapshots'[t].key = snapshots[t].key
                                    /\ snapshots'[t].items = snapshots[t].items
                                    /\ t # s => snapshots'[t] = snapshots[t]
  BY <1>1, <1>2, <1>3, <1>4, <1>5, Parts DEF ExportTypes, Used
<1>7. ASSUME NEW r \in Row
      PROVE  /\ revisions'[r] \in [rev : Nat, confirmed : Nat, exposed : BOOLEAN]
             /\ revisions'[r].rev = revisions[r].rev
             /\ revisions'[r].confirmed <= revisions'[r].rev
             /\ \/ revisions'[r].confirmed = revisions[r].confirmed
                \/ /\ z.items[r] # Nil
                   /\ revisions'[r].confirmed = z.items[r].rev
  <2>1. PICK w \in [rev : Nat, confirmed : Nat, exposed : BOOLEAN] :
          revisions[r] = w /\ w.confirmed <= w.rev
    BY Parts DEF PriceTypes
  <2>2. CASE z.items[r] # Nil /\ z.items[r].rev <= w.rev
    <3>1. z.items[r].rev \in Nat BY <2>2 DEF SnapshotState
    <3>2. PICK n \in Nat :
            /\ n = ConfirmedAs(r, z.items[r]) /\ n <= w.rev
            /\ n = w.confirmed \/ n = z.items[r].rev
      BY <2>1, <2>2, <3>1 DEF ConfirmedAs
    <3>3. revisions'[r] = [w EXCEPT !.confirmed = n]
      BY <1>2, <2>1, <2>2, <3>2 DEF Confirm
    <3> QED BY <2>1, <2>2, <3>2, <3>3
  <2>3. CASE ~(z.items[r] # Nil /\ z.items[r].rev <= w.rev)
    <3>1. revisions'[r] = w BY <1>2, <2>1, <2>3 DEF Confirm
    <3> QED BY <2>1, <3>1
  <2> QED BY <2>2, <2>3
<1>8. PriceTypes'
  <2>1. revisions' = [r \in Row |-> revisions'[r]] BY DEF Confirm
  <2> QED BY <1>1, <1>7, <2>1, Parts DEF PriceTypes
<1>9. PricesCarried' BY <1>1, <1>7, Parts DEF Stream, PricesCarried
<1>10. ItemsCarried' BY <1>1, <1>6, <1>7, Parts DEF Stream, ItemsCarried
<1>11. ConfirmedHeld'
  <2> SUFFICES ASSUME NEW r \in Row, revisions'[r].confirmed > 0
               PROVE  \E t \in Used(snapshots') :
                        /\ snapshots'[t].status = "confirmed"
                        /\ snapshots'[t].items[r] # Nil
                        /\ snapshots'[t].items[r].rev = revisions'[r].confirmed
    BY DEF ConfirmedHeld
  <2>1. s \in Used(snapshots) BY <1>1, Parts DEF Used, ExportTypes
  <2>2. CASE revisions'[r].confirmed = revisions[r].confirmed
    <3>1. PICK t \in Used(snapshots) :
            /\ snapshots[t].status = "confirmed" /\ snapshots[t].items[r] # Nil
            /\ snapshots[t].items[r].rev = revisions[r].confirmed
      BY <2>2, Parts DEF Stream, ConfirmedHeld
    <3> QED BY <1>3, <1>6, <2>2, <3>1
  <2>3. CASE z.items[r] # Nil /\ revisions'[r].confirmed = z.items[r].rev
    BY <1>2, <1>3, <1>6, <2>1, <2>3
  <2> QED BY <1>7, <2>2, <2>3
<1>12. RowsKept BY <1>1 DEF RowsKept
<1>13. ExportTypes' BY <1>1, <1>6, Parts DEF ExportTypes
<1>14. KeysKnown'
  <2>1. \A k \in Keys : Named(k)' = Named(k) BY <1>6 DEF Named
  <2> QED BY <1>1, <2>1, Parts DEF KeysKnown
<1>15. LeftTypes' BY <1>1, Parts, SpendTypes DEF Kinds
<1> QED BY <1>1, <1>8, <1>9, <1>10, <1>11, <1>12, <1>13, <1>14, <1>15, Parts,
           SameCalls, ExportStep DEF Stream

-----------------------------------------------------------------------------
(* The invariant is inductive.                                             *)

LEMMA DropKeeps ==
  ASSUME IInv, NEW c \in Calls, Drop(c)
  PROVE  IInv'
<1>1. UNCHANGED requestFrame /\ UNCHANGED requests /\ End(c) /\ Spend("drop")
  BY DEF Drop, requestFrame
<1>2. LeftTypes' BY <1>1, Parts, SpendTypes DEF Kinds
<1> QED BY <1>1, <1>2, Parts, SameRequests, EndedCall, RequestStep

LEMMA ChangeBasisKeeps ==
  ASSUME IInv, NEW p \in Prices, ChangeBasis(p)
  PROVE  IInv'
<1>1. /\ UNCHANGED priceVars /\ UNCHANGED exportVars /\ UNCHANGED batchVars
      /\ UNCHANGED requests /\ UNCHANGED call /\ UNCHANGED snapshots
      /\ Spend("basis") /\ basis' = p
  BY DEF ChangeBasis, exportVars
<1>2. LeftTypes' BY <1>1, Parts, SpendTypes DEF Kinds
<1>3. BasisType' BY <1>1 DEF BasisType
<1> QED BY <1>1, <1>2, <1>3, Parts, SamePrices, SameRequests, SameBatches,
           SameExports, SameCalls, Composed

LEMMA InitKeeps ==
  ASSUME DeskInit PROVE IInv
<1>1. 0 \in 0..MaxBatches BY DeskAssumption
<1>2. PriceTypes
  <2>1. \A p \in Prices : [status |-> "active", price |-> p, mark |-> 0] \in RowState
    BY <1>1 DEF RowState
  <2> QED BY <2>1 DEF DeskInit, PriceTypes
<1>3. RequestTypes BY DEF DeskInit, RequestTypes, ActiveRequests, Used
<1>4. BatchTypes BY DEF DeskInit, BatchTypes
<1>5. ExportTypes BY DEF DeskInit, ExportTypes
<1>6. CallTypes /\ BasisType BY DEF DeskInit, CallTypes, BasisType
<1>7. LeftTypes BY DeskAssumption DEF DeskInit, LeftTypes
<1>8. CallsKnown BY DEF DeskInit, CallsKnown
<1>9. RowsKnown BY DEF DeskInit, RowsKnown, Used
<1>10. KeysKnown BY DEF DeskInit, KeysKnown, Named, Used
<1>11. Stream
  BY DEF DeskInit, Stream, PricesCarried, ItemsCarried, ConfirmedHeld, Used
<1> QED BY <1>2, <1>3, <1>4, <1>5, <1>6, <1>7, <1>8, <1>9, <1>10, <1>11
        DEF IInv, Types

LEMMA StutterKeeps ==
  ASSUME IInv, UNCHANGED deskVars PROVE IInv'
<1>1. /\ UNCHANGED requestFrame /\ UNCHANGED requests /\ UNCHANGED call
      /\ UNCHANGED left
  BY DEF deskVars, requestFrame, priceVars, exportVars, batchVars
<1> QED BY <1>1, Parts, SameRequests, SameCalls, SameLeft, RequestStep

LEMMA StepKeeps ==
  ASSUME IInv, [DeskNext]_deskVars PROVE IInv'
<1>1. CASE CorrectionNext
  <2>1. ASSUME NEW r \in Row, NEW type \in {"price_change", "recount"},
               NEW d \in Decisions,
               CreateRequest(r, type, d) \/ \E c \in Calls : Preview(c, type, r, d)
        PROVE  IInv'
    BY <2>1, CreateKeeps, PreviewKeeps
  <2>2. ASSUME NEW q \in Request, Reopen(q) PROVE IInv'
    BY <2>2, ReopenKeeps
  <2>3. ASSUME NEW r \in Row, ArchiveRow(r) PROVE IInv'
    BY <2>3, ArchiveKeeps
  <2>4. ASSUME NEW c \in Calls, NEW p \in Staff, NEW q \in Request,
               \/ Claim(c, p, q)
               \/ \E op \in {"refresh", "complete", "release"} : Send(c, op, p, q)
               \/ \E op \in {"force", "reject"} : SendFromPage(c, op, p, q)
        PROVE  IInv'
    <3>1. {"refresh", "complete", "release"} \subseteq HeldOps
          /\ {"force", "reject"} \subseteq HeldOps
      BY DEF HeldOps
    <3> QED BY <2>4, <3>1, ClaimKeeps, SendKeeps
  <2>5. ASSUME NEW c \in Calls,
               \/ Refresh(c) \/ Release(c) \/ ForceRelease(c) \/ Reject(c)
               \/ Complete(c) \/ Direct(c)
        PROVE  IInv'
    BY <2>5, RefreshKeeps, ReleaseKeeps, RejectKeeps, CompleteKeeps, DirectKeeps
  <2> QED BY <1>1, <2>1, <2>2, <2>3, <2>4, <2>5 DEF CorrectionNext
<1>2. CASE RepricingNext
  <2>1. ASSUME NEW c \in Calls, NEW used \in BOOLEAN, NEW choice \in Decisions,
               BeginReprice(c, Token(PreviewNow, choice), used)
        PROVE  IInv'
    <3>1. PICK seen \in PreviewState, now \in Prices :
            seen = PreviewNow.seen /\ now = PreviewNow.basis
      BY PreviewType
    <3>2. PICK token \in TokenState : token = Token(PreviewNow, choice)
      <4>1. [seen |-> seen, basis |-> now, choice |-> choice] \in TokenState
        BY DEF TokenState
      <4> QED BY <3>1, <4>1 DEF Token
    <3> QED BY <2>1, <3>2, BeginRepriceKeeps
  <2>2. ASSUME NEW c \in Calls, NEW used \in BOOLEAN, NEW b \in Used(batches),
               BeginReprice(c, batches[b].token, used)
        PROVE  IInv'
    <3>1. PICK token \in TokenState : token = batches[b].token
      BY Parts DEF Used, BatchTypes, BatchState
    <3> QED BY <2>2, <3>1, BeginRepriceKeeps
  <2>3. ASSUME NEW c \in Calls,
               \/ AlreadyApplied(c) \/ ApplyBatch(c) \/ ReadConflict(c)
               \/ SyncAfterRecount(c)
        PROVE  IInv'
    BY <2>3, AlreadyAppliedKeeps, ApplyBatchKeeps, ReadConflictKeeps,
       SyncAfterRecountKeeps
  <2>4. ASSUME NEW b \in Batch, Rollback(b) PROVE IInv'
    BY <2>4, RollbackKeeps
  <2> QED BY <1>2, <2>1, <2>2, <2>3, <2>4, SyncKeeps DEF RepricingNext
<1>3. CASE ExportNext
  BY <1>3, BeginExportKeeps, CaptureExportKeeps, FullSnapshotKeeps, ConfirmKeeps
     DEF ExportNext
<1>4. CASE (\E c \in Calls : Drop(c)) \/ (\E p \in Prices : ChangeBasis(p))
  BY <1>4, DropKeeps, ChangeBasisKeeps
<1> QED BY <1>1, <1>2, <1>3, <1>4, StutterKeeps DEF DeskNext

\* The invariant holds in every state the desk reaches.
THEOREM DeskInvariant == DeskSpec => []IInv
<1>1. DeskInit => IInv BY InitKeeps
<1>2. IInv /\ [DeskNext]_deskVars => IInv' BY StepKeeps
<1> QED BY <1>1, <1>2, PTL DEF DeskSpec

\* Every row, request, batch, draft, snapshot and call has its type; a
\* product has at most one active request, a request has an owner exactly
\* while it is in progress, and no revision is confirmed before it exists.
THEOREM DeskTypeCorrect == DeskSpec => []DeskTypeOK
<1>1. IInv => DeskTypeOK BY TypesAreDeskTypes DEF IInv
<1> QED BY <1>1, DeskInvariant, PTL

\* Whatever calls with one idempotency key were answered, they were answered
\* with one snapshot.
THEOREM KeysAreIdempotent == DeskSpec => []KeyNamesOneSnapshot
<1>1. IInv => KeyNamesOneSnapshot BY Parts DEF KeysKnown, KeyNamesOneSnapshot
<1> QED BY <1>1, DeskInvariant, PTL

\* A price revision that counts as confirmed was in a confirmed snapshot,
\* with a price the row had under it.
THEOREM StreamIsComplete == DeskSpec => []ChangeIsNeverLost
<1>1. ASSUME IInv PROVE ChangeIsNeverLost
  <2> SUFFICES ASSUME NEW r \in Row, revisions[r].rev > 0,
                      revisions[r].confirmed = revisions[r].rev
               PROVE  \E s \in Used(snapshots) :
                        /\ snapshots[s].status = "confirmed"
                        /\ snapshots[s].items[r] # Nil
                        /\ snapshots[s].items[r].rev = revisions[r].rev
                        /\ snapshots[s].items[r].price \in carried[r]
    BY DEF ChangeIsNeverLost
  <2>1. PICK s \in Used(snapshots) :
          /\ snapshots[s].status = "confirmed" /\ snapshots[s].items[r] # Nil
          /\ snapshots[s].items[r].rev = revisions[r].rev
    BY <1>1, Parts DEF Stream, ConfirmedHeld
  <2> QED BY <1>1, <2>1, Parts DEF Stream, ItemsCarried
<1> QED BY <1>1, DeskInvariant, PTL

-----------------------------------------------------------------------------
(* Which actions change which table.                                       *)

LEMMA RequestChangers ==
  ASSUME [DeskNext]_deskVars
  PROVE  \/ UNCHANGED requests
         \/ \E r \in Row, type \in {"price_change", "recount"}, d \in Decisions :
              CreateRequest(r, type, d)
         \/ \E c \in Calls, p \in Staff, q \in Request : Claim(c, p, q)
         \/ \E q \in Request : Reopen(q)
         \/ \E c \in Calls : \/ Refresh(c) \/ Release(c) \/ ForceRelease(c)
                             \/ Reject(c) \/ Complete(c)
<1>1. CASE RepricingNext
  BY <1>1 DEF RepricingNext, BeginReprice, AlreadyApplied, ApplyBatch,
              ReadConflict, SyncAfterRecount, Rollback, CreateDraft, SaveDraft, SyncDraft,
              DiscardDraft, repriceFrame
<1>2. CASE ExportNext
  BY <1>2 DEF ExportNext, BeginExport, CaptureExport, FullSnapshot, Confirm,
              exportFrame
<1>3. CASE CorrectionNext
  <2>1. \A c \in Calls : Direct(c) => UNCHANGED requests BY DEF Direct
  <2>2. \A r \in Row : ArchiveRow(r) => UNCHANGED requests BY DEF ArchiveRow
  <2>3. \A c \in Calls, type \in {"price_change", "recount"}, r \in Row,
           d \in Decisions : Preview(c, type, r, d) => UNCHANGED requests
    BY DEF Preview
  <2>4. \A c \in Calls, p \in Staff, q \in Request :
          \A op \in {"refresh", "complete", "release", "force", "reject"} :
            Send(c, op, p, q) \/ SendFromPage(c, op, p, q) => UNCHANGED requests
    BY DEF Send, SendFromPage
  <2> QED BY <1>3, <2>1, <2>2, <2>3, <2>4 DEF CorrectionNext
<1>4. CASE (\E c \in Calls : Drop(c)) \/ (\E p \in Prices : ChangeBasis(p))
  BY <1>4 DEF Drop, ChangeBasis
<1>5. CASE UNCHANGED deskVars BY <1>5 DEF deskVars
<1> QED BY <1>1, <1>2, <1>3, <1>4, <1>5 DEF DeskNext

LEMMA PriceChangers ==
  ASSUME [DeskNext]_deskVars
  PROVE  \/ UNCHANGED priceVars
         \/ \E c \in Calls : Complete(c) \/ Direct(c) \/ ApplyBatch(c)
         \/ \E r \in Row : ArchiveRow(r)
         \/ \E b \in Batch : Rollback(b)
         \/ UNCHANGED rows /\ (FullSnapshot \/ \E s \in Snapshot : Confirm(s))
<1>1. CASE RepricingNext
  BY <1>1 DEF RepricingNext, BeginReprice, AlreadyApplied, ReadConflict,
              SyncAfterRecount, CreateDraft, SaveDraft, SyncDraft, DiscardDraft
<1>2. CASE ExportNext
  BY <1>2 DEF ExportNext, BeginExport, CaptureExport, FullSnapshot, Confirm,
              exportFrame, priceVars
<1>3. CASE CorrectionNext
  <2>1. \A r \in Row, type \in {"price_change", "recount"}, d \in Decisions :
          \/ CreateRequest(r, type, d) \/ \E c \in Calls : Preview(c, type, r, d)
          => UNCHANGED priceVars
    BY DEF CreateRequest, Preview, requestFrame
  <2>2. \A q \in Request : Reopen(q) => UNCHANGED priceVars
    BY DEF Reopen, requestFrame
  <2>3. \A c \in Calls, p \in Staff, q \in Request :
          \A op \in {"refresh", "complete", "release", "force", "reject"} :
            Claim(c, p, q) \/ Send(c, op, p, q) \/ SendFromPage(c, op, p, q)
              => UNCHANGED priceVars
    BY DEF Claim, Send, SendFromPage, requestFrame
  <2>4. \A c \in Calls : Refresh(c) \/ Release(c) \/ ForceRelease(c) \/ Reject(c)
                           => UNCHANGED priceVars
    BY DEF Refresh, Release, ForceRelease, Reject, requestFrame
  <2> QED BY <1>3, <2>1, <2>2, <2>3, <2>4 DEF CorrectionNext
<1>4. CASE (\E c \in Calls : Drop(c)) \/ (\E p \in Prices : ChangeBasis(p))
  BY <1>4 DEF Drop, ChangeBasis
<1>5. CASE UNCHANGED deskVars BY <1>5 DEF deskVars, priceVars
<1> QED BY <1>1, <1>2, <1>3, <1>4, <1>5 DEF DeskNext

LEMMA BatchChangers ==
  ASSUME [DeskNext]_deskVars
  PROVE  \/ UNCHANGED batches
         \/ \E c \in Calls : ApplyBatch(c)
         \/ \E b \in Batch : Rollback(b)
<1>1. CASE RepricingNext
  BY <1>1 DEF RepricingNext, BeginReprice, AlreadyApplied, ReadConflict,
              SyncAfterRecount, CreateDraft, SaveDraft, SyncDraft, DiscardDraft, batchVars
<1>2. CASE ExportNext
  BY <1>2 DEF ExportNext, BeginExport, CaptureExport, FullSnapshot, Confirm,
              exportFrame, batchVars
<1>3. CASE CorrectionNext
  <2>1. \A r \in Row, type \in {"price_change", "recount"}, d \in Decisions :
          \/ CreateRequest(r, type, d) \/ \E c \in Calls : Preview(c, type, r, d)
          => UNCHANGED batchVars
    BY DEF CreateRequest, Preview, requestFrame
  <2>2. /\ \A q \in Request : Reopen(q) => UNCHANGED batchVars
        /\ \A r \in Row : ArchiveRow(r) => UNCHANGED batchVars
    BY DEF Reopen, ArchiveRow, requestFrame
  <2>3. \A c \in Calls, p \in Staff, q \in Request :
          \A op \in {"refresh", "complete", "release", "force", "reject"} :
            Claim(c, p, q) \/ Send(c, op, p, q) \/ SendFromPage(c, op, p, q)
              => UNCHANGED batchVars
    BY DEF Claim, Send, SendFromPage, requestFrame
  <2>4. \A c \in Calls :
          Refresh(c) \/ Release(c) \/ ForceRelease(c) \/ Reject(c) \/ Complete(c)
            \/ Direct(c)
          => UNCHANGED batchVars
    BY DEF Refresh, Release, ForceRelease, Reject, Complete, Direct, requestFrame
  <2>5. UNCHANGED batchVars BY <1>3, <2>1, <2>2, <2>3, <2>4 DEF CorrectionNext
  <2> QED BY <2>5 DEF batchVars
<1>4. CASE (\E c \in Calls : Drop(c)) \/ (\E p \in Prices : ChangeBasis(p))
  BY <1>4 DEF Drop, ChangeBasis, batchVars
<1>5. CASE UNCHANGED deskVars BY <1>5 DEF deskVars
<1> QED BY <1>1, <1>2, <1>3, <1>4, <1>5 DEF DeskNext

-----------------------------------------------------------------------------
(* What no step may do.                                                    *)

\* Confirming snapshots in any order, and again, never lowers what is
\* confirmed.
THEOREM ConfirmedOnlyRises == DeskSpec => ConfirmedNeverFalls
<1>1. ASSUME IInv, [DeskNext]_deskVars, NEW r \in Row
      PROVE  revisions'[r].confirmed >= revisions[r].confirmed
  <2>1. PICK w \in [rev : Nat, confirmed : Nat, exposed : BOOLEAN] :
          revisions[r] = w
    BY <1>1, Parts DEF PriceTypes
  <2>2. CASE UNCHANGED revisions BY <2>1, <2>2
  <2>3. ASSUME NEW s \in Row, NEW p, Repriced(s, p) PROVE  revisions'[r].confirmed >= revisions[r].confirmed
    <3>1. revisions'[r].confirmed = revisions[r].confirmed
      BY <2>3, <1>1, Parts DEF Repriced, PriceTypes
    <3> QED BY <2>1, <3>1
  <2>4. CASE FullSnapshot
    <3>1. revisions'[r] = [revisions[r] EXCEPT !.exposed = @ \/ Active(r)]
      BY <2>4 DEF FullSnapshot
    <3>2. revisions'[r].confirmed = w.confirmed BY <2>1, <3>1
    <3> QED BY <2>1, <3>2
  <2>5. ASSUME NEW s \in Snapshot, Confirm(s) PROVE  revisions'[r].confirmed >= revisions[r].confirmed
    <3>1. snapshots[s] \in SnapshotState
      BY <2>5, <1>1, Parts DEF Confirm, ExportTypes
    <3> DEFINE item == snapshots[s].items[r]
    <3>2. item # Nil => item.rev \in Nat BY <3>1 DEF SnapshotState
    <3>3. \/ revisions'[r] = w
          \/ /\ item # Nil
             /\ revisions'[r] = [w EXCEPT !.confirmed = ConfirmedAs(r, item)]
      BY <2>1, <2>5 DEF Confirm
    <3>4. item # Nil => ConfirmedAs(r, item) >= w.confirmed
      BY <2>1, <3>2 DEF ConfirmedAs
    <3> HIDE DEF item
    <3>5. revisions'[r].confirmed >= w.confirmed BY <3>3, <3>4
    <3> QED BY <2>1, <3>5
  <2>6. ASSUME NEW c \in Calls, Complete(c) \/ Direct(c)
        PROVE  UNCHANGED revisions \/ \E s \in Row, p \in Prices : Repriced(s, p)
    <3>1. CASE Complete(c)
      <4>1. PICK q \in Request : q = call[c].q /\ requests[q].row \in Row
        BY <1>1, <3>1, CallAbout DEF Complete, HeldOps, RequestState
      <4>2. call[c].to \in Prices
        BY <1>1, <3>1, CallAbout DEF Complete, HeldOps
      <4> QED BY <3>1, <4>1, <4>2 DEF Complete, Recounted, priceVars
    <3>2. CASE Direct(c)
      BY <1>1, <3>2, DirectWrites DEF Recounted, priceVars
    <3> QED BY <2>6, <3>1, <3>2
  <2>7. /\ \A c \in Calls : ApplyBatch(c) => UNCHANGED revisions
        /\ \A s \in Row : ArchiveRow(s) => UNCHANGED revisions
        /\ \A b \in Batch : Rollback(b) => UNCHANGED revisions
    BY DEF ApplyBatch, ArchiveRow, Rollback, priceVars
  <2> QED BY <1>1, <2>2, <2>3, <2>4, <2>5, <2>6, <2>7, PriceChangers DEF priceVars
<1>2. IInv /\ [DeskNext]_deskVars =>
        [\A r \in Row : revisions'[r].confirmed >= revisions[r].confirmed]_deskVars
  BY <1>1
<1> QED BY <1>2, DeskInvariant, PTL DEF DeskSpec, ConfirmedNeverFalls

\* A request that is not claimed by the step, created or reopened changes by
\* the transaction of a call about it; where that request is claimed, the
\* call names the version it has.
LEMMA ChangedByCall ==
  ASSUME IInv, [DeskNext]_deskVars, NEW q \in Request, requests[q] # Nil,
         requests'[q] # requests[q]
  PROVE  \/ requests[q].status \in {"pending", "rejected"}
              /\ requests'[q].status \in {"pending", "rejected", "in_progress"}
         \/ \E c \in Calls :
              /\ call[c] # Nil /\ call[c].op \in HeldOps /\ call[c].q = q
              /\ requests[q].status = "in_progress"
              /\ call[c].version = requests[q].version
              /\ call'[c] # call[c]
              /\ requests'[q].status = "completed" =>
                   Complete(c) /\ Completable(c)
<1>1. requests \in [Request -> RequestState \cup {Nil}]
      /\ requests[q] \in RequestState
  BY Parts DEF RequestTypes
<1>2. ASSUME NEW r \in Row, NEW type \in {"price_change", "recount"},
             NEW d \in Decisions, CreateRequest(r, type, d)
      PROVE  FALSE
  BY <1>1, <1>2 DEF CreateRequest, IsNew
<1>3. ASSUME NEW c \in Calls, NEW p \in Staff, NEW s \in Request, Claim(c, p, s)
      PROVE  requests[q].status = "pending" /\ requests'[q].status = "in_progress"
  <2>1. s = q BY <1>1, <1>3 DEF Claim
  <2>2. requests'[q].status = "in_progress" BY <1>1, <1>3, <2>1 DEF Claim, RequestState
  <2> QED BY <1>3, <2>1, <2>2 DEF Claim
<1>4. ASSUME NEW s \in Request, Reopen(s)
      PROVE  requests[q].status = "rejected" /\ requests'[q].status = "pending"
  <2>1. s = q BY <1>1, <1>4 DEF Reopen
  <2>2. requests'[q].status = "pending" BY <1>1, <1>4, <2>1 DEF Reopen, RequestState
  <2> QED BY <1>4, <2>1, <2>2 DEF Reopen
<1>5. ASSUME NEW c \in Calls,
             Refresh(c) \/ Release(c) \/ ForceRelease(c) \/ Reject(c) \/ Complete(c)
      PROVE  /\ call[c] # Nil /\ call[c].op \in HeldOps /\ call[c].q = q
             /\ \/ /\ requests[q].status = "pending"
                   /\ requests'[q].status = "rejected"
                \/ /\ requests[q].status = "in_progress"
                   /\ call[c].version = requests[q].version
                   /\ call'[c] # call[c]
                   /\ requests'[q].status = "completed" =>
                        Complete(c) /\ Completable(c)
  <2>1. PICK op \in HeldOps : Doing(c, op)
    BY <1>5 DEF Refresh, Release, ForceRelease, Reject, Complete, HeldOps
  <2>2. call[c] # Nil /\ call[c].op \in HeldOps BY <2>1 DEF Doing
  <2>3. PICK s \in Request : s = call[c].q BY <2>1, CallAbout
  <2>4. ASSUME NEW status, requests' = Ended(s, status), requests'[q] # requests[q]
        PROVE  s = q /\ requests'[q].status = status
    <3>1. s = q BY <1>1, <2>4 DEF Ended
    <3> QED BY <1>1, <2>4, <3>1 DEF Ended, RequestState
  <2>5. End(c) => call'[c] # call[c] BY <2>2, Parts DEF End, CallTypes
  <2>6. CASE Refresh(c)
    <3>1. Owns(s, call[c].who, call[c].version) /\ End(c)
      BY <2>3, <2>6 DEF Refresh
    <3>2. s = q BY <1>1, <2>3, <2>6 DEF Refresh
    <3>3. requests'[q].status = requests[q].status
      BY <1>1, <2>3, <2>6, <3>2 DEF Refresh, RequestState
    <3> QED BY <2>2, <2>3, <2>5, <3>1, <3>2, <3>3 DEF Owns
  <2>7. CASE Release(c) \/ ForceRelease(c)
    <3>1. /\ requests[s].status = "in_progress"
          /\ requests[s].version = call[c].version
          /\ requests' = Ended(s, "pending") /\ End(c)
      BY <2>3, <2>7 DEF Release, ForceRelease, Owns, Forcible
    <3> QED BY <2>2, <2>3, <2>4, <2>5, <3>1
  <2>8. CASE Reject(c)
    <3>1. CASE requests[s].status = "pending"
      <4>1. requests' = [requests EXCEPT ![s].status = "rejected"]
        BY <2>3, <2>8, <3>1 DEF Reject
      <4>2. s = q BY <1>1, <4>1
      <4>3. requests'[q].status = "rejected" BY <1>1, <4>1, <4>2 DEF RequestState
      <4> QED BY <2>2, <2>3, <3>1, <4>2, <4>3
    <3>2. CASE requests[s].status # "pending"
      <4>1. /\ requests[s].status = "in_progress"
            /\ requests[s].version = call[c].version
            /\ requests' = Ended(s, "rejected") /\ End(c)
        BY <2>3, <2>8, <3>2 DEF Reject, Owns
      <4> QED BY <2>2, <2>3, <2>4, <2>5, <4>1
    <3> QED BY <3>1, <3>2
  <2>9. CASE Complete(c)
    <3>1. /\ Completable(c) /\ Doing(c, "complete")
          /\ requests' = Ended(s, "completed")
      BY <2>3, <2>9 DEF Complete
    <3>2. /\ requests[s].status = "in_progress"
          /\ requests[s].version = call[c].version
      BY <2>3, <3>1 DEF Completable, Owns
    <3>3. call'[c] # call[c]
      <4>1. CASE End(c) BY <2>5, <4>1
      <4>2. CASE call' = [call EXCEPT ![c] = [op |-> "sync"]]
        <5>1. call'[c].op = "sync" BY <4>2, Parts DEF CallTypes
        <5> QED BY <3>1, <5>1 DEF Doing
      <4> QED BY <2>9, <3>1, <4>1, <4>2 DEF Complete
    <3> QED BY <2>2, <2>3, <2>4, <2>9, <3>1, <3>2, <3>3
  <2> QED BY <1>5, <2>6, <2>7, <2>8, <2>9
<1> QED BY <1>2, <1>3, <1>4, <1>5, RequestChangers

\* A claimed request changes only by a call that began under this claim.
THEOREM EarlierClaimsAreSpent == DeskSpec => EarlierClaimIsSpent
<1>1. IInv /\ [DeskNext]_deskVars =>
        [\A q \in Used(requests) :
           requests[q].status = "in_progress" /\ requests'[q] # requests[q] =>
             \E c \in Calls :
               /\ call[c] # Nil /\ call[c].op \in HeldOps /\ call'[c] # call[c]
               /\ call[c].q = q /\ call[c].epoch = requests[q].epoch]_deskVars
  <2> SUFFICES ASSUME IInv, [DeskNext]_deskVars, NEW q \in Used(requests),
                      requests[q].status = "in_progress",
                      requests'[q] # requests[q]
               PROVE  \E c \in Calls :
                        /\ call[c] # Nil /\ call[c].op \in HeldOps
                        /\ call'[c] # call[c]
                        /\ call[c].q = q /\ call[c].epoch = requests[q].epoch
    OBVIOUS
  <2>1. q \in Request /\ requests[q] # Nil BY Parts DEF Used, RequestTypes
  <2>2. PICK c \in Calls :
          /\ call[c] # Nil /\ call[c].op \in HeldOps /\ call[c].q = q
          /\ call[c].version = requests[q].version /\ call'[c] # call[c]
    BY <2>1, ChangedByCall
  <2>3. Known(call[c]) BY <2>2, Parts DEF CallsKnown
  <2> QED BY <2>2, <2>3 DEF Known
<1> QED BY <1>1, DeskInvariant, PTL DEF DeskSpec, EarlierClaimIsSpent

\* The row a recount's successor takes, and what the two become.
LEMMA RecountedRows ==
  ASSUME PriceTypes, NEW r \in Row, NEW p \in Prices, Active(r), Recounted(r, p)
  PROVE  \E s \in Row :
           /\ rows[s] = Nil /\ rows'[s] # Nil /\ rows'[s].price = p
           /\ rows'[r].status = "corrected"
           /\ \A t \in Row \ {r, s} : rows'[t] = rows[t]
<1>1. PICK z \in RowState : rows[r] = z /\ rows[r] # Nil BY ActiveIsRow DEF Active
<1>2. 0 \in 0..MaxBatches BY DeskAssumption
<1> DEFINE x == [z EXCEPT !.status = "corrected"]
           y == [status |-> "active", price |-> p, mark |-> 0]
<1>3. x.status = "corrected" /\ y.price = p /\ y # Nil
  BY <1>2, NilAssumption DEF RowState
<1>4. PICK s \in Row : rows[s] = Nil /\ rows' = [rows EXCEPT ![r] = x, ![s] = y]
  BY <1>1 DEF Recounted, IsNew, PriceTypes
<1> HIDE DEF x, y
<1>5. /\ rows'[r] = x /\ rows'[s] = y
      /\ \A t \in Row \ {r, s} : rows'[t] = rows[t]
  BY <1>1, <1>4 DEF PriceTypes
<1> QED BY <1>3, <1>4, <1>5

\* A request is completed with the result it proposed, on the product state
\* that result was computed from.
THEOREM ReviewedResultsAreWritten == DeskSpec => ReviewedIsWritten
<1>1. IInv /\ [DeskNext]_deskVars =>
        [\A q \in Used(requests) :
           LET x == requests[q]
           IN  x.status # "completed" /\ requests'[q].status = "completed" =>
                 /\ rows[x.row] = x.from
                 /\ \/ /\ x.type = "price_change"
                       /\ rows'[x.row] = [x.from EXCEPT !.price = x.to, !.mark = 0]
                    \/ /\ x.type = "recount" /\ rows'[x.row].status = "corrected"
                       /\ \E s \in Row : rows[s] = Nil /\ rows'[s] # Nil /\
                                         rows'[s].price = x.to]_deskVars
  <2> DEFINE AsReviewed(x) ==
        /\ rows[x.row] = x.from
        /\ \/ /\ x.type = "price_change"
              /\ rows'[x.row] = [x.from EXCEPT !.price = x.to, !.mark = 0]
           \/ /\ x.type = "recount" /\ rows'[x.row].status = "corrected"
              /\ \E s \in Row : rows[s] = Nil /\ rows'[s] # Nil /\
                                rows'[s].price = x.to
  <2> SUFFICES ASSUME IInv, [DeskNext]_deskVars, NEW q \in Used(requests),
                      requests[q].status # "completed",
                      requests'[q].status = "completed"
               PROVE  AsReviewed(requests[q])
    OBVIOUS
  <2>1. q \in Request /\ requests[q] # Nil BY Parts DEF Used, RequestTypes
  <2>2. PICK x \in RequestState : x = requests[q] BY <2>1, RequestType, Parts
  <2>3. PICK c \in Calls : call[c].q = q /\ Complete(c) /\ Completable(c)
    BY <2>1, ChangedByCall
  <2>4. PICK r \in Row, p \in Prices : r = x.row /\ p = x.to BY DEF RequestState
  <2>5. /\ Active(r) /\ rows[r] = x.from /\ call[c].to = x.to
    BY <2>2, <2>3, <2>4 DEF Completable, Current
  <2>6. CASE x.type = "price_change" /\ Repriced(r, p)
    <3>1. rows'[r] = [rows[r] EXCEPT !.price = p, !.mark = 0]
      BY <2>6, Parts DEF Repriced, PriceTypes
    <3> QED BY <2>2, <2>4, <2>5, <2>6, <3>1
  <2>7. CASE x.type = "recount" /\ Recounted(r, p)
    <3>1. /\ rows'[r].status = "corrected"
          /\ \E s \in Row : rows[s] = Nil /\ rows'[s] # Nil /\ rows'[s].price = p
      BY <2>5, <2>7, Parts, RecountedRows
    <3> QED BY <2>2, <2>4, <2>5, <2>7, <3>1
  <2> QED BY <2>2, <2>3, <2>4, <2>5, <2>6, <2>7 DEF Complete
<1> QED BY <1>1, DeskInvariant, PTL DEF DeskSpec, ReviewedIsWritten

\* A batch committed from a draft is the batch that draft describes.
THEOREM DraftsAreWhatIsApplied == DeskSpec => DraftIsWhatIsApplied
<1>1. IInv /\ [DeskNext]_deskVars =>
        [\A b \in Batch, c \in Calls :
           /\ batches[b] = Nil /\ batches'[b] # Nil
           /\ Doing(c, "reprice") /\ call'[c] = Nil /\ call[c].used # 0
           => /\ draft.status = "draft" /\ draft'.status = "applied"
              /\ draft.no = call[c].used
              /\ Token(draft, draft.choice) = batches'[b].token]_deskVars
  <2> SUFFICES ASSUME IInv, [DeskNext]_deskVars, NEW b \in Batch, NEW c \in Calls,
                      batches[b] = Nil, batches'[b] # Nil,
                      Doing(c, "reprice"), call'[c] = Nil, call[c].used # 0
               PROVE  /\ draft.status = "draft" /\ draft'.status = "applied"
                      /\ draft.no = call[c].used
                      /\ Token(draft, draft.choice) = batches'[b].token
    OBVIOUS
  <2>1. ASSUME NEW a \in Batch, Rollback(a) PROVE FALSE
    <3>1. a # b BY <2>1 DEF Rollback
    <3> QED BY <2>1, <3>1, Parts DEF Rollback, BatchTypes
  <2>2. PICK d \in Calls : ApplyBatch(d) BY <2>1, BatchChangers
  <2>3. d = c
    <3>1. call[c] # Nil BY DEF Doing
    <3>2. End(d)
      <4>1. ~ UNCHANGED batches OBVIOUS
      <4> QED BY <2>2, <4>1 DEF ApplyBatch, batchVars
    <3> QED BY <3>1, <3>2, Parts DEF End, CallTypes
  <2>4. /\ DraftSays(call[c].token) /\ DraftApplied(call[c].used)
        /\ draft.no = call[c].used
        /\ \E a \in Batch : batches' = [batches EXCEPT ![a] =
                              [status |-> "completed", token |-> call[c].token]]
    <3>1. ~ UNCHANGED batches OBVIOUS
    <3> QED BY <2>2, <2>3, <3>1 DEF ApplyBatch, batchVars
  <2>5. batches'[b].token = call[c].token
    <3>1. PICK a \in Batch : batches' = [batches EXCEPT ![a] =
                              [status |-> "completed", token |-> call[c].token]]
      BY <2>4
    <3>2. a = b BY <3>1, Parts DEF BatchTypes
    <3> QED BY <3>1, <3>2, Parts DEF BatchTypes
  <2>6. OpenDraft /\ Token(draft, draft.choice) = call[c].token
    BY <2>4 DEF DraftSays
  <2>7. draft' = [draft EXCEPT !.status = "applied"] BY <2>4, <2>6 DEF DraftApplied
  <2>8. draft'.status = "applied"
    <3>1. PICK z \in DraftState : draft = z BY <2>6, Parts DEF OpenDraft, BatchTypes
    <3> QED BY <2>7, <3>1 DEF DraftState
  <2> QED BY <2>4, <2>5, <2>6, <2>8 DEF OpenDraft
<1> QED BY <1>1, DeskInvariant, PTL DEF DeskSpec, DraftIsWhatIsApplied

\* A product with an active request changes by that request, by being
\* archived, or by a rollback.
THEOREM ActiveRequestsAreNotOvertaken == DeskSpec => ActiveRequestIsNotOvertaken
<1>1. IInv /\ [DeskNext]_deskVars =>
        [\A r \in Row :
           ActiveRequests(r) # {} /\ rows'[r] # rows[r] =>
             \/ \E q \in ActiveRequests(r) : requests'[q].status = "completed"
             \/ rows'[r].status = "archived"
             \/ \E b \in Used(batches) : batches'[b] # batches[b]]_deskVars
  <2> SUFFICES ASSUME IInv, [DeskNext]_deskVars, NEW r \in Row,
                      ActiveRequests(r) # {}, rows'[r] # rows[r]
               PROVE  \/ \E q \in ActiveRequests(r) :
                           requests'[q].status = "completed"
                      \/ rows'[r].status = "archived"
                      \/ \E b \in Used(batches) : batches'[b] # batches[b]
    OBVIOUS
  <2>1. rows[r] # Nil BY Parts DEF ActiveRequests, RowsKnown
  <2>2. ASSUME NEW s \in Row, NEW p \in Prices, Active(s),
               Repriced(s, p) \/ Recounted(s, p)
        PROVE  s = r
    <3>1. CASE Repriced(s, p) BY <3>1, Parts DEF Repriced, PriceTypes
    <3>2. CASE Recounted(s, p) BY <2>1, <2>2, <3>2, Parts, RecountedRows
    <3> QED BY <2>2, <3>1, <3>2
  <2>3. ASSUME NEW c \in Calls, Complete(c)
        PROVE  \E q \in ActiveRequests(r) : requests'[q].status = "completed"
    <3>1. PICK q \in Request :
            /\ q = call[c].q /\ requests[q] # Nil /\ requests[q] \in RequestState
            /\ call[c].to \in Prices
      BY <2>3, CallAbout DEF Complete, HeldOps
    <3>2. PICK s \in Row, p \in Prices : s = requests[q].row /\ p = call[c].to
      BY <3>1 DEF RequestState
    <3>3. Completable(c) BY <2>3 DEF Complete, priceVars
    <3>4. /\ Active(s) /\ requests[q].status = "in_progress"
          /\ requests' = Ended(q, "completed")
          /\ Repriced(s, p) \/ Recounted(s, p)
      BY <2>3, <3>1, <3>2, <3>3 DEF Completable, Current, Owns, Complete
    <3>5. s = r BY <2>2, <3>4
    <3>6. requests'[q].status = "completed" BY <3>1, <3>4, Parts, EndedRequest
    <3>7. q \in ActiveRequests(r)
      BY <3>1, <3>2, <3>4, <3>5, Parts DEF ActiveRequests, Used, RequestTypes
    <3> QED BY <3>6, <3>7
  <2>4. ASSUME NEW c \in Calls, Direct(c) PROVE FALSE
    <3>1. PICK s \in Row, p \in Prices :
            /\ Active(s) /\ ActiveRequests(s) = {}
            /\ Repriced(s, p) \/ Recounted(s, p)
      BY <2>4, DirectWrites DEF priceVars
    <3> QED BY <2>2, <3>1
  <2>5. ASSUME NEW c \in Calls, ApplyBatch(c) PROVE FALSE
    <3>1. r \in Changed(call[c].token) /\ StillUnblocked(call[c].token)
      BY <2>5, Parts DEF ApplyBatch, priceVars, PriceTypes
    <3> QED BY <3>1 DEF StillUnblocked, Unblocked
  <2>6. ASSUME NEW s \in Row, ArchiveRow(s) PROVE rows'[r].status = "archived"
    <3>1. s = r BY <2>6, Parts DEF ArchiveRow, PriceTypes
    <3>2. rows[r] \in RowState BY <2>1, Parts DEF PriceTypes
    <3> QED BY <2>6, <3>1, <3>2, Parts DEF ArchiveRow, PriceTypes, RowState
  <2>7. ASSUME NEW b \in Batch, Rollback(b)
        PROVE  \E a \in Used(batches) : batches'[a] # batches[a]
    <3>1. PICK z \in BatchState : batches[b] = z /\ z.status = "completed"
      BY <2>7, Parts DEF Rollback, BatchTypes
    <3>2. batches'[b] = [z EXCEPT !.status = "rolled_back"]
      BY <2>7, <3>1, Parts DEF Rollback, BatchTypes
    <3>3. batches'[b].status = "rolled_back" BY <3>2 DEF BatchState
    <3>4. b \in Used(batches) BY <2>7, Parts DEF Rollback, Used, BatchTypes
    <3> QED BY <3>1, <3>3, <3>4
  <2> QED BY <2>3, <2>4, <2>5, <2>6, <2>7, PriceChangers DEF priceVars
<1> QED BY <1>1, DeskInvariant, PTL DEF DeskSpec, ActiveRequestIsNotOvertaken

=============================================================================
