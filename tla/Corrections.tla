----------------------------- MODULE Corrections ----------------------------
(***************************************************************************)
(* Correction requests, and the direct price change and recount that do    *)
(* without one: correction-request.service.js,                             *)
(* product-price-change.service.js and applyProductRecount of              *)
(* product.service.js.  A person claims a request under a version; every   *)
(* later call of theirs names that version and is checked against it when  *)
(* its transaction runs, which may be after other calls committed.         *)
(***************************************************************************)
EXTENDS DeskLedger

requestFrame == <<priceVars, exportVars, batchVars, basis>>

\* Mutant: the token is not recomputed where the change commits.
CurrentIfActive(r, d, from, to) == Active(r)

\* What a preview of the decision on the row says now: the state it was
\* computed on and the resulting price.  Its token is this pair.
Current(r, d, from, to) == Active(r) /\ rows[r] = from /\ to = PriceOf(d)

\* A price change must change the price.
Worthwhile(type, r, to) == type = "price_change" => to # rows[r].price

CreateRequest(r, type, d) ==
  LET to == PriceOf(d)
  IN  /\ Active(r) /\ ActiveRequests(r) = {} /\ Worthwhile(type, r, to)
      /\ Spend("request")
      /\ \E q \in Request :
           /\ IsNew(requests, q)
           /\ requests' = [requests EXCEPT ![q] =
                [type |-> type, row |-> r, decision |-> d, from |-> rows[r],
                 to |-> to, status |-> "pending", owner |-> Nil,
                 version |-> 0, epoch |-> 0]]
      /\ UNCHANGED <<requestFrame, call>>

\* Mutant: the person is checked and the version is not.
OwnsByPerson(q, p, version) ==
  requests[q].status = "in_progress" /\ requests[q].owner = p

\* assertClaimOwnership: in progress, claimed by p, under this version.
Owns(q, p, version) ==
  /\ requests[q].status = "in_progress"
  /\ requests[q].version = version
  /\ requests[q].owner = p

\* Mutant: the owner stays on a request whose claim ended.
EndedOwned(q, status) ==
  [requests EXCEPT ![q].status = status, ![q].version = @ + 1]

\* The request after a claim of it ended with the given status.
Ended(q, status) ==
  [requests EXCEPT ![q].status = status, ![q].owner = Nil, ![q].version = @ + 1]

\* What a call carries of the request it is about.
About(op, p, q, version) ==
  [op |-> op, who |-> p, q |-> q, version |-> version,
   epoch |-> requests[q].epoch, from |-> requests[q].from, to |-> requests[q].to]

\* claimCorrectionRequest, first transaction; its refresh follows.
Claim(c, p, q) ==
  /\ requests[q] # Nil /\ requests[q].status = "pending"
  /\ Spend("desk")
  /\ requests' = [requests EXCEPT ![q].status = "in_progress", ![q].owner = p,
                    ![q].version = @ + 1, ![q].epoch = @ + 1]
  /\ Start(c, [About("claim", p, q, requests[q].version + 1)
                 EXCEPT !.epoch = @ + 1])
  /\ UNCHANGED requestFrame

\* A person sends a command about the request they hold: the handler's
\* first, unlocked read (refresh, complete) or the page it was sent from.
Send(c, op, p, q) ==
  /\ requests[q] # Nil /\ Owns(q, p, requests[q].version)
  /\ op = "complete" /\ requests[q].type = "recount" =>
       Current(requests[q].row, requests[q].decision, requests[q].from,
               requests[q].to)
  /\ Spend("desk")
  /\ Start(c, About(op, p, q, requests[q].version))
  /\ UNCHANGED <<requestFrame, requests>>

\* A supervisor's page shows a claimed request; anybody's page shows one
\* that may be rejected.
SendFromPage(c, op, p, q) ==
  /\ requests[q] # Nil
  /\ requests[q].status \in
       (IF op = "force" THEN {"in_progress"} ELSE {"pending", "in_progress"})
  /\ Spend("desk")
  /\ Start(c, About(op, p, q, requests[q].version))
  /\ UNCHANGED <<requestFrame, requests>>

\* The proposal can be computed anew.
Refreshable(q) ==
  LET x == requests[q]
  IN  Active(x.row) /\ Worthwhile(x.type, x.row, PriceOf(x.decision))

\* refreshClaimedCorrectionRequest; a claim whose refresh is refused gives
\* the request back in a further transaction.
Refresh(c) ==
  LET x == call[c]
      r == requests[x.q].row
  IN  /\ Doing(c, "refresh") \/ Doing(c, "claim")
      /\ IF Owns(x.q, x.who, x.version) /\ Refreshable(x.q)
         THEN /\ requests' = [requests EXCEPT
                    ![x.q].from = rows[r], ![x.q].to = PriceOf(requests[x.q].decision)]
              /\ End(c)
         ELSE /\ IF x.op = "claim"
                 THEN call' = [call EXCEPT ![c].op = "release"] ELSE End(c)
              /\ UNCHANGED requests
      /\ UNCHANGED <<requestFrame, left>>

\* A command whose transaction finds the claim it was sent under, or is
\* refused.
Release(c) ==
  /\ Doing(c, "release") /\ End(c)
  /\ IF Owns(call[c].q, call[c].who, call[c].version)
     THEN requests' = Ended(call[c].q, "pending") ELSE UNCHANGED requests
  /\ UNCHANGED <<requestFrame, left>>

\* Mutant: any claim may be forced.
ForcibleAlways(q, version) == requests[q].status = "in_progress"

\* forceReleaseCorrectionRequest: the version, whoever owns it.
Forcible(q, version) ==
  requests[q].status = "in_progress" /\ requests[q].version = version

ForceRelease(c) ==
  /\ Doing(c, "force") /\ End(c)
  /\ IF Forcible(call[c].q, call[c].version)
     THEN requests' = Ended(call[c].q, "pending") ELSE UNCHANGED requests
  /\ UNCHANGED <<requestFrame, left>>

\* updateCorrectionRequestStatus to rejected: a pending request by anybody,
\* without a new version; a claimed one by its owner.
Reject(c) ==
  LET q == call[c].q
  IN  /\ Doing(c, "reject") /\ End(c)
      /\ requests' =
           IF requests[q].status = "pending"
           THEN [requests EXCEPT ![q].status = "rejected"]
           ELSE IF Owns(q, call[c].who, call[c].version)
           THEN Ended(q, "rejected") ELSE requests
      /\ UNCHANGED <<requestFrame, left>>

\* updateCorrectionRequestStatus to pending; the unique index refuses it
\* beside another active request.
Reopen(q) ==
  /\ requests[q] # Nil /\ requests[q].status = "rejected"
  /\ ActiveRequests(requests[q].row) = {}
  /\ Spend("desk")
  /\ requests' = [requests EXCEPT ![q].status = "pending"]
  /\ UNCHANGED <<requestFrame, call>>

\* The transaction that completes a request by the result it proposes.
Completable(c) ==
  LET x == call[c]
      q == requests[x.q]
  IN  /\ Current(q.row, q.decision, x.from, x.to)
      /\ ActiveRequests(q.row) \ {x.q} = {}
      /\ Worthwhile(q.type, q.row, x.to)
      /\ Owns(x.q, x.who, x.version)
      /\ q.from = x.from /\ q.to = x.to

\* completeCorrectionRequest; after a recount the active draft is brought up
\* to date, in a transaction of its own.
Complete(c) ==
  LET q == requests[call[c].q]
  IN  /\ Doing(c, "complete")
      /\ \/ /\ Completable(c) /\ q.type = "price_change"
            /\ Repriced(q.row, call[c].to)
            /\ requests' = Ended(call[c].q, "completed") /\ End(c)
         \/ /\ Completable(c) /\ q.type = "recount"
            /\ Recounted(q.row, call[c].to)
            /\ requests' = Ended(call[c].q, "completed")
            /\ call' = [call EXCEPT ![c] = [op |-> "sync"]]
         \/ /\ ~Completable(c) /\ End(c) /\ UNCHANGED <<requests, priceVars>>
      /\ UNCHANGED <<exportVars, batchVars, basis, left>>

\* A direct price change or recount: what its preview showed ...
Preview(c, type, r, d) ==
  /\ Active(r) /\ ActiveRequests(r) = {} /\ Worthwhile(type, r, PriceOf(d))
  /\ Spend(type)
  /\ Start(c, [op |-> type, row |-> r, decision |-> d, from |-> rows[r],
               to |-> PriceOf(d)])
  /\ UNCHANGED <<requestFrame, requests>>

\* A recount that carries no pricing decision follows the matrix, and only the
\* product must be as it was: the price may differ from the one previewed.
StillRecountable(x) ==
  \/ Current(x.row, x.decision, x.from, x.to)
  \/ x.decision = Matrix /\ Active(x.row) /\ rows[x.row] = x.from

\* ... and its transaction.
Direct(c) ==
  LET x == call[c]
      current == Current(x.row, x.decision, x.from, x.to)
      clear   == ActiveRequests(x.row) = {} /\ Worthwhile(x.op, x.row, x.to)
  IN  /\ \/ Doing(c, "price_change") /\ current /\ clear /\ Repriced(x.row, x.to)
         \/ /\ Doing(c, "recount") /\ StillRecountable(x) /\ clear
            /\ Recounted(x.row, PriceOf(x.decision))
         \/ /\ Doing(c, "price_change") \/ Doing(c, "recount")
            /\ ~(current /\ clear) /\ UNCHANGED priceVars
      /\ End(c)
      /\ UNCHANGED <<exportVars, batchVars, basis, requests, left>>

\* deleteProductBySku: an active request of the product does not stop it.
ArchiveRow(r) ==
  /\ Active(r) /\ Spend("archive")
  /\ rows' = [rows EXCEPT ![r].status = "archived"]
  /\ UNCHANGED <<revisions, carried, exportVars, batchVars, basis, requests, call>>

CorrectionNext ==
  \/ \E r \in Row, type \in {"price_change", "recount"}, d \in Decisions :
       \/ CreateRequest(r, type, d)
       \/ \E c \in Calls : Preview(c, type, r, d)
  \/ \E q \in Request : Reopen(q)
  \/ \E r \in Row : ArchiveRow(r)
  \/ \E c \in Calls, p \in Staff, q \in Request :
       \/ Claim(c, p, q)
       \/ \E op \in {"refresh", "complete", "release"} : Send(c, op, p, q)
       \/ \E op \in {"force", "reject"} : SendFromPage(c, op, p, q)
  \/ \E c \in Calls :
       \/ Refresh(c) \/ Release(c) \/ ForceRelease(c) \/ Reject(c)
       \/ Complete(c) \/ Direct(c)

=============================================================================
