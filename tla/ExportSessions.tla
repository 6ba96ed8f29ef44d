--------------------------- MODULE ExportSessions ---------------------------
(***************************************************************************)
(* One shared export session: settings are edited under a revision, an     *)
(* attempt is prepared from them and reviewed, and generating it captures  *)
(* the products once.  A call holds the session lock from its access check *)
(* to its answer, across the transactions in between.                      *)
(***************************************************************************)
EXTENDS OfficeLedger

sharedByOthers == <<accessVars, phase, inputs, creationVars>>

Attempt == attempts[session.current]
Owns(u) == session.owner = u

\* Mutant: the epoch of the request is not compared.
HasAccessNow(c) ==
  \/ Owns(Who(c))
  \/ /\ calls[c].kind \notin {"invite", "revoke"}
     /\ IF calls[c].kind \in {"accept", "decline", "leave"}
        THEN members[Who(c)].state # "none" ELSE members[Who(c)].state = "accepted"

\* loadAccess: the owner, or a member whose epoch is the one the request was
\* made under.  A membership command needs only a row, a read no epoch.
HasAccess(c) ==
  LET x == calls[c]
  IN  \/ Owns(x.who)
      \/ /\ x.kind \notin {"invite", "revoke"}
         /\ IF x.kind \in {"accept", "decline", "leave"}
            THEN members[x.who].state # "none"
            ELSE members[x.who].state = "accepted"
         /\ x.asked.epoch = members[x.who].epoch

NeedsCreate(kind) == kind \notin {"accept", "decline", "leave"}

\* The page sends what it shows: revision, attempt, epochs.  seen is the
\* content of the preview the person reviewed, if there was one.
AskShared(c, u, kind, settings, seen, renew, target) ==
  /\ Spend(kind) /\ ~Frozen
  /\ May(u, IF kind \in {"accept", "decline", "leave", "revoke"}
            THEN "exports.view" ELSE "exports.create")
  /\ IF kind = "create" THEN u = Author ELSE session # Nil
  /\ renew => session.current # 0
  /\ Begin(c, u, kind,
       IF kind = "create" THEN [settings |-> settings]
       ELSE [settings |-> settings, rev |-> session.rev, attempt |-> session.current,
             seen |-> seen, renew |-> renew, epoch |-> members[u].epoch,
             target |-> target, targetEpoch |-> members[target].epoch])
  /\ UNCHANGED <<sharedByOthers, sessionVars>>

\* protectAuthority and the second check of a write, before any transaction.
EnterShared(c) ==
  /\ At(c, "asked") /\ calls[c].kind \in SessionOps /\ SharedGranted(c)
  /\ IF May(Who(c), "exports.view") /\ (NeedsCreate(calls[c].kind) => May(Who(c), "exports.create"))
     THEN Goes(c, "entered") ELSE End(c)
  /\ UNCHANGED <<sharedByOthers, sessionVars, left>>

\* The author's creation key names one session: a second creation with it
\* returns the first, or a conflict.
Create(c) ==
  /\ At(c, "entered") /\ calls[c].kind = "create"
  /\ session' = IF Frozen \/ session # Nil THEN session
                ELSE [owner |-> Who(c), settings |-> calls[c].asked.settings,
                      rev |-> 1, current |-> 0, result |-> Nil]
  /\ End(c) /\ UNCHANGED <<attempts, members, sharedByOthers, left>>

-----------------------------------------------------------------------------
\* The call has the session lock and its request is still about the session
\* as it is.  Anything else is answered with an error that changes nothing.
Locked(c, kind) == /\ At(c, "entered") /\ calls[c].kind = kind /\ DeskFree

UpToDate(c) == HasAccess(c) /\ calls[c].asked.rev = session.rev

Refuse(c) == End(c) /\ UNCHANGED <<sessionVars, sharedByOthers, left>>

\* Mutant: the attempt before is left as it is.
SupersededNever == attempts

\* The attempt that is no longer current.
Superseded ==
  IF session.current = 0 THEN attempts
  ELSE [attempts EXCEPT ![session.current].state = "superseded"]

Save(c) ==
  /\ Locked(c, "save")
  /\ IF /\ UpToDate(c) /\ session.result = Nil /\ ~Frozen
        /\ calls[c].asked.settings # session.settings
     THEN /\ attempts' = Superseded
          /\ session' = [session EXCEPT !.settings = calls[c].asked.settings,
                                        !.rev = @ + 1, !.current = 0]
          /\ End(c) /\ UNCHANGED <<members, sharedByOthers, left>>
     ELSE Refuse(c)

\* An existing attempt is returned unless the request replaces it; otherwise
\* the products are previewed, and must be what the person reviewed.  That is
\* a read-only transaction, which the cutover does not refuse.  Products that
\* are not ready end the call too.
Preview(c) ==
  /\ Locked(c, "prepare")
  /\ LET a == calls[c].asked
     IN  \/ /\ UpToDate(c) /\ session.result = Nil
            /\ session.current = (IF a.renew THEN a.attempt ELSE 0)
            /\ a.seen \in {Nil, inputs}
            /\ calls' = [calls EXCEPT ![c].pc = "previewed", ![c].asked.seen = inputs]
         \/ End(c)
  /\ UNCHANGED <<sessionVars, sharedByOthers, left>>

Prepare(c) ==
  /\ At(c, "previewed")
  /\ IF Frozen THEN Refuse(c)
     ELSE /\ attempts' = Append(Superseded, [rev |-> session.rev, settings |-> session.settings,
                                             content |-> calls[c].asked.seen, state |-> "prepared"])
          /\ session' = [session EXCEPT !.current = Len(attempts) + 1]
          /\ End(c) /\ UNCHANGED <<members, sharedByOthers, left>>

-----------------------------------------------------------------------------
\* An attempt that was captured before is answered with its snapshot.
Generate(c) ==
  /\ Locked(c, "generate")
  /\ IF /\ UpToDate(c) /\ session.current = calls[c].asked.attempt
        /\ session.current # 0 /\ Attempt.state # "superseded"
        /\ session.result = Nil /\ ~Frozen
     THEN /\ attempts' = [attempts EXCEPT ![session.current].state = "executing"]
          /\ Goes(c, "capture") /\ UNCHANGED <<session, members, sharedByOthers, left>>
     ELSE Refuse(c)

\* Mutant: only the settings of the attempt are compared.
StillAsked == Attempt.settings = session.settings

\* What the transaction reads is what the attempt was prepared from.
StillReviewed == Attempt.content = inputs

\* createExportSnapshot on the same connection: it takes the authority lock
\* once more, opens its repeatable-read transaction and compares what it
\* reads with what the attempt was prepared from.  A preview proof that
\* expired, or products not ready, refuse it too (a fault).
Capture(c) ==
  /\ At(c, "capture") /\ SharedGranted(c)
  /\ \/ /\ IF ~Frozen /\ StillReviewed
           THEN calls' = [calls EXCEPT ![c].pc = "commit", ![c].asked.seen = inputs]
           ELSE Goes(c, "recheck")
        /\ UNCHANGED left
     \/ Goes(c, "recheck") /\ Spend("fault")
  /\ UNCHANGED <<sessionVars, sharedByOthers>>

\* The snapshot, the attempt and the session commit together.  The captured
\* rows may have changed since (40001), and the answer to COMMIT may be lost.
Publish(c) ==
  /\ session' = [session EXCEPT !.result =
                   [attempt |-> session.current, settings |-> Attempt.settings,
                    content |-> calls[c].asked.seen, confirmed |-> FALSE]]
  /\ attempts' = [attempts EXCEPT ![session.current].state = "succeeded"]

CommitCapture(c) ==
  /\ At(c, "commit")
  /\ \/ Publish(c) /\ End(c) /\ UNCHANGED left
     \/ Publish(c) /\ Goes(c, "recheck") /\ Spend("fault")
     \/ /\ calls[c].asked.seen # inputs /\ Goes(c, "recheck")
        /\ UNCHANGED <<session, attempts, left>>
  /\ UNCHANGED <<members, sharedByOthers>>

\* The catch of generate reads the session again before it calls the
\* attempt failed; that transaction is refused too while writes are frozen.
Recheck(c) ==
  /\ At(c, "recheck")
  /\ attempts' = IF session.result # Nil \/ Frozen THEN attempts
                 ELSE [attempts EXCEPT ![session.current].state = "failed"]
  /\ End(c) /\ UNCHANGED <<session, members, sharedByOthers, left>>

\* The file was delivered.  Confirming again changes nothing.
Confirm(c) ==
  /\ Locked(c, "confirm")
  /\ IF HasAccess(c) /\ session.result # Nil /\ ~Frozen
     THEN /\ session' = [session EXCEPT !.result.confirmed = TRUE]
          /\ End(c) /\ UNCHANGED <<attempts, members, sharedByOthers, left>>
     ELSE Refuse(c)

-----------------------------------------------------------------------------
Changed(m, state) == [state |-> state, epoch |-> m.epoch + 1]

Invite(c) ==
  /\ Locked(c, "invite")
  /\ LET t == calls[c].asked.target
     IN  IF /\ HasAccess(c) /\ ~Owns(t) /\ ~Frozen
            /\ users[t].status = "active" /\ members[t].state \notin {"pending", "accepted"}
         THEN /\ members' = [members EXCEPT ![t] = Changed(@, "pending")]
              /\ End(c) /\ UNCHANGED <<session, attempts, sharedByOthers, left>>
         ELSE Refuse(c)

NextState(kind) ==
  CASE kind = "accept" -> "accepted" [] kind = "decline" -> "declined"
    [] kind = "leave" -> "left"      [] kind = "revoke" -> "revoked"

\* A member answers or leaves; the owner revokes the membership shown.
Membership(c) ==
  \E kind \in {"accept", "decline", "leave", "revoke"} :
    /\ Locked(c, kind)
    /\ LET t == IF kind = "revoke" THEN calls[c].asked.target ELSE Who(c)
           m == members[t]
       IN  IF /\ HasAccess(c) /\ ~Owns(t) /\ ~Frozen
              /\ m.state \notin {"none", NextState(kind)}
              /\ kind = "revoke" => m.epoch = calls[c].asked.targetEpoch
              /\ kind \in {"accept", "decline"} => m.state = "pending"
              /\ kind = "leave" => m.state = "accepted"
           THEN /\ members' = [members EXCEPT ![t] = Changed(@, NextState(kind))]
                /\ End(c) /\ UNCHANGED <<session, attempts, sharedByOthers, left>>
           ELSE Refuse(c)

SessionStep(c) ==
  \/ EnterShared(c) \/ Create(c) \/ Save(c) \/ Preview(c) \/ Prepare(c)
  \/ Generate(c) \/ Capture(c) \/ CommitCapture(c) \/ Recheck(c)
  \/ Confirm(c) \/ Invite(c) \/ Membership(c)

AskSession(c) ==
  \E u \in Users :
    \/ \E s \in Settings, kind \in {"create", "save"} :
         AskShared(c, u, kind, s, Nil, FALSE, u)
    \/ \E seen \in {Nil, inputs}, renew \in BOOLEAN :
         AskShared(c, u, "prepare", Nil, seen, renew, u)
    \/ \E kind \in {"generate", "confirm"} : AskShared(c, u, kind, Nil, Nil, FALSE, u)
    \/ \E t \in Users \ {u}, kind \in {"invite", "revoke"} :
         AskShared(c, u, kind, Nil, Nil, FALSE, t)
    \/ \E kind \in {"accept", "decline", "leave"} :
         AskShared(c, u, kind, Nil, Nil, FALSE, u)

=============================================================================
