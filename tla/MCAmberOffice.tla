--------------------------- MODULE MCAmberOffice ----------------------------
(***************************************************************************)
(* A small instance of AmberOffice for TLC: every behaviour is given one   *)
(* of a few mixes of calls.                                                *)
(***************************************************************************)
EXTENDS AmberOffice, TLC

Nothing == [k \in Kinds |-> 0]

\* The session is made, edited, prepared and generated while the inputs
\* change and a capture fails.
ExportDay == [Nothing EXCEPT !["create"] = 1, !["save"] = 1, !["prepare"] = 2,
                             !["generate"] = 2, !["change"] = 1, !["fault"] = 1]

\* A member is invited, works on the session and loses access meanwhile.
SharingDay == [Nothing EXCEPT !["create"] = 1, !["invite"] = 1, !["accept"] = 1,
                              !["revoke"] = 1, !["prepare"] = 1, !["generate"] = 1,
                              !["confirm"] = 1]

\* Invitations are answered, left, revoked and renewed.
MemberDay == [Nothing EXCEPT !["create"] = 1, !["invite"] = 2, !["accept"] = 1,
                             !["decline"] = 1, !["leave"] = 1, !["revoke"] = 1]

\* One form is previewed, saved and cancelled by calls that overtake others.
CreationDay == [Nothing EXCEPT !["reserve"] = 1, !["sell"] = 2, !["cancel"] = 1,
                               !["change"] = 1]

\* Administrators act on each other.
AdminDay == [Nothing EXCEPT !["approve"] = 1, !["role"] = 1, !["disable"] = 2,
                            !["enable"] = 1]

\* Access changes and the cutover freezes writes while an export and a
\* creation are in flight.
MixedDay == [Nothing EXCEPT !["create"] = 1, !["prepare"] = 1, !["generate"] = 1,
                            !["sell"] = 1, !["disable"] = 1, !["duties"] = 1,
                            !["phase"] = 1, !["loss"] = 1]

OfficeDays == {ExportDay, SharingDay, MemberDay, CreationDay, AdminDay, MixedDay}

TwoGoods == {[category |-> "ring", answers |-> "a"], [category |-> "bead", answers |-> "b"]}
Symmetric == Permutations(Calls) \cup Permutations(Contents) \cup Permutations(Settings)

SomeDuties == {Ordinary, {"exports.view"}}

=============================================================================
