---------------------------- MODULE SharedExport ----------------------------
(***************************************************************************)
(* What an export session promises whoever works on it: a result is made   *)
(* once, from the settings and the content of the latest review, and from  *)
(* then on neither it nor the settings change.  Editing the settings       *)
(* withdraws the review.                                                   *)
(***************************************************************************)
CONSTANTS Settings, Contents, Nil

VARIABLES settings, review, result, confirmed

exportVars == <<settings, review, result, confirmed>>

ExportInit == settings = Nil /\ review = Nil /\ result = Nil /\ confirmed = FALSE

Open(s) ==
  /\ settings = Nil /\ settings' = s
  /\ UNCHANGED <<review, result, confirmed>>

Edit(s) ==
  /\ settings # Nil /\ result = Nil /\ s # settings
  /\ settings' = s /\ review' = Nil
  /\ UNCHANGED <<result, confirmed>>

Review(content) ==
  /\ settings # Nil /\ result = Nil
  /\ review' = [settings |-> settings, content |-> content]
  /\ UNCHANGED <<settings, result, confirmed>>

Produce ==
  /\ result = Nil /\ review # Nil /\ review.settings = settings
  /\ result' = review
  /\ UNCHANGED <<settings, review, confirmed>>

Deliver ==
  /\ result # Nil /\ confirmed' = TRUE
  /\ UNCHANGED <<settings, review, result>>

ExportNext ==
  \/ \E s \in Settings : Open(s) \/ Edit(s)
  \/ \E content \in Contents : Review(content)
  \/ Produce \/ Deliver

ExportSpec == ExportInit /\ [][ExportNext]_exportVars

=============================================================================
