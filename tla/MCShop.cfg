CONSTANTS
  Workers = {w1}
  Operators = {}
  NoProc = none
  Inputs = {a, b}
  Absent = absent
  Foreign = foreign
  Fields = {1}
  LinkFields = {}
  MaxJobs = 3
  Budgets <- ShopEvents
  Lanes = {l1}
  Photos = {p1}
  NoPhoto = nophoto
  MaxIntents = 2
  MaxMedia = 2
SPECIFICATION ShopSpec
CONSTRAINT ThreeDecisions
CHECK_DEADLOCK FALSE
INVARIANTS
  ShopTypeOK
  OneAuthority
  InFlightIsUnresolved
  HiddenWhileArchived
  EnableIsCurrent
  GalleryIsTheSet
PROPERTIES
  ShopLedgerSpec
  RestoreIsCurrent
