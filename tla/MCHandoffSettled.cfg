CONSTANTS
  Workers = {w1}
  Operators = {}
  NoProc = none
  Inputs = {a, b}
  Absent = absent
  Foreign = foreign
  Fields = {1}
  LinkFields = {}
  MaxJobs = 2
  Budgets <- PublishEvents
  Lanes = {l1}
  Photos = {p1}
  NoPhoto = nophoto
  MaxIntents = 0
  MaxMedia = 1
SPECIFICATION FairShop
CHECK_DEADLOCK FALSE
PROPERTIES
  HandoffIsSettled
