CONSTANTS
  Workers = {w1}
  Operators = {}
  NoProc = none
  Inputs = {a, b}
  Absent = absent
  Foreign = foreign
  Fields = {1}
  LinkFields = {}
  MaxJobs = 4
  Budgets <- StopEvents
  Lanes = {l1}
  Photos = {p1}
  NoPhoto = nophoto
  MaxIntents = 2
  MaxMedia = 1
SPECIFICATION FairShop
CHECK_DEADLOCK FALSE
PROPERTIES
  HideIsSettled
  RestoreIsSettled
  MediaIsSettled
