SPECIFICATION FairSpec
CONSTANTS
  Workers = {w1}
  Operators = {}
  NoProc = NoProc
  Inputs = {a, b}
  Absent = Absent
  Foreign = Foreign
  Fields = {1, 2}
  LinkFields = {2}
  MaxJobs = 4
  Budgets <- LiveEvents
PROPERTIES
  QueueDrains
  UnresolvedSurfaces
  ReceiptConsumed
