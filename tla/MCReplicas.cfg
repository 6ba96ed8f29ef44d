SPECIFICATION Spec
CONSTANTS
  Workers = {w1, w2}
  Operators = {}
  NoProc = NoProc
  Inputs = {a, b}
  Absent = Absent
  Foreign = Foreign
  Fields = {1, 2}
  LinkFields = {2}
  MaxJobs = 4
  Budgets <- ReplicaEvents
INVARIANTS
  AtMostOnce
  RequestChecks
PROPERTIES
  LedgerSpec
SYMMETRY Symmetry
