SPECIFICATION Spec
CONSTANTS
  Workers = {w1}
  Operators = {o1}
  NoProc = NoProc
  Inputs = {a, b}
  Absent = Absent
  Foreign = Foreign
  Fields = {1, 2}
  LinkFields = {2}
  MaxJobs = 4
  Budgets <- FindingEvents
INVARIANTS
  UnresolvedKeepsExit
