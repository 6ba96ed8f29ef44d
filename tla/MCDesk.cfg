CONSTANTS
  Staff = {p1, p2}
  Calls = {c1, c2}
  Stock = 2
  MaxRows = 3
  MaxRequests = 1
  MaxBatches = 2
  MaxSnapshots = 3
  Prices = {a, b}
  Matrix = matrix
  Keys = {k1, k2}
  Nil = nil
  Days <- DeskDays
SPECIFICATION DeskSpec
SYMMETRY Symmetric
CHECK_DEADLOCK FALSE
INVARIANTS
  DeskTypeOK
  ChangeIsNeverLost
  KeyNamesOneSnapshot
PROPERTIES
  EarlierClaimIsSpent
  ReviewedIsWritten
  ActiveRequestIsNotOvertaken
  DraftIsWhatIsApplied
  ConfirmedNeverFalls
  PriceBookSpec
