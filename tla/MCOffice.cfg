CONSTANTS
  Users = {u1, u2}
  Author = u1
  Calls = {c1, c2}
  Keys = {k1}
  Goods <- TwoGoods
  Settings = {s1, s2}
  Contents = {x, y}
  Duties <- SomeDuties
  Nil = nil
  Days <- OfficeDays
SPECIFICATION OfficeSpec
SYMMETRY Symmetric
CHECK_DEADLOCK FALSE
INVARIANTS
  OfficeTypeOK
  SomeAdministrator
  SomeCallGoesOn
PROPERTIES
  OnlyTheEntitledWrite
  SharedExportSpec
  CreationBookSpec
