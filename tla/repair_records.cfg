CONSTANTS
  r1 = r1
  r2 = r2
  Request = {r1, r2}
  RoleOf <- Roles
  Activity = {a1}
  Part = {p1, p2}
  Material = {filter, overlong}
  Oversized = {overlong}
  MaxQuantity = 2
  Invoice = {i1, i2}
  MaxEnds = 3
  MaxOverlaps = 1
SPECIFICATION Spec
SYMMETRY Symmetric
CHECK_DEADLOCK FALSE
INVARIANTS
  TypeOK
  RecordedAgainByOverlap
  HistoryIsOfTheOrder
  ClosedIsWhole
