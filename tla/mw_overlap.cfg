CONSTANTS
  Request = {r1, r2}
  MaxFaults = 1
  MaxOrders = 1
  MaxAssignments = 0
  MaxMaterials = 0
  Scope = {"technician", "lines", "sync", "manual", "decommission"}
SPECIFICATION Spec
SYMMETRY Symmetric
CHECK_DEADLOCK FALSE
INVARIANT
  DriverWasAsked
