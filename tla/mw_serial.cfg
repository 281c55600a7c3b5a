CONSTANTS
  Request = {r1}
  MaxFaults = 2
  MaxOrders = 2
  MaxAssignments = 2
  MaxMaterials = 1
  Scope = {"manual", "exit", "close", "internal", "external", "technician", "lines", "decommission"}
SPECIFICATION Spec
CHECK_DEADLOCK FALSE
INVARIANTS
  TypeOK
  OneOpenFlow
  ExternalInStep
  PartsAreAwaited
  HandoverMatchesOrder
