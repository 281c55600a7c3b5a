CONSTANTS
  Plan = {p1, p2}
  DatedPlans = {p1, p2}
  Request = {r1}
  Worker = {w1}
  Resender = {g1, g2}
  MaxOrders = 2
  MaxRetries = 1
  MaxCrashes = 1
  Faults = {"refused", "rollback"}
SPECIFICATION FairSpec
CHECK_DEADLOCK FALSE
INVARIANTS
  TypeOK
  NotifiedAsAsked
PROPERTIES
  DueIsTriggered
