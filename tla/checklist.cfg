CONSTANTS
  Vehicle = {v1, v2}
  Driver = {d1}
  Inspection = {i1}
  Item = {good, bad}
  Failing = {bad}
  Day = {1, 2}
  Request = {r1, r2}
  NoChecklist = NoChecklist
  MaxFaults = 3
  MaxOverlaps = 2
  MaxEvents = 2
SPECIFICATION Spec
SYMMETRY Symmetric
CHECK_DEADLOCK FALSE
INVARIANTS
  TypeOK
  FaultIsItsChecklist
PROPERTIES
  SubmittedIsFinal
  LeavesClear
