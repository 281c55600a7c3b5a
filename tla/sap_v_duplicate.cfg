CONSTANTS
  Key = {k1}
  Request = {r1}
  Worker = {w1, w2}
  MaxRetries = 2
  MaxSubmits = 2
  Faults = {}
  Serial = FALSE
  None = none
SPECIFICATION Spec
CHECK_DEADLOCK FALSE
INVARIANT AtMostOneDocument
