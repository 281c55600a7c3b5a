CONSTANTS
  Key = {k1, k2}
  Request = {r1}
  Worker = {w1}
  MaxRetries = 2
  MaxSubmits = 4
  Faults = {"crash", "empty"}
  Serial = TRUE
  None = none
SPECIFICATION Spec
CHECK_DEADLOCK FALSE
INVARIANTS
  EveryDocumentJournaled
PROPERTIES
  TerminalIsFinal
  PromiseKept
