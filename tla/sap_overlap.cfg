CONSTANTS
  Key = {k1}
  Request = {r1, r2}
  Worker = {w1, w2}
  MaxRetries = 2
  MaxSubmits = 3
  Faults = {"rollback", "crash", "lost", "empty"}
  Serial = FALSE
  None = none
SPECIFICATION Spec
CHECK_DEADLOCK FALSE
SYMMETRY Symmetric
INVARIANTS
  TypeOK
  NumbersAreReal
  RetriesWereCalls
  RequestsCallExclusively
  CallsAreJournaled
