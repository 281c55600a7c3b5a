CONSTANTS
  Key = {k1}
  Request = {r1, r2}
  Worker = {w1, w2}
  MaxRetries = 1
  MaxSubmits = 3
  Faults = {"rollback", "lost"}
  Serial = FALSE
  None = none
SPECIFICATION FairSpec
CHECK_DEADLOCK FALSE
PROPERTIES
  RetryableIsTaken
  EveryoneFinishes
