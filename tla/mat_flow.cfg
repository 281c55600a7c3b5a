CONSTANTS
  Request = {r1, r2}
  Line <- ThreeLines
  ItemLists <- BothLines
  ByHand <- OneByHand
  Number <- OneNumber
  EndsWith = {}
  Key = {"default"}
  MaxStock = 1
  MaxRequests = 2
  MaxRequisitions = 1
  MaxIssues = 2
  MaxReceipts = 1
  MaxRetries = 1
  MaxOverlaps = 1
  Scope = {"user", "stock", "cancel", "lines"}
SPECIFICATION Spec
SYMMETRY Symmetric
CHECK_DEADLOCK FALSE
INVARIANTS
  TypeOK
  IssuedIsOnRecord
  ReceiptFollowsDocument
  SAPHoldsNoMore
  BoughtIsRequisitioned
PROPERTY
  PausedIsAwaiting
