CONSTANTS
  o = o
  w = w
  a = a
  bare = bare
  full = full
  none = none
  l1 = l1
  l2 = l2
  Owner = o
  Users <- TwoUsers
  Writers <- RequesterOnly
  Assignable <- TwoUsers
  Headers <- FullHeader
  ReadyHeaders <- FullHeader
  Lines <- OneVersion
  ReadyLines <- OneVersion
  MaxRound = 1
SPECIFICATION Spec
CHECK_DEADLOCK FALSE
PROPERTIES ApprovalNeverRestored
