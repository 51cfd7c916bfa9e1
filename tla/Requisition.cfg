CONSTANTS
  o = o
  w = w
  a = a
  bare = bare
  full = full
  none = none
  l1 = l1
  l2 = l2
  Owner = o
  Users <- AllUsers
  Writers <- WriterOnly
  Assignable <- OtherUser
  Headers <- AllHeaders
  ReadyHeaders <- FullHeader
  Lines <- AllLines
  ReadyLines <- SomeLines
  MaxRound = 2
SPECIFICATION Spec
SYMMETRY Symmetry
CHECK_DEADLOCK FALSE
INVARIANTS
  ApprovedIsWhatWasSigned
