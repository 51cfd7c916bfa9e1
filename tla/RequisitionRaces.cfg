CONSTANTS
  o = o
  a = a
  h = h
  l = l
  Owner = o
  Users <- TwoUsers
  Writers <- RequesterOnly
  Assignable <- OtherUser
  Headers <- OneHeader
  ReadyHeaders <- OneHeader
  Lines <- OneVersion
  ReadyLines <- OneVersion
  MaxRound = 1
  Requests <- AllRequests
SPECIFICATION RaceSpec
CHECK_DEADLOCK FALSE
INVARIANTS
  StatusIsEarned
  
