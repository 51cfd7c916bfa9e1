CONSTANTS
  a = a
  p = p
  d = d
  Users <- TwoUsers
  Deciders <- TwoUsers
  Admins <- AdminOnly
  Removers <- AdminOnly
  Approvers <- AdminOnly
  Details <- OneVersion
  MaxRequests = 1
  MaxFlight = 2
  Calls <- AllCalls
SPECIFICATION RaceSpec
CHECK_DEADLOCK FALSE
INVARIANTS
  
  BlacklistWasOnceCountersigned
