CONSTANTS
  a = a
  p = p
  e = e
  d1 = d1
  d2 = d2
  Users <- Everyone
  Deciders <- Purchasing
  Admins <- AdminOnly
  Removers <- AdminOnly
  Approvers <- AdminOnly
  Details <- TwoVersions
  MaxRequests = 3
SPECIFICATION Spec
CHECK_DEADLOCK FALSE
INVARIANTS
  MarkIsTheRequest
  BlacklistIsCountersigned
  ApprovalsAlternate
PROPERTIES
  DualControlled
