CONSTANTS
  a = a
  p = p
  d = d
  Users <- TwoUsers
  Deciders <- TwoUsers
  Admins <- AdminOnly
  Removers <- AdminOnly
  Approvers <- AdminOnly
  Details <- OneVersion
  MaxRequests = 2
  MaxFlight = 2
  Calls <- JustEdit
SPECIFICATION RaceSpec
CHECK_DEADLOCK FALSE
PROPERTIES
  NobodyBlacklistsAlone
