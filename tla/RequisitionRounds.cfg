CONSTANTS
  o = o
  a = a
  full = full
  l1 = l1
  Owner = o
  Users <- TwoUsers
  Writers <- RequesterOnly
  Assignable <- TwoUsers
  Headers <- FullHeader
  ReadyHeaders <- FullHeader
  Lines <- OneVersion
  ReadyLines <- OneVersion
  MaxRound = 2
  MaxMailRound = 2
  MaxMails = 2
SPECIFICATION RoundsSpec
CHECK_DEADLOCK FALSE
INVARIANTS
  StageIsDecided
  DecisionsAreOfThisRound
  NoApprovalWithoutReview
  WaitingIsUndecided
  TimelineShowsStatus
  MailsKeepUp
PROPERTIES
  DecisionsClearOnlyByRound
