CONSTANTS
  linkTester = linkTester
  formTester = formTester
  accessibilityReviewer = accessibilityReviewer
  PlanJob = PlanJob
  Missions <- AllThree
  Required <- LinkAndForm
  MaxAttempts <- MCMaxAttempts
  Cancellers = {}
  Concurrency = 3
  MaxFaults <- NoFaults
SPECIFICATION FairSpec
CHECK_DEADLOCK FALSE
INVARIANT CompletedAuditIsSound
PROPERTY AuditSettles
