CONSTANTS
  linkTester = linkTester
  formTester = formTester
  accessibilityReviewer = accessibilityReviewer
  PlanJob = PlanJob
  Missions <- LinkAndForm
  Required <- LinkAndForm
  MaxAttempts <- MCMaxAttempts
  Cancellers = {}
  Concurrency = 2
  MaxFaults <- OneRefusal
SPECIFICATION Spec
CHECK_DEADLOCK FALSE
INVARIANT NoStrandedAudit
