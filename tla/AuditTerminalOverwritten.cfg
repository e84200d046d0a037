CONSTANTS
  linkTester = linkTester
  formTester = formTester
  accessibilityReviewer = accessibilityReviewer
  PlanJob = PlanJob
  Missions <- LinkAndForm
  Required <- LinkAndForm
  MaxAttempts <- MCMaxAttempts
  Cancellers = {}
  Concurrency = 2
  MaxFaults <- NoFaults
SPECIFICATION Spec
CHECK_DEADLOCK FALSE
PROPERTY TerminalAuditIsFinal
