CONSTANTS
  linkTester = linkTester
  formTester = formTester
  accessibilityReviewer = accessibilityReviewer
  PlanJob = PlanJob
  Missions <- LinkAndForm
  Required <- LinkAndForm
  MaxAttempts <- MCMaxAttempts
  Cancellers = {c1}
  Concurrency = 3
  MaxFaults <- NoFaults
SPECIFICATION Spec
CHECK_DEADLOCK FALSE
INVARIANTS CancelledOnlyOnRequest NoStrandedPlannedAudit
PROPERTY CompletedMissionIsFinal
