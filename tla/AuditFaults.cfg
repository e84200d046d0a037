CONSTANTS
  linkTester = linkTester
  formTester = formTester
  accessibilityReviewer = accessibilityReviewer
  PlanJob = PlanJob
  Missions <- LinkOnly
  Required <- LinkOnly
  MaxAttempts <- MCMaxAttempts
  Cancellers = {c1}
  Concurrency = 2
  MaxFaults <- OneOfEach
SPECIFICATION Spec
CHECK_DEADLOCK FALSE
INVARIANTS TypeInvariant AttemptsBounded CompletedHasReport
