CONSTANTS
  f1 = f1
  f2 = f2
  r1 = r1
  r2 = r2
  NoBatch = NoBatch
  NoFinding = NoFinding
  Findings = {f1, f2}
  Requests = {r1, r2}
  Selected <- MCSelected
  Retries = {x1}
  Attempts = 2
  SearchLag = FALSE
  MaxFaults <- OneOfEach
SPECIFICATION Spec
CHECK_DEADLOCK FALSE
INVARIANTS TypeInvariant OneIssuePerFinding RowsBackedByIssues
  FinishedBatchIsSettled
