CONSTANTS
  f1 = f1
  f2 = f2
  r1 = r1
  r2 = r2
  NoBatch = NoBatch
  NoFinding = NoFinding
  Findings = {f1, f2}
  Requests = {r1}
  Selected <- MCSelected
  Retries = {x1}
  Attempts = 3
  SearchLag = FALSE
  MaxFaults <- NoFaults
SPECIFICATION Spec
CHECK_DEADLOCK FALSE
INVARIANT RetryRuns
