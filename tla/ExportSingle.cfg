CONSTANTS
  f1 = f1
  f2 = f2
  r1 = r1
  r2 = r2
  NoBatch = NoBatch
  NoFinding = NoFinding
  Findings = {f1, f2}
  Requests = {r1}
  Selected <- MCSelected
  Retries = {x1}
  Attempts = 3
  SearchLag = TRUE
  MaxFaults <- TwoLost
SPECIFICATION FairSpec
CHECK_DEADLOCK FALSE
INVARIANT ExportsAreAccounted
PROPERTY JobsConclude
