CONSTANTS
  MaxSteps = 3
  MaxProviderCalls = 3
  MaxUses <- MCMaxUses
  MaxRejections = 2
  MaxNoProgress = 2
  MaxCost = 1
  Actions <- MCActions
  Places <- MCPlaces
  Resolve <- MCResolve
  Pages = {p1}
  Costs = {0, 2}
  MaxFaults = 1
  MaxCrashes = 1
SPECIFICATION FairSpec
CHECK_DEADLOCK FALSE
INVARIANTS TypeInvariant EffectsWithinBudgets RecordHasNoGap RecordTellsTheRun FindingsAreBacked LoopDoesNotInsist
PROPERTY OpenedRunSettles
