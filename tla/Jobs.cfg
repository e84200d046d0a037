CONSTANTS
  RoleCount = 6
  MaxAgents = 3
  MaxConcurrent = 2
  Budget <- MCBudget
  AgentUses <- MCAgentUses
  MaxFaults = 2
  m1 = m1  m2 = m2  print1 = print1  print2 = print2
  Reporters = {m1, m2}
  k1 = k1  k2 = k2
  Cleaners = {k1, k2}
  BatchSize = 1
  Scenarios <- MCScenarios
  Targets <- MCTargets
  MaxLinks = 2
  MaxInteractions = 2
  Destructive = {"delete"}
  Folded <- MCFolded
  PlanningCases <- MCPlanningCases
  Replies <- MCReplies
  Secrets = {"sk_1"}
  SensitiveNames = {"token", "key", "code"}
  Caps <- MCCaps
SPECIFICATION JobsSpec
CHECK_DEADLOCK FALSE
INVARIANTS
  JobsTypes
  ConcurrencyBounded
  ReportAddsUp
  FindingsAreCounted
  ObjectsAndRowsAgree
  MissionIsExact
  PromptIsClean
  PlanIsCarriedOut
  PlanTellsItsSource
PROPERTIES
  RunIsTheLastWord
  SwarmSettles
  DueIsDeleted
