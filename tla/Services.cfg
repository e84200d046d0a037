CONSTANTS
  linkTester = linkTester
  formTester = formTester
  accessibilityReviewer = accessibilityReviewer
  PlanJob = PlanJob
  Missions <- AllThree
  Required <- LinkAndForm
  MaxAttempts <- MCMaxAttempts
  Cancellers = {}
  Concurrency = 1
  MaxFaults <- OneCrash
  c1 = c1  c2 = c2
  Checkouts = {c1, c2}
  Handlers = {h1, h2}
  a1 = a1  a2 = a2  a3 = a3
  Requests = {a1, a2, a3}
  Plans <- MCPlans
  BillingCases <- MCBillingCases
  Users = {"ann", "bob", "eve"}
  Visits = {"v1", "v2", "v3", "v4", "v5"}
  TeamLimit = {2}
  MemberCases <- MCMemberCases
  w1 = w1  w2 = w2  t1 = t1  t2 = t2
  Homes = {w1, w2}
  Repositories = {r1, r2}
  Tickets = {t1, t2}
  Servers = {s1, s2}
  ConnectionCases <- MCConnectionCases
  Calls = {q1, q2, q3}
  Webs = {w1, w2}
  RateLimitMax = 1
  WindowLength = 2
  RateCases <- MCRateCases
SPECIFICATION ServicesSpec
CHECK_DEADLOCK FALSE
INVARIANTS
  ServicesTypes
  RowFollowsStripe
  LimitsHoldUnlessRaced
  MembershipIsGranted
  ConnectionIsTrue
  RateIsLimited
PROPERTY
  KeepsPromise
