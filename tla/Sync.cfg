SPECIFICATION Spec
CONSTANTS
  None = None
  p1 = p1
  p2 = p2
  repo1 = repo1
  user1 = user1
  Processes = {p1, p2}
  Repositories = {repo1}
  Users = {user1}
  Deliveries = {1, 2}
  PageSize = 1
  WorkLease = 2
  InitialRetry = 1
  MaximumRetry = 2
  MaximumAttempts = 2
  RepairInterval = 2
  EntitlementTTL = 2
  MaxTime = 5
SYMMETRY Symmetric
CHECK_DEADLOCK FALSE
INVARIANT ShownOnlyWhenInstalled
INVARIANT FullListingIsCurrent
INVARIANT ProcessedIsProjected
INVARIANT RevocationTakesEffect
PROPERTY ServesQueue
