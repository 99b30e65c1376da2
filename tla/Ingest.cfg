SPECIFICATION Spec
CONSTANTS
  None = None
  r1 = r1
  r2 = r2
  r3 = r3
  k1 = k1
  k2 = k2
  g1 = g1
  pA = pA
  pB = pB
  x = x
  y = y
  u1 = u1
  t1 = t1
  t2 = t2
  o1 = o1
  q1 = q1
  Requests = {r1, r2}
  LocalKeys = {k1}
  GithubKeys = {g1}
  Commands <- Retried
  LocalLimits <- AmpleLocal
  GithubLimits <- AmpleGithub
  SharedInflight = 9
  Lease = 1
  Hour = 1
  Day = 2
  Tombstone = 2
  RawRetention = 1
  HistoryRetention = 2
  AttemptRetention = 9
  ChargeRetention = 9
  ReserveWithin = 4
  BatchSize = 9
  MaxTime = 2
SYMMETRY Symmetric
INVARIANT ClaimsAndRunsAgree
INVARIANT ClaimBindsRunContent
INVARIANT ChargesMatchGrants
INVARIANT AttemptsMatchRuns
PROPERTY AcceptsOnce
PROPERTY DeletionLeavesTombstone
PROPERTY TombstoneHolds
PROPERTY OnlyLeaseholderFinishes
