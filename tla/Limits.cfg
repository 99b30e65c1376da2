SPECIFICATION UploadsSpec
CONSTANTS
  None = None
  r1 = r1
  r2 = r2
  r3 = r3
  k1 = k1
  k2 = k2
  g1 = g1
  pA = pA
  pB = pB
  x = x
  y = y
  u1 = u1
  t1 = t1
  t2 = t2
  o1 = o1
  q1 = q1
  Requests = {r1, r2}
  LocalKeys = {k1, k2}
  GithubKeys = {g1}
  Commands <- Mixed
  LocalLimits <- TightLocal
  GithubLimits <- TightGithub
  SharedInflight = 1
  Lease = 1
  Hour = 1
  Day = 1
  Tombstone = 2
  RawRetention = 9
  HistoryRetention = 9
  AttemptRetention = 3
  ChargeRetention = 3
  ReserveWithin = 1
  BatchSize = 9
  MaxTime = 3
INVARIANT InflightWithinLimits
INVARIANT RatesWithinLimits
PROPERTY EveryRequestFinishes
INVARIANT ChargesMatchGrants
INVARIANT AttemptsMatchRuns
