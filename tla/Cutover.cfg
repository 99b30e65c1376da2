SPECIFICATION Spec
CONSTANTS
  None = None
  torn = torn
  Torn = {torn}
  w1 = w1
  w2 = w2
  w3 = w3
  b1 = b1
  b2 = b2
  p1 = p1
  p2 = p2
  p3 = p3
  Commits = {w1, w2, w3}
  Backups = {b1, b2}
  Recoveries = {p1, p2, p3}
INVARIANT TypeOK
INVARIANT NoCommitIsLost
INVARIANT LogBelongsToTarget
SYMMETRY Symmetric
