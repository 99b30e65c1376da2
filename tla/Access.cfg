CHECK_DEADLOCK FALSE
SPECIFICATION PushSpec
CONSTANTS
  None = None
  r1 = r1
  r2 = r2
  p1 = p1
  n1 = n1
  n2 = n2
  o1 = o1
  o2 = o2
  k1 = k1
  k2 = k2
  Requests = {r1, r2}
  Refreshes = {p1}
  Tokens <- TwoTokens
  Bindings <- ThreeBindings
  Names = {n1, n2}
  Owners = {o1, o2}
  Keys = {k1, k2}
  Skew = 0
  Lifetime = 2
  Cooldown = 1
  MaxTime = 2
  MaxChanges = 2
SYMMETRY Symmetric
INVARIANT TypeOK
INVARIANT TokenAuthorizesOnce
INVARIANT AuthorizedByGithub
INVARIANT MetadataWasTrueWhenVerified
INVARIANT KeysAreRecent
INVARIANT UnknownKeyWasLookedUp
