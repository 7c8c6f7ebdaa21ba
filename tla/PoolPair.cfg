SPECIFICATION Spec
CONSTANTS
  p1 = p1  p2 = p2
  s1 = s1  s2 = s2
  x1 = x1  x2 = x2
  v1 = v1  v2 = v2
  r1 = r1  r2 = r2
  Names = {p1, p2}
  Scopes = {s1}
  Prefixes = {x1, x2}
  Settings = {v1}
  Runners = {r1}
  Wanted <- Fixed
  Preexisting <- None
  Disruptive = {"fault", "user", "garmDelete"}
  MaxPools = 3
  MaxDisruptions = 3
  Absent = Absent
  Nobody = Nobody
INVARIANT NoStrandedRunner
INVARIANT NoSharedPool
INVARIANT IdentityInv
PROPERTY DeletesOnlyOnRequest
CHECK_DEADLOCK FALSE
