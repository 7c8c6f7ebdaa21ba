SPECIFICATION Spec
CONSTANTS
  p1 = p1  p2 = p2
  s1 = s1  s2 = s2
  x1 = x1  x2 = x2
  v1 = v1  v2 = v2
  r1 = r1  r2 = r2
  Names = {p1}
  Scopes = {s1}
  Prefixes = {x1}
  Settings = {v1}
  Runners = {}
  Wanted <- Fixed
  Preexisting <- None
  Disruptive = {"user"}
  MaxPools = 2
  MaxDisruptions = 2
  Absent = Absent
  Nobody = Nobody
INVARIANT NoOrphanedPool
CHECK_DEADLOCK FALSE
