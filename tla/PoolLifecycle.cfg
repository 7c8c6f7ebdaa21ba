SPECIFICATION FairSpec
CONSTANTS
  p1 = p1  p2 = p2
  s1 = s1  s2 = s2
  x1 = x1  x2 = x2
  v1 = v1  v2 = v2
  r1 = r1  r2 = r2
  Names = {p1}
  Scopes = {s1}
  Prefixes = {x1}
  Settings = {v1, v2}
  Runners = {r1}
  Wanted <- OwnPrefixes
  Preexisting <- LeftOver
  Disruptive = {"fault", "crash", "user", "refs", "garmEdit", "garmDelete"}
  MaxPools = 4
  MaxDisruptions = 3
  Absent = Absent
  Nobody = Nobody
INVARIANT TypeOK
INVARIANT AtMostOnePool
INVARIANT NeverForgotten
INVARIANT FinalizerInv
PROPERTY CreateOnlyUnderFinalizer
PROPERTY RecordedPoolGoesFirst
PROPERTY KeepsCustody
PROPERTY DeletionCompletes
PROPERTY Converges
CHECK_DEADLOCK FALSE
