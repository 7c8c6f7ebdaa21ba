SPECIFICATION FairSpec
CONSTANTS
  p1 = p1
  i1 = i1  i2 = i2
  n1 = n1  n2 = n2  u1 = u1
  Pools = {p1}
  Instances = {i1}
  Home <- OnePool
  Names = {n1, u1}
  MirrorName <- Short
  PlainName <- Short
  Strays = {u1}
  Disruptive = {"fault", "crash", "user"}
  Statuses = {"pending", "idle"}
  MaxDisruptions = 1
  Absent = Absent
  Nobody = Nobody
INVARIANT TypeOK
INVARIANT MirrorInv
PROPERTY LiveMirrorsStay
PROPERTY MirrorsSettle
CHECK_DEADLOCK FALSE
