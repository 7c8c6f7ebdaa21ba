SPECIFICATION FairSpec
CONSTANTS
  p1 = p1
  i1 = i1  i2 = i2
  n1 = n1  n2 = n2  u1 = u1
  Pools = {p1}
  Instances = {i1, i2}
  Home <- OnePool
  Names = {n1, n2, u1}
  MirrorName <- Cut
  PlainName <- Whole
  Strays = {}
  Disruptive = {}
  Statuses = {"idle"}
  MaxDisruptions = 0
  Absent = Absent
  Nobody = Nobody
PROPERTY MirrorsSettle
CHECK_DEADLOCK FALSE
