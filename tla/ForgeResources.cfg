SPECIFICATION FairSpec
CONSTANTS
  n1 = n1
  s1 = s1  s2 = s2
  v1 = v1  v2 = v2
  Kinds = {"endpoint", "credentials", "template"}
  Names = {n1}
  Shapes = {s1, s2}
  Settings = {v1, v2}
  Secrets = {t1, t2}
  Wanted <- Edited
  Preexisting <- LeftOver
  Disruptive = {"fault", "crash", "user", "refs", "garmEdit", "garmDelete"}
  MaxObjects = 5
  MaxDisruptions = 3
  Absent = Absent
  Nobody = Nobody
INVARIANT TypeOK
INVARIANT FinalizerInv
INVARIANT RecordInv
PROPERTY KeepsCustody
PROPERTY DeletionCompletes
PROPERTY Settles
CHECK_DEADLOCK FALSE
