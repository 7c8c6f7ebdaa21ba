SPECIFICATION FairSpec
CONSTANTS
  n1 = n1  n2 = n2
  a1 = a1  a2 = a2
  v1 = v1  v2 = v2
  Kinds = {"repository"}
  Names = {n1}
  Idents = {a1}
  Settings = {v1}
  Wanted <- SecretUsers
  Preexisting <- None
  Disruptive = {"user"}
  MaxEntities = 3
  MaxDisruptions = 1
  Absent = Absent
  Nobody = Nobody
PROPERTY Converges
CHECK_DEADLOCK FALSE
