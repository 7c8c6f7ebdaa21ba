SPECIFICATION FairSpec
CONSTANTS
  n1 = n1  n2 = n2
  a1 = a1  a2 = a2
  v1 = v1  v2 = v2
  Kinds = {"organization", "repository"}
  Names = {n1, n2}
  Idents = {a1, a2}
  Settings = {v1, v2}
  Wanted <- Users
  Preexisting <- None
  Disruptive = {"fault", "crash", "user", "refs", "garmEdit", "garmDelete"}
  MaxEntities = 4
  MaxDisruptions = 2
  Absent = Absent
  Nobody = Nobody
INVARIANT TypeOK
INVARIANT FinalizerInv
INVARIANT ReadyMeansAppliedUnlessAdopted
INVARIANT NoSharedEntity
PROPERTY DeletesOnlyItsOwn
PROPERTY KeepsCustody
PROPERTY DeletionCompletes
PROPERTY AdoptionConverges
CHECK_DEADLOCK FALSE
