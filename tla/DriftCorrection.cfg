SPECIFICATION FairSpec
CONSTANTS
  n1 = n1  n2 = n2
  Names = {n1, n2}
  Kinds = {"pool", "settings"}
  Values = {"a", "b"}
  Tags = {1, 2}
  Keys = {"k1", "k2"}
  Templates <- AllTemplates
  Wanted <- Users
  InGarm <- Drifted
  Disruptive = {"fault", "crash", "user", "refs", "garmEdit"}
  MaxDisruptions = 2
  Absent = Absent
  Nobody = Nobody
INVARIANT TypeOK
PROPERTY NoDowntime
PROPERTY OneUpdateIsEnough
PROPERTY Settles
PROPERTY GoesQuiet
CHECK_DEADLOCK FALSE
