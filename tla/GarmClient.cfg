SPECIFICATION FairSpec
CONSTANTS
  c1 = c1  c2 = c2
  Callers = {c1, c2}
  MaxDisruptions = 3
  Nobody = Nobody
INVARIANT TokenInv
INVARIANT RetryIsFresh
PROPERTY NeverBackwards
PROPERTY EveryCallEnds
CHECK_DEADLOCK FALSE
