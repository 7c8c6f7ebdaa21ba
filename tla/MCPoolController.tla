------------------------ MODULE MCPoolController ------------------------
(* Small instances of PoolController.                                       *)
EXTENDS PoolController

CONSTANTS p1, p2, s1, s2, x1, x2, v1, v2, r1, r2

W(scope, prefix, settings, enabled) ==
  [scope |-> scope, prefix |-> prefix, settings |-> settings, enabled |-> enabled]

\* Each user changes the settings, and each Pool has a prefix of its own.
OwnPrefixes == [p \in Names |->
  {W(s1, IF p = p1 THEN x1 ELSE x2, v, TRUE) : v \in Settings}]

\* One Pool whose prefix and settings stay what they are.
Fixed == [p \in Names |-> {W(s1, IF p = p1 THEN x1 ELSE x2, v1, TRUE)}]

\* The user may also switch a Pool off.
Switched == [p \in Names |->
  {W(s1, IF p = p1 THEN x1 ELSE x2, v1, e) : e \in BOOLEAN}]

\* The user may rename the prefix and move the Pool to another scope.
Moving == [p \in Names |->
  {W(s, x, v1, TRUE) : s \in Scopes, x \in Prefixes}]

None == {}

\* A pool made by hand before the operator was installed.
LeftOver == {W(s1, x1, v2, TRUE)}
=============================================================================
