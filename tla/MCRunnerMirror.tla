--------------------------- MODULE MCRunnerMirror ---------------------------
(* Small instances of RunnerMirror.                                         *)
EXTENDS RunnerMirror

CONSTANTS p1, i1, i2, n1, n2, u1

OnePool == [i \in Instances |-> p1]

\* Names short enough to be used whole.
Short == [i \in Instances |-> IF i = i1 THEN n1 ELSE n2]

\* Names of a pool so long that what tells its instances apart is cut off.
Cut == [i \in Instances |-> n1]
Whole == [i \in Instances |-> IF i = i1 THEN u1 ELSE n2]
=============================================================================
