--------------------------- MODULE MCForgeResource ---------------------------
(* A small instance of ForgeResource.                                       *)
EXTENDS ForgeResource

CONSTANTS n1, s1, s2, v1, v2

R(shape, settings, sealed) == [shape |-> shape, settings |-> settings, sealed |-> sealed]

\* An endpoint may do without a CA bundle; credentials may move to another
\* endpoint; a template may change its operating system.
Edited == [k \in Kinds |->
  CASE k = "endpoint"    -> {R(s1, v1, FALSE), R(s1, v1, TRUE), R(s1, v2, TRUE)}
    [] k = "credentials" -> {R(s1, v1, TRUE), R(s1, v2, TRUE), R(s2, v1, TRUE)}
    [] k = "template"    -> {R(s1, v1, FALSE), R(s1, v2, FALSE), R(s2, v1, FALSE)}]

\* Something made by hand before the operator was installed.
LeftOver == {[name |-> n1, shape |-> s1, settings |-> v2, secret |-> Absent]}
=============================================================================
