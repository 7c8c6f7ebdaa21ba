------------------------- MODULE MCEntityController -------------------------
(* Small instances of EntityController.                                     *)
EXTENDS EntityController

CONSTANTS n1, n2, a1, a2, v1, v2

E(ident, settings, own, install) ==
  [ident |-> ident, settings |-> settings, own |-> own, install |-> install]

\* Organizations keep their names, which are their own: nothing in the code
\* renames one, and the second of a name adopts what the first has made.  The user
\* of the first one changes its credentials.
Organizations == [n \in Names |->
  IF n = n1 THEN {E(a1, v, FALSE, "no") : v \in Settings} ELSE {E(a2, v1, FALSE, "no")}]

\* The first repository is renamed, to the name of the second and back, and then
\* has, or has not, a webhook secret of its own.
Repositories == [n \in Names |->
  IF n = n1
  THEN {E(a1, v1, TRUE, "default"), E(a2, v1, FALSE, "default")}
  ELSE {E(a2, v1, FALSE, "no")}]

Users == [k \in Kinds |-> IF k = "organization" THEN Organizations ELSE Repositories]

\* An organization that its user renames.
Renamers == [k \in Kinds |-> [n \in Names |-> {E(a, v1, FALSE, "default") : a \in Idents}]]

\* The user sets or drops the webhook secret.
SecretUsers == [k \in Kinds |-> [n \in Names |-> {E(a1, v1, own, "default") : own \in BOOLEAN}]]

None == {}
=============================================================================
