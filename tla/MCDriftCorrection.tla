------------------------- MODULE MCDriftCorrection -------------------------
(* Small instances of DriftCorrection.                                      *)
EXTENDS DriftCorrection, TLC

CONSTANTS n1, n2

Ctx(ks, v) == [k \in ks |-> v]
Object(ctx) == [type |-> "object", ctx |-> ctx]
Scalar == [type |-> "scalar", ctx |-> NoContext]
P(size, tags, extra, tpl) ==
  [size |-> size, tags |-> tags, extraSpecs |-> extra, template |-> tpl]

\* A Pool with a key of its own, with something that is not an object, and with
\* nothing; with the template and without.
Pools ==
  {P("a", <<2, 1>>, Object(Ctx({"k1"}, "a")), TRUE), P("b", <<>>, Nothing, FALSE),
   P("a", <<1>>, Scalar, TRUE)}

\* The second ServerSettings is there to disagree.
Settings(n) ==
  IF n = n1 THEN {[url |-> "a", ca |-> TRUE], [url |-> Unset, ca |-> TRUE], [url |-> "a", ca |-> FALSE]}
            ELSE {[url |-> "b", ca |-> FALSE]}

Users == [k \in Kinds |-> [n \in Names |->
            IF k = "settings" THEN Settings(n) ELSE IF n = n1 THEN Pools ELSE {}]]

\* Missing, Ready with a key from the Secret, Ready under another id.
T(id, ready, ctx) == [id |-> id, ready |-> ready, ctx |-> ctx]
AllTemplates ==
  {T(0, FALSE, NoContext), T(1, TRUE, Ctx({"k1"}, "b") @@ Ctx({"k2"}, FromSecret)),
   T(2, TRUE, NoContext)}

G(size, tags, extra, tpl) ==
  [size |-> size, tags |-> tags, extraSpecs |-> extra, template |-> tpl]
Drifted == [k \in Kinds |->
  IF k = "pool" THEN {G("a", <<1, 2>>, Nothing, 0), G("b", <<1>>, Object(Ctx({"k1"}, "b")), 2)}
  ELSE {[url |-> "a", caBundle |-> Empty], [url |-> "b", caBundle |-> "b"]}]
=============================================================================
