------------------------------ MODULE Custody ------------------------------
(***************************************************************************)
(* What every reconciler that keeps a GARM object for a resource promises,   *)
(* whatever its calls, caches and retries are: an object is made in GARM only *)
(* for a resource that is under the operator's guard and has no living object *)
(* on record; and the guard over a resource is given up, or its record         *)
(* replaced, only when the object on record is gone.                           *)
(***************************************************************************)
CONSTANTS
  Owners,     \* resources in Kubernetes
  Objects,    \* objects that GARM may hold
  Nothing     \* the record of a resource that has no object

VARIABLES
  guarded,    \* resources that cannot go away without the operator
  recorded,   \* the object each resource has on record
  alive       \* objects that GARM holds

custody == <<guarded, recorded, alive>>

TypeOK ==
  /\ guarded \subseteq Owners
  /\ recorded \in [Owners -> Objects \cup {Nothing}]
  /\ alive \subseteq Objects

Init ==
  /\ guarded = {}
  /\ recorded = [n \in Owners |-> Nothing]
  /\ alive \subseteq Objects

Guard(n) ==
  /\ n \notin guarded
  /\ guarded' = guarded \cup {n}
  /\ UNCHANGED <<recorded, alive>>

Create(n, i) ==
  /\ n \in guarded /\ recorded[n] \notin alive /\ i \notin alive
  /\ alive' = alive \cup {i}
  /\ UNCHANGED <<guarded, recorded>>

\* By the operator, by GARM's administrator, for whatever reason.
Destroy(i) ==
  /\ i \in alive
  /\ alive' = alive \ {i}
  /\ UNCHANGED <<guarded, recorded>>

Record(n, i) ==
  /\ n \in guarded /\ recorded[n] \notin alive
  /\ recorded' = [recorded EXCEPT ![n] = i]
  /\ UNCHANGED <<guarded, alive>>

Release(n) ==
  /\ n \in guarded /\ recorded[n] \notin alive
  /\ guarded' = guarded \ {n}
  /\ recorded' = [recorded EXCEPT ![n] = Nothing]
  /\ UNCHANGED alive

Next ==
  \/ \E n \in Owners : Guard(n) \/ Release(n)
  \/ \E n \in Owners, i \in Objects \cup {Nothing} : Record(n, i)
  \/ \E n \in Owners, i \in Objects : Create(n, i)
  \/ \E i \in Objects : Destroy(i)

Spec == Init /\ [][Next]_custody
=============================================================================
