----------------------------- MODULE Kubernetes -----------------------------
(***************************************************************************)
(* What every reconciler of the operator has in common: the API server with *)
(* the resources of one kind, the informer cache and the work queue of       *)
(* controller-runtime, and one worker.                                       *)
(*                                                                          *)
(* The worker takes a name from the queue and reads the resource from the   *)
(* cache, which may be behind the API server.  Every write carries the      *)
(* version that was read and fails if the object has changed since          *)
(* (`fresh').  Writes are the last call of a reconciliation.                *)
(***************************************************************************)
EXTENDS Naturals

CONSTANTS
  Names,            \* names of resources of the kind
  Disruptive,       \* which kinds of DisruptionKinds may happen
  MaxDisruptions,   \* bound: disruptions in a behaviour
  Absent, Nobody

DisruptionKinds == {"fault", "crash", "user", "refs", "garmEdit", "garmDelete"}

ASSUME MaxDisruptionsAssumption == MaxDisruptions \in Nat
ASSUME DisruptiveAssumption == Disruptive \subseteq DisruptionKinds
ASSUME NobodyAssumption == Nobody \notin Names

VARIABLES
  cr,       \* the API server's resources
  cache,    \* the operator's informer cache of them
  stale,    \* names whose cached copy is behind the API server
  queue,    \* the work queue
  pc,       \* the call the worker makes next
  me,       \* the resource being reconciled
  obj,      \* the worker's in-memory copy, changed as Reconcile changes it
  fresh,    \* obj's resourceVersion is still the API server's
  budget    \* disruptions left

kube == <<cr, cache, stale, queue>>

Exists(n) == cr[n] # Absent

\* status.id of a resource that GARM is not known to hold.
NoId == 0

Disrupt(kind) == kind \in Disruptive /\ budget > 0 /\ budget' = budget - 1

-----------------------------------------------------------------------------
(* The worker.                                                              *)

\* Nothing is left to do for a resource that is gone or has lost the finalizer.
Finished(o) == o = Absent \/ (o.deleting /\ ~o.finalizer)

\* The worker takes n from the queue; its first remote call is `step'.
Take(n, step) ==
  /\ pc = "idle" /\ n \in queue
  /\ queue' = queue \ {n}
  /\ IF Finished(cache[n])
     THEN UNCHANGED <<pc, me, obj, fresh>>
     ELSE /\ pc' = step
          /\ me' = n
          /\ obj' = cache[n]
          /\ fresh' = (n \notin stale)
  /\ UNCHANGED <<cr, cache, stale, budget>>

\* A call from which the worker goes on to `step'.
Goto(step) == pc' = step /\ UNCHANGED <<me, fresh>>

Rest == pc' = "idle" /\ me' = Nobody /\ obj' = Absent /\ fresh' = FALSE

\* Reconcile returns an error or asks to be called again: after a back-off, a
\* delay or at once, the name is back in the queue.
Requeue == Rest /\ queue' = queue \cup {me}

\* A write of the whole object or of its status, followed by a requeue.  It
\* fails with a conflict if the object has changed since it was read, and may
\* fail for other reasons.  A write that changes nothing causes no event.
Write(o) ==
  /\ \/ /\ fresh
        /\ cr' = [cr EXCEPT ![me] = o]
        /\ stale' = IF o = cr[me] THEN stale ELSE stale \cup {me}
        /\ UNCHANGED budget
     \/ ~fresh /\ UNCHANGED <<cr, stale, budget>>
     \/ Disrupt("fault") /\ UNCHANGED <<cr, stale>>
  /\ Requeue
  /\ UNCHANGED cache

\* Removing the last finalizer of a resource that is being deleted removes the
\* resource.  Only then is the name not queued again.
Release ==
  /\ \/ /\ fresh
        /\ cr' = [cr EXCEPT ![me] = Absent]
        /\ stale' = stale \cup {me}
        /\ Rest /\ UNCHANGED <<queue, budget>>
     \/ ~fresh /\ Requeue /\ UNCHANGED <<cr, stale, budget>>
     \/ Disrupt("fault") /\ Requeue /\ UNCHANGED <<cr, stale>>
  /\ UNCHANGED cache

-----------------------------------------------------------------------------
(* The world around it.                                                     *)

\* The informer catches up with the API server; the event handler queues the name.
Refresh(n) ==
  /\ n \in stale
  /\ cache' = [cache EXCEPT ![n] = cr[n]]
  /\ stale' = stale \ {n}
  /\ queue' = queue \cup {n}
  /\ UNCHANGED <<cr, pc, me, obj, fresh, budget>>

\* Someone other than the worker makes the resource n what o is.
Change(n, o) ==
  /\ Disrupt("user")
  /\ cr' = [cr EXCEPT ![n] = o]
  /\ stale' = stale \cup {n}
  /\ fresh' = (fresh /\ me # n)
  /\ UNCHANGED <<cache, queue, pc, me, obj>>

\* What a deletion request leaves of o: a finalizer turns it into a request that
\* the operator must grant.
Deleted(o) ==
  IF o.finalizer THEN [o EXCEPT !.deleting = TRUE, !.current = FALSE] ELSE Absent

\* The operator's process dies; the next one lists everything afresh.
Restart ==
  /\ Disrupt("crash")
  /\ Rest
  /\ cache' = cr
  /\ stale' = {}
  /\ queue' = {n \in Names : Exists(n)}
  /\ UNCHANGED cr
-----------------------------------------------------------------------------
(* The resources as Custody sees them.                                      *)

HasFinalizer(o) == o # Absent /\ o.finalizer
OnRecord(o) == IF o = Absent THEN NoId ELSE o.id

Guarded == {n \in Names : HasFinalizer(cr[n])}
Recorded == [n \in Names |-> OnRecord(cr[n])]

-----------------------------------------------------------------------------
(* What copies are good for.  Only the worker removes finalizers, and only   *)
(* when its copy is fresh and being deleted; so the informer's copy of a     *)
(* resource that has the finalizer and is not being deleted, however old,    *)
(* still speaks for the resource.                                            *)

CacheIsCurrent == \A n \in Names : n \notin stale => cache[n] = cr[n]

CachedFinalizerHolds ==
  \A n \in Names : cache[n] # Absent /\ cache[n].finalizer /\ ~cache[n].deleting
                      => Exists(n) /\ cr[n].finalizer

BareHasNothing ==
  \A n \in Names : Exists(n) /\ ~cr[n].finalizer => cr[n].id = NoId /\ ~cr[n].deleting

FreshCopy ==
  fresh => /\ Exists(me)
           /\ cr[me].finalizer = obj.finalizer
           /\ cr[me].deleting = obj.deleting

\* Nothing but the id differs between a fresh copy and the resource, and the
\* informer has the resource as it is.
FreshInFull ==
  fresh => /\ me \notin stale
           /\ cr[me].spec = obj.spec
           /\ cr[me].ready = obj.ready
           /\ cr[me].current = obj.current

KubeInv ==
  /\ CacheIsCurrent /\ CachedFinalizerHolds /\ BareHasNothing
  /\ FreshCopy /\ FreshInFull

\* What a reconciliation relies on once it has passed the finalizer check, ...
UnderFinalizer == obj.finalizer /\ ~obj.deleting /\ Exists(me) /\ cr[me].finalizer

\* ... and what one that grants a deletion relies on.
UnderDeletion ==
  /\ obj.deleting
  /\ fresh => /\ cr[me].id = obj.id
              /\ cache[me] # Absent /\ cache[me].deleting

\* The copies of the resource n, wherever they are.
Copies(n) == {o \in {cr[n], cache[n], IF me = n THEN obj ELSE Absent} : o # Absent}

\* The types of these variables, for resources that are members of T.
KubeType(T) ==
  /\ cr \in [Names -> T \cup {Absent}]
  /\ cache \in [Names -> T \cup {Absent}]
  /\ stale \subseteq Names
  /\ queue \subseteq Names
  /\ \/ pc = "idle" /\ me = Nobody /\ obj = Absent /\ fresh = FALSE
     \/ pc # "idle" /\ me \in Names /\ obj \in T
  /\ fresh \in BOOLEAN
  /\ budget \in 0 .. MaxDisruptions
=============================================================================
