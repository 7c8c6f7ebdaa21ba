-------------------------- MODULE KubernetesProofs --------------------------
(***************************************************************************)
(* Lemmas about the steps that all reconcilers share, for every set T of    *)
(* resources.  Each step of Kubernetes keeps the types and what copies are  *)
(* good for (KubeInv); the modules that prove things about one reconciler    *)
(* need only say which step each of its actions is.                         *)
(***************************************************************************)
EXTENDS Kubernetes, TLAPS

\* A disruption is paid for from the budget.
LEMMA DisruptBudget ==
  ASSUME budget \in 0 .. MaxDisruptions, NEW kind, Disrupt(kind)
  PROVE  budget' \in 0 .. MaxDisruptions
BY MaxDisruptionsAssumption DEF Disrupt

\* A worker at rest relies on nothing.
LEMMA AtRest ==
  ASSUME Rest
  PROVE  pc' = "idle" /\ FreshCopy' /\ FreshInFull'
BY DEF Rest, FreshCopy, FreshInFull

-----------------------------------------------------------------------------
(* The worker.                                                              *)

LEMMA TakeKube ==
  ASSUME NEW T, Absent \notin T, KubeType(T), KubeInv,
         NEW n \in Names, NEW step, step # "idle", Take(n, step)
  PROVE  KubeType(T)' /\ KubeInv'
<1>1. UNCHANGED <<cr, cache, stale, budget>> /\ queue' \subseteq Names
  BY DEF Take, KubeType
<1>2. CacheIsCurrent' /\ CachedFinalizerHolds' /\ BareHasNothing'
  BY <1>1 DEF KubeInv, CacheIsCurrent, CachedFinalizerHolds, BareHasNothing, Exists
<1>3. CASE Finished(cache[n])
  <2>1. UNCHANGED <<pc, me, obj, fresh>>
    BY <1>3 DEF Take
  <2>2. FreshCopy' /\ FreshInFull'
    BY <1>1, <2>1 DEF KubeInv, FreshCopy, FreshInFull, Exists
  <2> QED
    BY <1>1, <1>2, <2>1, <2>2 DEF KubeType, KubeInv
<1>4. CASE ~Finished(cache[n])
  <2>1. pc' = step /\ me' = n /\ obj' = cache[n] /\ fresh' = (n \notin stale)
    BY <1>4 DEF Take
  <2>2. cache[n] \in T /\ cache[n] # Absent
    BY <1>4 DEF Finished, KubeType
  <2>3. fresh' => cr[n] = cache[n]
    BY <2>1 DEF KubeInv, CacheIsCurrent
  <2>4. FreshCopy' /\ FreshInFull'
    BY <1>1, <2>1, <2>2, <2>3 DEF FreshCopy, FreshInFull, Exists
  <2> QED
    BY <1>1, <1>2, <2>1, <2>2, <2>4 DEF KubeType, KubeInv
<1> QED
  BY <1>3, <1>4

\* A call of GARM from which the worker goes on, with another id perhaps.
LEMMA CallKube ==
  ASSUME NEW T, Absent \notin T, KubeType(T), KubeInv, pc # "idle",
         UNCHANGED kube, UNCHANGED <<me, fresh>>, pc' # "idle",
         budget' = budget \/ Disrupt("fault"),
         obj' \in T, obj'.spec = obj.spec, obj'.finalizer = obj.finalizer,
         obj'.deleting = obj.deleting, obj'.ready = obj.ready, obj'.current = obj.current
  PROVE  /\ KubeType(T)' /\ KubeInv'
         /\ UnderFinalizer => UnderFinalizer'
<1>1. budget' \in 0 .. MaxDisruptions
  BY DisruptBudget DEF KubeType
<1>2. KubeType(T)'
  BY <1>1 DEF KubeType, kube
<1>3. CacheIsCurrent' /\ CachedFinalizerHolds' /\ BareHasNothing'
  BY DEF kube, KubeInv, CacheIsCurrent, CachedFinalizerHolds, BareHasNothing, Exists
<1>4. FreshCopy' /\ FreshInFull'
  BY DEF kube, KubeInv, FreshCopy, FreshInFull, Exists
<1>5. UnderFinalizer => UnderFinalizer'
  BY DEF kube, UnderFinalizer, Exists
<1> QED
  BY <1>2, <1>3, <1>4, <1>5 DEF KubeInv

\* A call that ends the reconciliation.
LEMMA GiveUpKube ==
  ASSUME NEW T, KubeType(T), KubeInv, pc # "idle",
         UNCHANGED <<cr, cache, stale>>, Requeue, budget' = budget \/ Disrupt("fault")
  PROVE  KubeType(T)' /\ KubeInv'
<1>1. budget' \in 0 .. MaxDisruptions
  BY DisruptBudget DEF KubeType
<1>2. KubeType(T)'
  BY <1>1 DEF KubeType, Requeue, Rest
<1>3. CacheIsCurrent' /\ CachedFinalizerHolds' /\ BareHasNothing'
  BY DEF KubeInv, CacheIsCurrent, CachedFinalizerHolds, BareHasNothing, Exists
<1> QED
  BY <1>2, <1>3, AtRest DEF KubeInv, Requeue

\* A write of a resource with its finalizer.
LEMMA WriteKube ==
  ASSUME NEW T, Absent \notin T, KubeType(T), KubeInv, pc # "idle",
         NEW o \in T, o.finalizer, Write(o)
  PROVE  KubeType(T)' /\ KubeInv'
<1>1. me \in Names /\ cache' = cache /\ Requeue
  BY DEF KubeType, Write
<1>2. CASE UNCHANGED <<cr, stale>>
  <2>1. budget' = budget \/ Disrupt("fault")
    BY DEF Write
  <2> QED
    BY <1>1, <1>2, <2>1, GiveUpKube
<1>3. CASE /\ cr' = [cr EXCEPT ![me] = o]
           /\ stale' = IF o = cr[me] THEN stale ELSE stale \cup {me}
           /\ UNCHANGED budget
  <2>1. KubeType(T)'
    BY <1>1, <1>3 DEF KubeType, Requeue, Rest
  <2>2. cr'[me] = o /\ \A n \in Names : n # me => cr'[n] = cr[n]
    BY <1>1, <1>3 DEF KubeType
  <2>3. CacheIsCurrent'
    BY <1>1, <1>3, <2>2 DEF KubeInv, CacheIsCurrent
  <2>4. CachedFinalizerHolds' /\ BareHasNothing'
    BY <1>1, <2>2 DEF KubeInv, CachedFinalizerHolds, BareHasNothing, Exists
  <2> QED
    BY <1>1, <2>1, <2>3, <2>4, AtRest DEF KubeInv, Requeue
<1> QED
  BY <1>2, <1>3 DEF Write

\* The end of a resource whose deletion the informer has shown.
LEMMA ReleaseKube ==
  ASSUME NEW T, KubeType(T), KubeInv, pc # "idle", UnderDeletion, Release
  PROVE  KubeType(T)' /\ KubeInv'
<1>1. me \in Names /\ cache' = cache /\ Rest /\ queue' \subseteq Names
  BY DEF KubeType, Release, Requeue
<1>2. CASE UNCHANGED <<cr, stale>>
  <2>1. budget' \in 0 .. MaxDisruptions
    BY DisruptBudget DEF Release, KubeType
  <2>2. KubeType(T)'
    BY <1>1, <1>2, <2>1 DEF KubeType, Rest
  <2>3. CacheIsCurrent' /\ CachedFinalizerHolds' /\ BareHasNothing'
    BY <1>1, <1>2 DEF KubeInv, CacheIsCurrent, CachedFinalizerHolds, BareHasNothing, Exists
  <2> QED
    BY <1>1, <2>2, <2>3, AtRest DEF KubeInv
<1>3. CASE /\ fresh /\ cr' = [cr EXCEPT ![me] = Absent] /\ stale' = stale \cup {me}
           /\ UNCHANGED budget
  <2>1. KubeType(T)'
    BY <1>1, <1>3 DEF KubeType, Rest
  <2>2. cr'[me] = Absent /\ \A n \in Names : n # me => cr'[n] = cr[n]
    BY <1>1, <1>3 DEF KubeType
  <2>3. CacheIsCurrent' /\ CachedFinalizerHolds' /\ BareHasNothing'
    BY <1>1, <1>3, <2>2
    DEF UnderDeletion, KubeInv, CacheIsCurrent, CachedFinalizerHolds, BareHasNothing, Exists
  <2> QED
    BY <1>1, <2>1, <2>3, AtRest DEF KubeInv
<1> QED
  BY <1>2, <1>3 DEF Release

-----------------------------------------------------------------------------
(* The world around it.                                                     *)

\* Nothing of Kubernetes but the queue changes.
LEMMA ElsewhereKube ==
  ASSUME NEW T, KubeType(T), KubeInv, queue' \subseteq Names,
         UNCHANGED <<cr, cache, stale, pc, me, obj, fresh>>,
         budget' \in 0 .. MaxDisruptions
  PROVE  /\ KubeType(T)' /\ KubeInv'
         /\ UnderFinalizer => UnderFinalizer'
         /\ UnderDeletion => UnderDeletion'
<1>1. KubeType(T)'
  BY DEF KubeType
<1>2. KubeInv'
  BY DEF KubeInv, CacheIsCurrent, CachedFinalizerHolds, BareHasNothing, FreshCopy,
    FreshInFull, Exists
<1> QED
  BY <1>1, <1>2 DEF UnderFinalizer, UnderDeletion, Exists

LEMMA RefreshKube ==
  ASSUME NEW T, KubeType(T), KubeInv, NEW n \in Names, Refresh(n)
  PROVE  /\ KubeType(T)' /\ KubeInv'
         /\ UnderFinalizer => UnderFinalizer'
         /\ UnderDeletion => UnderDeletion'
<1>1. UNCHANGED <<cr, pc, me, obj, fresh, budget>>
  BY DEF Refresh
<1>2. cache'[n] = cr[n] /\ \A m \in Names : m # n => cache'[m] = cache[m]
  BY DEF Refresh, KubeType
<1>3. KubeType(T)'
  BY <1>1 DEF Refresh, KubeType
<1>4. CacheIsCurrent' /\ CachedFinalizerHolds' /\ BareHasNothing'
  BY <1>1, <1>2 DEF Refresh, KubeInv, CacheIsCurrent, CachedFinalizerHolds, BareHasNothing, Exists
<1>5. FreshCopy' /\ FreshInFull'
  BY <1>1 DEF Refresh, KubeInv, FreshCopy, FreshInFull, Exists
<1>6. UnderFinalizer => UnderFinalizer'
  BY <1>1 DEF UnderFinalizer, Exists
<1>7. UnderDeletion => UnderDeletion'
  <2> SUFFICES ASSUME UnderDeletion, fresh
               PROVE  cache'[me] # Absent /\ cache'[me].deleting
    BY <1>1 DEF UnderDeletion
  <2>1. Exists(me) /\ cr[me].deleting /\ me \in Names
    BY DEF UnderDeletion, KubeInv, FreshCopy, KubeType
  <2> QED
    BY <1>2, <2>1 DEF UnderDeletion, Exists
<1> QED
  BY <1>3, <1>4, <1>5, <1>6, <1>7 DEF KubeInv

\* Users never take the finalizer away: a resource that is lost without the
\* worker's doing had none.
LEMMA ChangeKube ==
  ASSUME NEW T, Absent \notin T, KubeType(T), KubeInv,
         NEW n \in Names, NEW o \in T \cup {Absent}, Change(n, o),
         HasFinalizer(cr[n]) => HasFinalizer(o),
         o # Absent /\ ~o.finalizer => o.id = NoId /\ ~o.deleting
  PROVE  /\ KubeType(T)' /\ KubeInv'
         /\ pc # "idle" /\ UnderFinalizer => UnderFinalizer'
         /\ pc # "idle" /\ UnderDeletion => UnderDeletion'
<1>1. /\ UNCHANGED <<cache, queue, pc, me, obj>>
      /\ stale' = stale \cup {n} /\ fresh' = (fresh /\ me # n)
  BY DEF Change
<1>2. cr'[n] = o /\ \A m \in Names : m # n => cr'[m] = cr[m]
  BY DEF Change, KubeType
<1>3. KubeType(T)'
  <2>1. budget' \in 0 .. MaxDisruptions
    BY DisruptBudget DEF Change, KubeType
  <2> QED
    BY <1>1, <2>1 DEF KubeType, Change
<1>4. CacheIsCurrent' /\ CachedFinalizerHolds' /\ BareHasNothing'
  BY <1>1, <1>2
  DEF KubeInv, CacheIsCurrent, CachedFinalizerHolds, BareHasNothing, Exists, HasFinalizer
<1>5. pc # "idle" => me \in Names
  BY DEF KubeType
<1>6. fresh => pc # "idle"
  BY DEF KubeType
<1>7. FreshCopy' /\ FreshInFull'
  BY <1>1, <1>2, <1>5, <1>6 DEF KubeInv, FreshCopy, FreshInFull, Exists
<1>8. pc # "idle" /\ UnderFinalizer => UnderFinalizer'
  BY <1>1, <1>2, <1>5 DEF UnderFinalizer, Exists, HasFinalizer
<1>9. pc # "idle" /\ UnderDeletion => UnderDeletion'
  BY <1>1, <1>2, <1>5 DEF UnderDeletion
<1> QED
  BY <1>3, <1>4, <1>7, <1>8, <1>9 DEF KubeInv

LEMMA RestartKube ==
  ASSUME NEW T, KubeType(T), KubeInv, Restart
  PROVE  KubeType(T)' /\ KubeInv'
<1>1. budget' \in 0 .. MaxDisruptions
  BY DisruptBudget DEF Restart, KubeType
<1>2. KubeType(T)'
  BY <1>1 DEF Restart, Rest, KubeType
<1>3. CacheIsCurrent' /\ CachedFinalizerHolds' /\ BareHasNothing'
  BY DEF Restart, KubeInv, CacheIsCurrent, CachedFinalizerHolds, BareHasNothing, Exists
<1> QED
  BY <1>2, <1>3, AtRest DEF KubeInv, Restart

-----------------------------------------------------------------------------
(* Where copies come from: a step makes no copy but the worker's next one, the *)
(* object it writes, or the one that a user submits.                          *)

LEMMA TakeCopies ==
  ASSUME NEW n \in Names, NEW step, Take(n, step), NEW m
  PROVE  Copies(m)' \subseteq Copies(m)
BY DEF Take, Copies

LEMMA CallCopies ==
  ASSUME UNCHANGED kube, UNCHANGED me, NEW m
  PROVE  /\ Copies(m)' \subseteq Copies(m) \cup {obj'}
         /\ m # me => Copies(m)' \subseteq Copies(m)
BY DEF kube, Copies

LEMMA GiveUpCopies ==
  ASSUME UNCHANGED <<cr, cache>>, Rest, NEW m
  PROVE  Copies(m)' \subseteq Copies(m)
BY DEF Rest, Copies

LEMMA WriteCopies ==
  ASSUME NEW T, KubeType(T), NEW o, Write(o), NEW m \in Names
  PROVE  /\ Copies(m)' \subseteq Copies(m) \cup {o}
         /\ m # me => Copies(m)' \subseteq Copies(m)
<1>1. \/ cr' = cr
      \/ cr' = [cr EXCEPT ![me] = o]
  BY DEF Write
<1>2. cr'[m] = cr[m] \/ (m = me /\ cr'[m] = o)
  BY <1>1 DEF KubeType
<1> QED
  BY <1>2 DEF Write, Requeue, Rest, Copies

LEMMA ReleaseCopies ==
  ASSUME NEW T, KubeType(T), Release, NEW m \in Names
  PROVE  Copies(m)' \subseteq Copies(m)
<1>1. cr' = cr \/ cr' = [cr EXCEPT ![me] = Absent]
  BY DEF Release
<1>2. cr'[m] = cr[m] \/ cr'[m] = Absent
  BY <1>1 DEF KubeType
<1> QED
  BY <1>2 DEF Release, Requeue, Rest, Copies

LEMMA RefreshCopies ==
  ASSUME NEW T, KubeType(T), NEW n \in Names, Refresh(n), NEW m \in Names
  PROVE  Copies(m)' \subseteq Copies(m)
<1>1. cache'[m] = cache[m] \/ cache'[m] = cr[m]
  BY DEF Refresh, KubeType
<1> QED
  BY <1>1 DEF Refresh, Copies

LEMMA ChangeCopies ==
  ASSUME NEW T, KubeType(T), NEW n \in Names, NEW o, Change(n, o), NEW m \in Names
  PROVE  /\ Copies(m)' \subseteq Copies(m) \cup {o}
         /\ m # n => Copies(m)' \subseteq Copies(m)
<1>1. cr'[m] = IF m = n THEN o ELSE cr[m]
  BY DEF Change, KubeType
<1> QED
  BY <1>1 DEF Change, Copies

LEMMA RestartCopies ==
  ASSUME Restart, NEW m
  PROVE  Copies(m)' \subseteq Copies(m)
BY DEF Restart, Rest, Copies

-----------------------------------------------------------------------------
(* The resources as Custody sees them.                                      *)

\* What Guarded and Recorded say of one resource.
LEMMA RecordsAt ==
  ASSUME NEW n \in Names
  PROVE  /\ n \in Guarded <=> HasFinalizer(cr[n])
         /\ Recorded[n] = OnRecord(cr[n])
         /\ [Recorded EXCEPT ![n] = OnRecord(cr[n])] = Recorded
<1>1. Recorded = [m \in Names |-> Recorded[m]] /\ Recorded[n] = OnRecord(cr[n])
  BY DEF Recorded
<1> QED
  BY <1>1 DEF Guarded

\* What becomes of them when one resource is written.
LEMMA RecordsOf ==
  ASSUME NEW T, KubeType(T), NEW n \in Names, NEW o, cr' = [cr EXCEPT ![n] = o]
  PROVE  /\ HasFinalizer(o) => Guarded' = Guarded \cup {n}
         /\ ~HasFinalizer(o) => Guarded' = Guarded \ {n}
         /\ Recorded' = [Recorded EXCEPT ![n] = OnRecord(o)]
<1>1. cr'[n] = o /\ \A m \in Names : m # n => cr'[m] = cr[m]
  BY DEF KubeType
<1>2. \A m \in Names : Recorded'[m] = IF m = n THEN OnRecord(o) ELSE Recorded[m]
  BY <1>1 DEF Recorded
<1>3. /\ Recorded = [m \in Names |-> Recorded[m]]
      /\ Recorded' = [m \in Names |-> Recorded'[m]]
  BY DEF Recorded
<1>4. Recorded' = [Recorded EXCEPT ![n] = OnRecord(o)]
  BY <1>2, <1>3
<1> QED
  BY <1>1, <1>4 DEF Guarded

\* A write that leaves finalizer and id as they were.
LEMMA RecordsKept ==
  ASSUME NEW T, KubeType(T), NEW n \in Names, NEW o, cr' = [cr EXCEPT ![n] = o],
         HasFinalizer(o) <=> HasFinalizer(cr[n]), OnRecord(o) = OnRecord(cr[n])
  PROVE  UNCHANGED <<Guarded, Recorded>>
<1> DEFINE r == OnRecord(o)
<1>1. /\ HasFinalizer(o) => Guarded' = Guarded \cup {n}
      /\ ~HasFinalizer(o) => Guarded' = Guarded \ {n}
      /\ Recorded' = [Recorded EXCEPT ![n] = r]
  BY RecordsOf
<1>2. /\ n \in Guarded <=> HasFinalizer(o)
      /\ [Recorded EXCEPT ![n] = r] = Recorded
  BY RecordsAt
<1> HIDE DEF r
<1> QED
  BY <1>1, <1>2

LEMMA RecordsSame ==
  ASSUME cr' = cr
  PROVE  UNCHANGED <<Guarded, Recorded>>
BY DEF Guarded, Recorded
=============================================================================
