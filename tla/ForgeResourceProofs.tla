------------------------- MODULE ForgeResourceProofs -------------------------
(***************************************************************************)
(* Proofs about ForgeResource, for every value of its constants.            *)
(***************************************************************************)
EXTENDS ForgeResource, KubernetesProofs

USE MaxObjectsAssumption, MaxDisruptionsAssumption, NobodyAssumption, AbsentAssumption,
    NamesAssumption

-----------------------------------------------------------------------------
(* What the steps do, apart from what they are for.                         *)

LEMMA WorkerHolds ==
  ASSUME TypeOK, pc # "idle"
  PROVE  me \in Names /\ obj \in Resource /\ obj.spec \in ResourceSpec /\ request \in Request
BY DEF TypeOK, KubeType, Resource

\* No id is no object's.
LEMMA NoIdIsDead == ~Live(NoId)
<1>1. 0 \notin Names
  BY NamesAssumption
<1> QED
  BY <1>1 DEF Live, Ids, NoId

LEMMA AskedType ==
  ASSUME TypeOK, NEW spec \in ResourceSpec
  PROVE  Asked(spec) \in Request /\ Asked(spec).shape = spec.shape
<1>1. spec.sealed => secret \in Secrets \cup {Absent}
  BY DEF TypeOK
<1> QED
  BY <1>1 DEF Asked, Request, ResourceSpec

\* Calls of GARM on the way to Ready.
Call == List \/ Create \/ Adopt \/ Get \/ Drop \/ Update

LEMMA NewIdType ==
  ASSUME TypeOK, pc # "idle", Mint
  PROVE  /\ NewId \in Ids
         /\ minted' \in 0 .. MaxObjects
         /\ kind = "endpoint" => NewId = me /\ minted' = minted
         /\ kind # "endpoint" => NewId = minted + 1 /\ minted' = minted + 1
<1>1. me \in Names
  BY WorkerHolds
<1> QED
  BY <1>1 DEF NewId, Mint, Ids, TypeOK

\* They change nothing of Kubernetes, and of the copy the id at most.
LEMMA CallShape ==
  ASSUME TypeOK, Call
  PROVE  /\ pc \in {"list", "create", "adopt", "get", "drop", "update"}
         /\ pc' \in ReconcileSteps \ {"finalize"}
         /\ UNCHANGED kube /\ UNCHANGED <<me, fresh, request, world>>
         /\ budget' = budget \/ Disrupt("fault")
         /\ obj' \in Resource /\ obj' = [obj EXCEPT !.id = obj'.id]
<1> USE DEF Goto, ReconcileSteps
<1>1. /\ pc \in {"list", "create", "adopt", "get", "drop", "update"}
      /\ pc # "idle" /\ obj \in Resource /\ me \in Ids
  BY WorkerHolds DEF Call, List, Create, Adopt, Get, Drop, Update, Ids
<1>2. ASSUME NEW i \in Ids \cup {NoId}, obj' = [obj EXCEPT !.id = i]
      PROVE  obj' \in Resource /\ obj' = [obj EXCEPT !.id = obj'.id]
  BY <1>1, <1>2 DEF Resource
<1>3. obj = [obj EXCEPT !.id = obj.id]
  BY <1>1 DEF Resource
<1>4. \A g : Compare(g) \in {"update", "ready"}
  BY DEF Compare
<1>5. CASE List
  BY <1>1, <1>2, <1>3, <1>5 DEF List
<1>6. CASE Create
  BY <1>1, <1>2, <1>3, <1>6, NewIdType DEF Create, AfterConflict
<1>7. CASE Adopt
  BY <1>1, <1>2, <1>3, <1>4, <1>7 DEF Adopt
<1>8. CASE Get
  BY <1>1, <1>2, <1>3, <1>4, <1>8 DEF Get, AfterGet
<1>9. CASE Drop \/ Update
  BY <1>1, <1>3, <1>9 DEF Drop, Update
<1> QED
  BY <1>5, <1>6, <1>7, <1>8, <1>9 DEF Call

\* What becomes of GARM's objects, other than that a new one is made: they keep
\* their names and shapes, or go.
Narrows(g, h) ==
  /\ h \in [Ids -> GarmObject \cup {Absent}]
  /\ \A i \in Ids : h[i] # Absent => /\ g[i] # Absent
                                     /\ h[i].name = g[i].name /\ h[i].shape = g[i].shape

LEMMA NothingChanged == ASSUME TypeOK, garm' = garm PROVE Narrows(garm, garm')
BY DEF Narrows, TypeOK

LEMMA Erased ==
  ASSUME TypeOK, NEW i, garm' = [garm EXCEPT ![i] = Absent]
  PROVE  /\ Narrows(garm, garm')
         /\ \A j \in Ids : garm'[j] = IF j = i THEN Absent ELSE garm[j]
BY DEF Narrows, TypeOK

LEMMA Changed ==
  ASSUME TypeOK, NEW i \in Ids, NEW g \in GarmObject, Live(i),
         g.name = garm[i].name, g.shape = garm[i].shape,
         garm' = [garm EXCEPT ![i] = g]
  PROVE  /\ Narrows(garm, garm')
         /\ \A j \in Ids : Live(j)' <=> Live(j)
BY DEF Narrows, TypeOK, Live

LEMMA Updated ==
  ASSUME TypeOK, pc # "idle", ApplyUpdate
  PROVE  /\ Narrows(garm, garm')
         /\ \A j \in Ids : Live(j)' <=> Live(j)
<1>1. PICK x \in IF request.secret = Absent THEN {Absent, garm[obj.id].secret} ELSE {request.secret} :
        garm' = [garm EXCEPT ![obj.id].settings = request.settings, ![obj.id].secret = x]
  BY DEF ApplyUpdate
<1> DEFINE g == [garm[obj.id] EXCEPT !.settings = request.settings, !.secret = x]
<1>2. obj.id \in Ids /\ Live(obj.id) /\ garm[obj.id] \in GarmObject
  BY DEF ApplyUpdate, Live, TypeOK
<1>3. request.settings \in Settings /\ request.secret \in Secrets \cup {Absent}
  BY WorkerHolds DEF Request
<1>4. g \in GarmObject /\ g.name = garm[obj.id].name /\ g.shape = garm[obj.id].shape
  BY <1>1, <1>2, <1>3 DEF GarmObject
<1>5. garm' = [garm EXCEPT ![obj.id] = g]
  BY <1>1, <1>2 DEF TypeOK
<1> HIDE DEF g
<1> QED
  BY <1>2, <1>4, <1>5, Changed

\* A creation.
LEMMA Minted ==
  ASSUME TypeOK, pc # "idle", Mint
  PROVE  /\ garm' \in [Ids -> GarmObject \cup {Absent}]
         /\ garm'[NewId] # Absent
         /\ garm'[NewId].name = me /\ garm'[NewId].shape = request.shape
         /\ \A j \in Ids : j # NewId => garm'[j] = garm[j]
         /\ kind # "template" => \A j \in Ids : Live(j) => garm[j].name # me
<1> DEFINE g == [name |-> me, shape |-> request.shape, settings |-> request.settings,
                 secret |-> request.secret]
<1>1. g \in GarmObject /\ g.name = me /\ g.shape = request.shape
  BY WorkerHolds DEF Request, GarmObject
<1>2. NewId \in Ids /\ garm' = [garm EXCEPT ![NewId] = g]
  BY NewIdType DEF Mint
<1>3. kind # "template" => \A j \in Ids : Live(j) => garm[j].name # me
  BY DEF Mint, Named
<1> HIDE DEF g
<1>4. /\ garm' \in [Ids -> GarmObject \cup {Absent}]
      /\ garm'[NewId] = g
      /\ \A j \in Ids : j # NewId => garm'[j] = garm[j]
  BY <1>1, <1>2 DEF TypeOK
<1>5. g # Absent
  BY <1>1, AbsentAssumption
<1> QED
  BY <1>1, <1>3, <1>4, <1>5

\* Only Create makes an object.
LEMMA CallGarm ==
  ASSUME TypeOK, Call
  PROVE  \/ minted' = minted /\ Narrows(garm, garm')
         \/ pc = "create" /\ Mint
<1>1. pc # "idle"
  BY CallShape
<1>2. CASE garm' = garm /\ minted' = minted
  BY <1>2, NothingChanged
<1>3. CASE List \/ Adopt \/ Get
  BY <1>2, <1>3 DEF List, Adopt, Get, garmVars
<1>4. CASE Create
  BY <1>2, <1>4 DEF Create, garmVars
<1>5. CASE Drop
  BY <1>2, <1>5, Erased DEF Drop, Erase
<1>6. CASE Update
  BY <1>1, <1>2, <1>6, Updated DEF Update
<1> QED
  BY <1>3, <1>4, <1>5, <1>6 DEF Call

\* What a reconciliation writes: its copy, under the finalizer.
LEMMA WriteShape ==
  ASSUME TypeOK, FinalizerInv, AddFinalizer \/ MarkReady \/ MarkFalse \/ ClearId
  PROVE  \E o \in Resource :
           /\ Commit(o) /\ pc \in {"finalize", "ready", "false", "clear"}
           /\ o.finalizer /\ o.spec = obj.spec /\ o.id = obj.id
<1>1. obj \in Resource
  BY WorkerHolds DEF AddFinalizer, MarkReady, MarkFalse, ClearId
<1>2. pc \in {"ready", "false", "clear"} => obj.finalizer
  BY DEF FinalizerInv, UnderFinalizer, ReconcileSteps
<1>3. CASE AddFinalizer
  <2> [obj EXCEPT !.finalizer = TRUE] \in Resource
    BY <1>1 DEF Resource
  <2> WITNESS [obj EXCEPT !.finalizer = TRUE] \in Resource
  <2> QED
    BY <1>1, <1>3 DEF AddFinalizer, Resource
<1>4. CASE MarkReady
  <2> [obj EXCEPT !.ready = TRUE, !.current = TRUE] \in Resource
    BY <1>1 DEF Resource
  <2> WITNESS [obj EXCEPT !.ready = TRUE, !.current = TRUE] \in Resource
  <2> QED
    BY <1>1, <1>2, <1>4 DEF MarkReady, Resource
<1>5. CASE MarkFalse
  <2> [obj EXCEPT !.ready = FALSE] \in Resource
    BY <1>1 DEF Resource
  <2> WITNESS [obj EXCEPT !.ready = FALSE] \in Resource
  <2> QED
    BY <1>1, <1>2, <1>5 DEF MarkFalse, Resource
<1>6. CASE ClearId
  <2> obj \in Resource
    BY <1>1
  <2> WITNESS obj \in Resource
  <2> QED
    BY <1>1, <1>2, <1>6 DEF ClearId, Resource
<1> QED
  BY <1>3, <1>4, <1>5, <1>6

LEMMA NewResourceType ==
  ASSUME NEW s \in ResourceSpec
  PROVE  NewResource(s) \in Resource
BY DEF NewResource, Resource, NoId

\* What users do to a resource: finalizer and id stay with it.
LEMMA UserShape ==
  ASSUME TypeOK, FinalizerInv, NEW n \in Names, UserCreate(n) \/ UserEdit(n) \/ UserDelete(n)
  PROVE  \E o \in Resource \cup {Absent} :
           /\ Touch(n, o)
           /\ HasFinalizer(o) <=> HasFinalizer(cr[n])
           /\ OnRecord(o) = OnRecord(cr[n])
           /\ o # Absent /\ ~o.finalizer => o.id = NoId /\ ~o.deleting
           /\ o = Absent => OnRecord(cr[n]) = NoId
<1> USE DEF HasFinalizer, OnRecord
<1>1. \A s \in Wanted[kind] : s \in ResourceSpec
  BY WantedAssumption DEF TypeOK
<1>2. Exists(n) => cr[n] \in Resource
  BY DEF Exists, TypeOK, KubeType
<1>3. Exists(n) /\ ~cr[n].finalizer => cr[n].id = NoId /\ ~cr[n].deleting
  BY DEF FinalizerInv, KubeInv, BareHasNothing
<1>4. CASE UserCreate(n)
  <2>1. PICK s \in Wanted[kind] : Touch(n, NewResource(s))
    BY <1>4 DEF UserCreate
  <2> NewResource(s) \in Resource
    BY <1>1, NewResourceType
  <2>2. cr[n] = Absent
    BY <1>4 DEF UserCreate, Exists
  <2> WITNESS NewResource(s) \in Resource \cup {Absent}
  <2> QED
    BY <2>1, <2>2 DEF NewResource
<1>5. CASE UserEdit(n)
  <2>1. PICK s \in Wanted[kind] : Touch(n, [cr[n] EXCEPT !.spec = s, !.current = FALSE])
    BY <1>5 DEF UserEdit
  <2>2. cr[n] \in Resource /\ cr[n] # Absent /\ s \in ResourceSpec
    BY <1>1, <1>2, <1>5 DEF UserEdit, Exists
  <2> [cr[n] EXCEPT !.spec = s, !.current = FALSE] \in Resource
    BY <2>2 DEF Resource
  <2> WITNESS [cr[n] EXCEPT !.spec = s, !.current = FALSE] \in Resource \cup {Absent}
  <2> QED
    BY <1>3, <2>1, <2>2 DEF Resource, Exists
<1>6. CASE UserDelete(n)
  <2>1. Touch(n, Deleted(cr[n])) /\ cr[n] \in Resource /\ Exists(n)
    BY <1>2, <1>6 DEF UserDelete
  <2>2. CASE cr[n].finalizer
    <3> [cr[n] EXCEPT !.deleting = TRUE, !.current = FALSE] \in Resource
      BY <2>1 DEF Resource
    <3> WITNESS [cr[n] EXCEPT !.deleting = TRUE, !.current = FALSE] \in Resource \cup {Absent}
    <3> QED
      BY <2>1, <2>2 DEF Resource, Deleted, Exists
  <2>3. CASE ~cr[n].finalizer
    <3> WITNESS Absent \in Resource \cup {Absent}
    <3> QED
      BY <1>3, <2>1, <2>3 DEF Deleted, Exists
  <2> QED
    BY <2>2, <2>3
<1> QED
  BY <1>4, <1>5, <1>6

\* What happens in GARM behind the operator's back.
LEMMA WorldGarm ==
  ASSUME TypeOK, NEW i \in Ids, GarmEdit(i) \/ GarmDelete(i)
  PROVE  /\ Narrows(garm, garm')
         /\ budget' \in 0 .. MaxDisruptions
<1>1. budget' \in 0 .. MaxDisruptions
  BY DisruptBudget DEF GarmEdit, GarmDelete, TypeOK, KubeType
<1>2. CASE GarmEdit(i)
  <2>1. PICK v \in Settings : garm' = [garm EXCEPT ![i].settings = v]
    BY <1>2 DEF GarmEdit
  <2> DEFINE g == [garm[i] EXCEPT !.settings = v]
  <2>2. g \in GarmObject /\ g.name = garm[i].name /\ g.shape = garm[i].shape
    BY <1>2 DEF GarmEdit, Live, TypeOK, GarmObject
  <2>3. garm' = [garm EXCEPT ![i] = g] /\ Live(i)
    BY <1>2, <2>1 DEF GarmEdit
  <2> HIDE DEF g
  <2> QED
    BY <1>1, <2>2, <2>3, Changed
<1>3. CASE GarmDelete(i)
  BY <1>1, <1>3, Erased DEF GarmDelete
<1> QED
  BY <1>2, <1>3

\* What the steps do, by what becomes of GARM.
LEMMA GarmSteps ==
  ASSUME TypeOK, [Next]_vars
  PROVE  \/ Narrows(garm, garm') /\ minted' = minted
         \/ pc = "create" /\ pc # "idle" /\ Mint
<1>1. CASE UNCHANGED garmVars
  BY <1>1, NothingChanged DEF garmVars
<1>2. CASE Call
  BY <1>2, CallGarm
<1>3. CASE Delete
  BY <1>1, <1>3, NothingChanged, Erased DEF Delete, Erase
<1>4. CASE \E i \in Ids : GarmEdit(i) \/ GarmDelete(i)
  BY <1>4, WorldGarm DEF GarmEdit, GarmDelete
<1>5. CASE UNCHANGED vars
  BY <1>1, <1>5 DEF vars, garmVars
<1>6. CASE \E n \in Names : Start(n)
  BY <1>1, <1>6 DEF Start
<1>7. CASE AddFinalizer \/ MarkReady \/ MarkFalse \/ ClearId \/ RemoveFinalizer
  BY <1>1, <1>7 DEF AddFinalizer, MarkReady, MarkFalse, ClearId, RemoveFinalizer, Commit
<1>8. CASE \/ \E n \in Names : CacheSync(n) \/ UserCreate(n) \/ UserEdit(n) \/ UserDelete(n)
           \/ Rotate
           \/ \E x \in Shapes : EndpointChange(x)
           \/ Crash
  BY <1>1, <1>8
  DEF CacheSync, UserCreate, UserEdit, UserDelete, Touch, Rotate, EndpointChange, Crash
<1> QED
  BY <1>2, <1>3, <1>4, <1>5, <1>6, <1>7, <1>8 DEF Next, Work, Environment, Call
-----------------------------------------------------------------------------
(* Type correctness, and the finalizer.                                     *)

\* The part of TypeOK that is not Kubernetes'.
LEMMA GarmType ==
  ASSUME TypeOK, [Next]_vars
  PROVE  /\ kind' = kind /\ secret' \in Secrets \cup {Absent} /\ refs' \subseteq Shapes
         /\ garm' \in [Ids -> GarmObject \cup {Absent}] /\ minted' \in 0 .. MaxObjects
         /\ request' \in IF pc' = "idle" THEN {Absent} ELSE Request
<1>1. garm' \in [Ids -> GarmObject \cup {Absent}] /\ minted' \in 0 .. MaxObjects
  <2>1. pc = "create" /\ pc # "idle" /\ Mint => minted' \in 0 .. MaxObjects
    BY NewIdType
  <2> QED
    BY <2>1, GarmSteps, Minted DEF Narrows, TypeOK
<1>2. CASE UNCHANGED <<world, request, pc>>
  BY <1>1, <1>2 DEF TypeOK, world
<1>3. CASE UNCHANGED world /\ request' = Absent /\ pc' = "idle"
  BY <1>1, <1>3 DEF TypeOK, world
<1>4. CASE Call
  <2>1. pc # "idle" /\ pc' # "idle" /\ UNCHANGED <<request, world>>
    BY <1>4, CallShape DEF ReconcileSteps
  <2> QED
    BY <1>1, <2>1 DEF TypeOK, world
<1>5. ASSUME NEW n \in Names, Start(n)
      PROVE  request' \in IF pc' = "idle" THEN {Absent} ELSE Request
  <2>1. CASE Finished(cache[n])
    BY <1>5, <2>1 DEF Start, Take, TypeOK
  <2>2. CASE ~Finished(cache[n])
    <3>1. cache[n].spec \in ResourceSpec
      BY <1>5, <2>2 DEF Finished, TypeOK, KubeType, Resource
    <3>2. FirstStep(cache[n]) # "idle"
      BY DEF FirstStep
    <3> QED
      BY <1>5, <2>2, <3>1, <3>2, AskedType DEF Start, Take
  <2> QED
    BY <2>1, <2>2
<1>6. CASE \E n \in Names : Start(n)
  BY <1>1, <1>5, <1>6 DEF Start, world, TypeOK
<1>7. CASE AddFinalizer \/ MarkReady \/ MarkFalse \/ ClearId \/ RemoveFinalizer \/ Crash
  BY <1>3, <1>7
  DEF AddFinalizer, MarkReady, MarkFalse, ClearId, RemoveFinalizer, Commit, Write, Release,
    Requeue, Rest, Forget, Crash, Restart
<1>8. CASE Delete
  <2>1. CASE Goto("unfinalize") /\ request' = request /\ UNCHANGED world
    BY <1>1, <1>8, <2>1 DEF Goto, Delete, TypeOK, world
  <2>2. CASE Requeue /\ Forget /\ UNCHANGED world
    BY <1>3, <2>2 DEF Requeue, Rest, Forget
  <2> QED
    BY <1>8, <2>1, <2>2 DEF Delete
<1>9. CASE \/ \E n \in Names : CacheSync(n) \/ UserCreate(n) \/ UserEdit(n) \/ UserDelete(n)
           \/ \E i \in Ids : GarmEdit(i) \/ GarmDelete(i)
           \/ UNCHANGED vars
  BY <1>2, <1>9
  DEF CacheSync, Refresh, UserCreate, UserEdit, UserDelete, Touch, Change, GarmEdit,
    GarmDelete, vars, world
<1>10. CASE Rotate
  BY <1>1, <1>10 DEF Rotate, TypeOK
<1>11. ASSUME NEW x \in Shapes, EndpointChange(x) PROVE refs' \subseteq Shapes
  BY <1>11 DEF EndpointChange, TypeOK
<1>12. CASE \E x \in Shapes : EndpointChange(x)
  BY <1>1, <1>11, <1>12 DEF EndpointChange, TypeOK
<1> QED
  BY <1>4, <1>6, <1>7, <1>8, <1>9, <1>10, <1>12 DEF Next, Work, Environment, Call

\* Each clause of the rest, for one kind of step at a time.
LEMMA StartKeeps ==
  ASSUME TypeOK, FinalizerInv, NEW n \in Names, Start(n)
  PROVE  TypeOK' /\ FinalizerInv'
<1> DEFINE step == FirstStep(cache[n])
<1>1. /\ Take(n, step) /\ UNCHANGED garm
      /\ cache[n] \in Resource \cup {Absent} /\ (n \notin stale => cache[n] = cr[n])
  BY DEF Start, garmVars, TypeOK, KubeType, FinalizerInv, KubeInv, CacheIsCurrent
<1>2. ASSUME ~Finished(cache[n])
      PROVE  /\ cache[n] \in Resource
             /\ step \in {"finalize", "list", "create", "get", "false", "delete", "unfinalize"}
             /\ step \in {"list", "create", "get", "false"} => cache[n].finalizer /\ ~cache[n].deleting
             /\ step \in {"delete", "unfinalize"} => cache[n].deleting
             /\ step = "unfinalize" => cache[n].id = NoId
  <2>1. cache[n] \in Resource
    BY <1>1, <1>2 DEF Finished
  <2> QED
    BY <2>1 DEF FirstStep, Resource
<1>3. Start(n) => [Next]_vars
  BY DEF Next
<1>4. CASE Finished(cache[n])
  <2>1. UNCHANGED <<pc, me, obj, fresh, cr, cache, budget, garm>> /\ queue' \subseteq Names
        /\ UNCHANGED stale
    BY <1>1, <1>4 DEF Take, TypeOK, KubeType
  <2>2. KubeType(Resource)' /\ KubeInv' /\ pc = "idle"
    BY <1>1, <2>1, AbsentAssumption, ElsewhereKube DEF TypeOK, FinalizerInv, KubeType, Take
  <2> QED
    BY <1>3, <2>1, <2>2, GarmType
    DEF TypeOK, FinalizerInv, ReconcileSteps, DeleteSteps
<1>5. CASE ~Finished(cache[n])
  <2> HIDE DEF step
  <2>1. KubeType(Resource)' /\ KubeInv'
    BY <1>1, <1>2, <1>5, TakeKube DEF TypeOK, FinalizerInv
  <2>2. /\ pc' = step /\ me' = n /\ obj' = cache[n] /\ fresh' = (n \notin stale)
        /\ UNCHANGED <<cr, cache, garm>>
    BY <1>1, <1>5 DEF Take
  <2>3. pc' \in ReconcileSteps \cup DeleteSteps
    BY <1>2, <1>5, <2>2 DEF ReconcileSteps, DeleteSteps
  <2>4. pc' \in ReconcileSteps \ {"finalize"} => UnderFinalizer'
    <3>1. pc' \in ReconcileSteps \ {"finalize"} => step \in {"list", "create", "get", "false"}
      BY <1>2, <1>5, <2>2 DEF ReconcileSteps
    <3>2. cache[n].finalizer /\ ~cache[n].deleting => Exists(n) /\ cr[n].finalizer
      BY <1>5 DEF FinalizerInv, KubeInv, CachedFinalizerHolds, Finished
    <3> QED
      BY <1>2, <1>5, <2>2, <3>1, <3>2 DEF UnderFinalizer, Exists
  <2>5. pc' \in DeleteSteps => UnderDeletion'
    BY <1>1, <1>2, <1>5, <2>2 DEF UnderDeletion, DeleteSteps
  <2>6. pc' = "unfinalize" => ~Live(obj.id)'
    BY <1>2, <1>5, <2>2, NoIdIsDead DEF Live
  <2> QED
    BY <1>3, <2>1, <2>3, <2>4, <2>5, <2>6, GarmType DEF TypeOK, FinalizerInv
<1> QED
  BY <1>4, <1>5

LEMMA CallKeeps ==
  ASSUME TypeOK, FinalizerInv, Call
  PROVE  TypeOK' /\ FinalizerInv'
<1>1. /\ pc # "idle" /\ pc \in ReconcileSteps \ {"finalize"}
      /\ pc' # "idle" /\ pc' \in ReconcileSteps \ {"finalize"} /\ pc' \notin DeleteSteps
      /\ pc' # "unfinalize"
  BY CallShape DEF ReconcileSteps, DeleteSteps
<1>2. /\ obj' \in Resource /\ obj'.spec = obj.spec /\ obj'.finalizer = obj.finalizer
      /\ obj'.deleting = obj.deleting /\ obj'.ready = obj.ready /\ obj'.current = obj.current
  BY CallShape, WorkerHolds, <1>1 DEF Resource
<1>3. /\ KubeType(Resource)' /\ KubeInv'
      /\ UnderFinalizer'
  BY <1>1, <1>2, CallShape, CallKube DEF TypeOK, FinalizerInv
<1>4. [Next]_vars
  BY DEF Call, Next, Work
<1> QED
  BY <1>1, <1>3, <1>4, GarmType DEF TypeOK, FinalizerInv

LEMMA WriteKeeps ==
  ASSUME TypeOK, FinalizerInv, AddFinalizer \/ MarkReady \/ MarkFalse \/ ClearId
  PROVE  TypeOK' /\ FinalizerInv'
<1>1. PICK o \in Resource : Commit(o) /\ o.finalizer /\ pc # "idle"
  BY WriteShape
<1>2. KubeType(Resource)' /\ KubeInv'
  BY <1>1, WriteKube DEF Commit, TypeOK, FinalizerInv
<1>3. pc' = "idle"
  BY <1>1 DEF Commit, Write, Requeue, Rest
<1>4. [Next]_vars
  BY DEF Next, Work
<1> QED
  BY <1>2, <1>3, <1>4, GarmType DEF TypeOK, FinalizerInv, ReconcileSteps, DeleteSteps

LEMMA DeletionKeeps ==
  ASSUME TypeOK, FinalizerInv, Delete \/ RemoveFinalizer
  PROVE  TypeOK' /\ FinalizerInv'
<1>1. pc # "idle" /\ pc \in DeleteSteps /\ UnderDeletion
  BY DEF Delete, RemoveFinalizer, FinalizerInv, DeleteSteps
<1>2. [Next]_vars
  BY DEF Next, Work
<1>3. ASSUME KubeType(Resource)', KubeInv', pc' = "idle"
      PROVE  TypeOK' /\ FinalizerInv'
  BY <1>2, <1>3, GarmType DEF TypeOK, FinalizerInv, ReconcileSteps, DeleteSteps
<1>4. CASE RemoveFinalizer
  <2>1. pc' = "idle" /\ KubeType(Resource)' /\ KubeInv'
    BY <1>1, <1>4, ReleaseKube
    DEF RemoveFinalizer, Release, Rest, Requeue, TypeOK, FinalizerInv
  <2> QED
    BY <1>3, <2>1
<1>5. CASE Delete /\ UNCHANGED budget /\ UNCHANGED <<kube, obj>> /\ Goto("unfinalize")
           /\ Erase
  <2>1. /\ obj' = obj /\ obj \in Resource /\ pc' = "unfinalize" /\ pc' # "idle"
        /\ UNCHANGED <<me, fresh, cr, cache>>
    BY <1>1, <1>5, WorkerHolds DEF Goto, kube
  <2>2. KubeType(Resource)' /\ KubeInv'
    BY <1>1, <1>5, <2>1, CallKube DEF TypeOK, FinalizerInv
  <2>3. UnderDeletion'
    BY <1>1, <2>1 DEF UnderDeletion
  <2>4. ~Live(obj.id)'
    BY <1>5, <2>1, Erased DEF Erase, Live
  <2> QED
    BY <1>2, <2>1, <2>2, <2>3, <2>4, GarmType DEF TypeOK, FinalizerInv, ReconcileSteps, DeleteSteps
<1>6. CASE Disrupt("fault") /\ Requeue /\ UNCHANGED <<cr, cache, stale>>
  <2>1. KubeType(Resource)' /\ KubeInv'
    BY <1>1, <1>6, GiveUpKube DEF TypeOK, FinalizerInv
  <2> QED
    BY <1>3, <1>6, <2>1 DEF Requeue, Rest
<1> QED
  BY <1>4, <1>5, <1>6 DEF Delete

LEMMA WorldKeeps ==
  ASSUME TypeOK, FinalizerInv, Environment
  PROVE  TypeOK' /\ FinalizerInv'
<1> USE DEF ReconcileSteps, DeleteSteps
<1>1. [Next]_vars
  BY DEF Next
<1>2. ASSUME KubeType(Resource)', KubeInv', UNCHANGED <<pc, obj>>, Narrows(garm, garm'),
             pc # "idle" /\ UnderFinalizer => UnderFinalizer',
             pc # "idle" /\ UnderDeletion => UnderDeletion'
      PROVE  TypeOK' /\ FinalizerInv'
  <2>1. ~Live(obj.id) => ~Live(obj.id)'
    BY <1>2 DEF Live, Narrows
  <2> QED
    BY <1>1, <1>2, <2>1, GarmType DEF TypeOK, FinalizerInv
<1>3. ASSUME NEW n \in Names, CacheSync(n) PROVE TypeOK' /\ FinalizerInv'
  <2>1. UNCHANGED <<pc, obj, garm>> /\ Refresh(n)
    BY <1>3 DEF CacheSync, Refresh, garmVars
  <2>2. /\ KubeType(Resource)' /\ KubeInv'
        /\ UnderFinalizer => UnderFinalizer'
        /\ UnderDeletion => UnderDeletion'
    BY <2>1, RefreshKube DEF TypeOK, FinalizerInv
  <2> QED
    BY <1>2, <2>1, <2>2, NothingChanged
<1>4. ASSUME NEW n \in Names, UserCreate(n) \/ UserEdit(n) \/ UserDelete(n)
      PROVE  TypeOK' /\ FinalizerInv'
  <2>1. PICK o \in Resource \cup {Absent} :
          /\ Touch(n, o)
          /\ HasFinalizer(o) <=> HasFinalizer(cr[n])
          /\ o # Absent /\ ~o.finalizer => o.id = NoId /\ ~o.deleting
    BY <1>4, UserShape
  <2>2. Change(n, o) /\ UNCHANGED <<pc, obj, garm>>
    BY <2>1 DEF Touch, Change, garmVars
  <2>3. /\ KubeType(Resource)' /\ KubeInv'
        /\ pc # "idle" /\ UnderFinalizer => UnderFinalizer'
        /\ pc # "idle" /\ UnderDeletion => UnderDeletion'
    BY <2>1, <2>2, ChangeKube DEF TypeOK, FinalizerInv
  <2> QED
    BY <1>2, <2>2, <2>3, NothingChanged
<1>5. CASE Rotate \/ \E x \in Shapes : EndpointChange(x)
  <2>1. /\ UNCHANGED <<cr, cache, stale, pc, me, obj, fresh, garm>>
        /\ queue' \subseteq Names /\ budget' \in 0 .. MaxDisruptions
    BY <1>5, DisruptBudget DEF Rotate, EndpointChange, kube, garmVars, TypeOK, KubeType
  <2>2. /\ KubeType(Resource)' /\ KubeInv'
        /\ UnderFinalizer => UnderFinalizer'
        /\ UnderDeletion => UnderDeletion'
    BY <2>1, ElsewhereKube DEF TypeOK, FinalizerInv
  <2> QED
    BY <1>2, <2>1, <2>2, NothingChanged
<1>6. ASSUME NEW i \in Ids, GarmEdit(i) \/ GarmDelete(i) PROVE TypeOK' /\ FinalizerInv'
  <2>1. /\ UNCHANGED <<cr, cache, stale, pc, me, obj, fresh>> /\ Narrows(garm, garm')
        /\ queue' \subseteq Names /\ budget' \in 0 .. MaxDisruptions
    BY <1>6, WorldGarm DEF GarmEdit, GarmDelete, kube, TypeOK, KubeType
  <2>2. /\ KubeType(Resource)' /\ KubeInv'
        /\ UnderFinalizer => UnderFinalizer'
        /\ UnderDeletion => UnderDeletion'
    BY <2>1, ElsewhereKube DEF TypeOK, FinalizerInv
  <2> QED
    BY <1>2, <2>1, <2>2
<1>7. CASE Crash
  <2>1. KubeType(Resource)' /\ KubeInv' /\ pc' = "idle"
    BY <1>7, RestartKube DEF Crash, Restart, Rest, TypeOK, FinalizerInv
  <2> QED
    BY <1>1, <2>1, GarmType DEF TypeOK, FinalizerInv
<1> QED
  BY <1>3, <1>4, <1>5, <1>6, <1>7 DEF Environment

LEMMA StutterKeeps ==
  ASSUME TypeOK, FinalizerInv, UNCHANGED vars
  PROVE  TypeOK' /\ FinalizerInv'
<1> USE DEF vars
<1>1. /\ UNCHANGED <<cr, cache, stale, pc, me, obj, fresh, garm>>
      /\ queue' \subseteq Names /\ budget' \in 0 .. MaxDisruptions
  BY DEF TypeOK, KubeType
<1>2. /\ KubeType(Resource)' /\ KubeInv'
      /\ UnderFinalizer => UnderFinalizer'
      /\ UnderDeletion => UnderDeletion'
  BY <1>1, ElsewhereKube DEF TypeOK, FinalizerInv
<1> QED
  BY <1>1, <1>2 DEF TypeOK, FinalizerInv, Live

LEMMA InitHolds == Init => TypeOK /\ FinalizerInv
<1> SUFFICES ASSUME Init PROVE TypeOK /\ FinalizerInv
  OBVIOUS
<1> USE DEF Init
<1>1. \A s \in Wanted[kind] : s \in ResourceSpec
  BY WantedAssumption
<1>2. \A n \in Names : cr[n] # Absent =>
        /\ cr[n] \in Resource /\ ~cr[n].finalizer /\ cr[n].id = NoId /\ ~cr[n].deleting
  <2> SUFFICES ASSUME NEW n \in Names, cr[n] # Absent
               PROVE  /\ cr[n] \in Resource /\ ~cr[n].finalizer /\ cr[n].id = NoId
                      /\ ~cr[n].deleting
    OBVIOUS
  <2>1. \E s \in Wanted[kind] : cr[n] = NewResource(s)
    OBVIOUS
  <2> QED
    BY <1>1, <2>1, NewResourceType DEF NewResource
<1>3. cr \in [Names -> Resource \cup {Absent}]
  BY <1>2
<1>4. KubeType(Resource)
  <2>1. /\ cache = cr /\ stale = {} /\ queue \subseteq Names
        /\ pc = "idle" /\ me = Nobody /\ obj = Absent /\ fresh = FALSE
        /\ budget \in 0 .. MaxDisruptions
    OBVIOUS
  <2> HIDE DEF Init
  <2> QED
    BY <1>3, <2>1 DEF KubeType
<1>5. KubeInv
  BY <1>2, <1>3
  DEF KubeInv, CacheIsCurrent, CachedFinalizerHolds, BareHasNothing, FreshCopy, FreshInFull, Exists
<1>6. garm \in [Ids -> GarmObject \cup {Absent}] /\ minted \in 0 .. MaxObjects
  BY PreexistingAssumption
<1>7. kind \in Kinds /\ refs \subseteq Shapes /\ secret \in Secrets \cup {Absent}
      /\ pc = "idle" /\ request = Absent
  OBVIOUS
<1> QED
  BY <1>4, <1>5, <1>6, <1>7 DEF TypeOK, FinalizerInv, ReconcileSteps, DeleteSteps

LEMMA Keeps ==
  ASSUME TypeOK, FinalizerInv, [Next]_vars
  PROVE  TypeOK' /\ FinalizerInv'
BY StartKeeps, CallKeeps, WriteKeeps, DeletionKeeps, WorldKeeps, StutterKeeps
DEF Next, Work, Call

\* The types that endpoints, credentials and templates, and everything the
\* operator keeps about them, have in every behaviour.
THEOREM TypeCorrect == Spec => []TypeOK
<1>1. TypeOK /\ FinalizerInv /\ [Next]_vars => (TypeOK /\ FinalizerInv)'
  BY Keeps
<1> QED
  BY <1>1, InitHolds, PTL DEF Spec

\* Nothing is made in GARM for a resource without a finalizer, and no resource
\* loses its finalizer while GARM holds its object: what each step of the
\* reconciliation may rely on, however old the copy that it works on.
THEOREM FinalizerInvariant == Spec => []FinalizerInv
<1>1. TypeOK /\ FinalizerInv /\ [Next]_vars => (TypeOK /\ FinalizerInv)'
  BY Keeps
<1> QED
  BY <1>1, InitHolds, PTL DEF Spec

-----------------------------------------------------------------------------
(* The ids on copies.                                                       *)

\* A copy of n has the id that an earlier copy had, or one from GARM's answer to
\* this resource's own call.
LEMMA CopiesStep ==
  ASSUME TypeOK, FinalizerInv, [Next]_vars, NEW n \in Names, NEW o \in Copies(n)'
  PROVE  \/ o.id = NoId
         \/ \E p \in Copies(n) : p.id = o.id
         \/ n = me /\ Create /\ Mint /\ o.id = NewId
         \/ n = me /\ List /\ o.id \in Ids /\ Matches(me, request.shape) = {o.id}
         \/ n = me /\ Adopt /\ o.id = me /\ Live(me)
<1>1. ASSUME Copies(n)' \subseteq Copies(n) PROVE o \in Copies(n)
  BY <1>1
<1>2. CASE UNCHANGED vars
  BY <1>1, <1>2 DEF vars, Copies
<1>3. CASE \E m \in Names : Start(m)
  BY <1>1, <1>3, TakeCopies DEF Start
<1>4. CASE Call
  <2>1. UNCHANGED kube /\ UNCHANGED me /\ pc # "idle"
    BY <1>4, CallShape
  <2>2. CASE n # me
    BY <1>1, <2>1, <2>2, CallCopies
  <2>3. CASE n = me /\ o \notin Copies(n)
    <3>1. o = obj'
      BY <2>1, <2>3, CallCopies
    <3>2. obj \in Copies(n)
      BY <2>1, <2>3, WorkerHolds DEF Copies
    <3>3. \/ obj'.id = obj.id \/ obj'.id = NoId
          \/ Create /\ Mint /\ obj'.id = NewId
          \/ List /\ obj'.id \in Ids /\ Matches(me, request.shape) = {obj'.id}
          \/ Adopt /\ obj'.id = me /\ Live(me)
      <4>1. ASSUME NEW i, obj' = [obj EXCEPT !.id = i] PROVE obj'.id = i
        BY <2>1, <4>1, WorkerHolds DEF Resource
      <4>2. CASE Create
        BY <4>1, <4>2 DEF Create
      <4>3. CASE List
        BY <4>1, <4>3 DEF List
      <4>4. CASE Adopt
        BY <4>1, <4>4 DEF Adopt
      <4>5. CASE Get
        BY <4>1, <4>5 DEF Get
      <4>6. CASE Drop \/ Update
        BY <4>6 DEF Drop, Update
      <4> QED
        BY <1>4, <4>2, <4>3, <4>4, <4>5, <4>6 DEF Call
    <3> QED
      BY <2>1, <2>3, <3>1, <3>2, <3>3
  <2> QED
    BY <2>2, <2>3
<1>5. CASE AddFinalizer \/ MarkReady \/ MarkFalse \/ ClearId
  <2>1. PICK w \in Resource : Commit(w) /\ w.id = obj.id /\ pc # "idle"
    BY <1>5, WriteShape
  <2>2. n # me => o \in Copies(n)
    BY <1>1, <2>1, WriteCopies DEF Commit, TypeOK
  <2>3. n = me => o \in Copies(n) \cup {w} /\ obj \in Copies(n)
    BY <2>1, WriteCopies, WorkerHolds DEF Commit, TypeOK, Copies
  <2> QED
    BY <2>1, <2>2, <2>3
<1>6. CASE Delete
  <2>1. CASE UNCHANGED <<kube, obj>> /\ Goto("unfinalize")
    BY <1>1, <2>1 DEF Goto, kube, Copies
  <2>2. CASE Requeue /\ UNCHANGED <<cr, cache>>
    BY <1>1, <2>2, GiveUpCopies DEF Requeue
  <2> QED
    BY <1>6, <2>1, <2>2 DEF Delete
<1>7. CASE RemoveFinalizer
  BY <1>1, <1>7, ReleaseCopies DEF RemoveFinalizer, TypeOK
<1>8. ASSUME NEW m \in Names, CacheSync(m)
      PROVE  o \in Copies(n)
  BY <1>1, <1>8, RefreshCopies DEF CacheSync, TypeOK
<1>9. ASSUME NEW m \in Names, UserCreate(m) \/ UserEdit(m) \/ UserDelete(m)
      PROVE  o.id = NoId \/ \E p \in Copies(n) : p.id = o.id
  <2>1. PICK w \in Resource \cup {Absent} : Touch(m, w) /\ OnRecord(w) = OnRecord(cr[m])
    BY <1>9, UserShape
  <2>2. m # n => o \in Copies(n)
    BY <2>1, ChangeCopies DEF Touch, TypeOK
  <2>3. m = n => o \in Copies(n) \cup {w} /\ o # Absent
    BY <2>1, ChangeCopies DEF Touch, TypeOK, Copies
  <2>4. w # Absent => w.id = NoId \/ (Exists(m) /\ w.id = cr[m].id)
    BY <2>1 DEF OnRecord, Exists
  <2>5. m = n /\ Exists(m) => cr[m] \in Copies(n)
    BY DEF Copies, Exists
  <2> QED
    BY <2>2, <2>3, <2>4, <2>5
<1>10. CASE \/ Rotate
            \/ \E x \in Shapes : EndpointChange(x)
            \/ \E i \in Ids : GarmEdit(i) \/ GarmDelete(i)
  BY <1>1, <1>10 DEF Rotate, EndpointChange, GarmEdit, GarmDelete, kube, Copies
<1>11. CASE Crash
  BY <1>1, <1>11, RestartCopies DEF Crash
<1> QED
  BY <1>2, <1>3, <1>4, <1>5, <1>6, <1>7, <1>8, <1>9, <1>10, <1>11
  DEF Next, Work, Environment, Call

\* What becomes of the object with an id that may be on a copy of n: it stays what
\* it was, or goes, or it is an endpoint that is made anew for n.
IdsOf(n) == {NoId} \cup IF kind = "endpoint" THEN {n} ELSE 1 .. minted

LEMMA IdsFrame ==
  ASSUME TypeOK, [Next]_vars, NEW n \in Names, NEW i \in IdsOf(n), Live(i)'
  PROVE  \/ Live(i) /\ garm'[i].name = garm[i].name /\ garm'[i].shape = garm[i].shape
         \/ kind = "endpoint" /\ n = me /\ i = me /\ garm'[i].name = n
<1>1. CASE Narrows(garm, garm')
  BY <1>1 DEF Narrows, Live
<1>2. CASE pc # "idle" /\ Mint
  <2>1. i \in Ids /\ i # NoId
    BY NoIdIsDead DEF Live, Ids, NoId
  <2>2. CASE kind = "endpoint"
    <3>1. i = n /\ NewId = me
      BY <1>2, <2>1, <2>2, NewIdType DEF IdsOf
    <3> QED
      BY <1>2, <2>1, <2>2, <3>1, Minted DEF Live
  <2>3. CASE kind # "endpoint"
    <3>1. i \in 1 .. minted /\ NewId = minted + 1 /\ minted \in Nat
      BY <1>2, <2>1, <2>3, NewIdType DEF IdsOf, TypeOK
    <3>2. i # NewId
      BY <3>1
    <3> QED
      BY <1>2, <2>1, <3>2, Minted DEF Live
  <2> QED
    BY <2>2, <2>3
<1> QED
  BY <1>1, <1>2, GarmSteps

LEMMA NamesHoldNext ==
  ASSUME TypeOK, FinalizerInv, RecordInv, [Next]_vars
  PROVE  NamesHold'
<1>1. kind' = kind /\ minted \in Nat /\ minted' \in Nat
  BY GarmType DEF TypeOK
<1>2. minted <= minted' /\ \A n \in Names : IdsOf(n) \subseteq IdsOf(n)'
  <2>1. minted <= minted'
    BY <1>1, GarmSteps, NewIdType
  <2> QED
    BY <1>1, <2>1 DEF IdsOf
<1>3. ASSUME NEW i \in Ids, Live(i)'
      PROVE  IF kind = "endpoint" THEN i \in Names /\ garm'[i].name = i ELSE i \in 1 .. minted'
  <2>1. Live(i) => IF kind = "endpoint" THEN i \in Names /\ garm[i].name = i
                                       ELSE i \in 1 .. minted
    BY DEF RecordInv, NamesHold
  <2>2. CASE Narrows(garm, garm') /\ minted' = minted
    <3>1. Live(i) /\ garm'[i].name = garm[i].name
      BY <1>3, <2>2 DEF Narrows, Live
    <3> QED
      BY <2>1, <2>2, <3>1
  <2>3. CASE pc # "idle" /\ Mint
    <3>1. CASE i = NewId
      <4>1. /\ kind = "endpoint" => i = me
            /\ kind # "endpoint" => i = minted + 1 /\ minted' = minted + 1
            /\ garm'[i].name = me /\ me \in Names
        BY <2>3, <3>1, NewIdType, Minted, WorkerHolds
      <4> QED
        BY <1>1, <4>1
    <3>2. CASE i # NewId
      <4>1. garm'[i] = garm[i]
        BY <2>3, <3>2, Minted
      <4>2. Live(i)
        BY <1>3, <4>1 DEF Live
      <4> QED
        BY <1>1, <1>2, <2>1, <4>1, <4>2
    <3> QED
      BY <3>1, <3>2
  <2> QED
    BY <2>2, <2>3, GarmSteps
<1>4. ASSUME NEW n \in Names, NEW o \in Copies(n)'
      PROVE  /\ o.id \in IdsOf(n)'
             /\ Live(o.id)' => garm'[o.id].name = n
  <2>1. ASSUME o.id \in IdsOf(n), Live(o.id) => garm[o.id].name = n
        PROVE  /\ o.id \in IdsOf(n)'
               /\ Live(o.id)' => garm'[o.id].name = n
    <3>1. o.id \in IdsOf(n)'
      BY <1>2, <2>1
    <3>2. Live(o.id)' => garm'[o.id].name = n
      BY <2>1, IdsFrame
    <3> QED
      BY <3>1, <3>2
  <2>2. CASE o.id = NoId
    BY <2>1, <2>2, NoIdIsDead DEF IdsOf
  <2>3. CASE \E p \in Copies(n) : p.id = o.id
    <3>1. PICK p \in Copies(n) : p.id = o.id
      BY <2>3
    <3>2. p.id \in IdsOf(n) /\ (Live(p.id) => garm[p.id].name = n)
      BY <3>1 DEF RecordInv, NamesHold, IdsOf
    <3> QED
      BY <2>1, <3>1, <3>2
  <2>4. CASE n = me /\ Create /\ Mint /\ o.id = NewId
    <3>1. pc # "idle" /\ garm'[NewId].name = me
      BY <2>4, Minted DEF Create
    <3>2. IF kind = "endpoint" THEN NewId = me ELSE NewId = minted' /\ minted' = minted + 1
      BY <2>4, <3>1, NewIdType
    <3>3. NewId \in IdsOf(n)'
      BY <1>1, <2>4, <3>2 DEF IdsOf
    <3> QED
      BY <2>4, <3>1, <3>3
  <2>5. CASE n = me /\ List /\ o.id \in Ids /\ Matches(me, request.shape) = {o.id}
    <3>1. Live(o.id) /\ garm[o.id].name = n /\ kind = "template"
      BY <2>5 DEF Matches, Named, List, RecordInv, CopyRecord
    <3>2. o.id \in IdsOf(n)
      BY <2>5, <3>1 DEF RecordInv, NamesHold, IdsOf
    <3> QED
      BY <2>1, <3>1, <3>2
  <2>6. CASE n = me /\ Adopt /\ o.id = me /\ Live(me)
    <3>1. kind = "endpoint" /\ garm[me].name = me
      BY <2>6 DEF Adopt, RecordInv, CopyRecord, NamesHold, Live
    <3> QED
      BY <2>1, <2>6, <3>1 DEF IdsOf
  <2> QED
    BY <1>4, <2>2, <2>3, <2>4, <2>5, <2>6, CopiesStep
<1> QED
  BY <1>1, <1>3, <1>4 DEF NamesHold, IdsOf

\* What a step must do for the informer's copies of templates to go on showing
\* where the templates on record are.
LEMMA CachedFrame ==
  ASSUME TypeOK, RecordInv, [Next]_vars, kind = "template",
         \A n \in Names : cache'[n] # Absent =>
           \/ cache'[n] = cr'[n]
           \/ /\ cache'[n].id \in IdsOf(n)
              /\ Live(cache'[n].id) => Exists(n)' /\ cr'[n].id = cache'[n].id
              /\ Exists(n)' => cr'[n].id \in IdsOf(n)
              /\ Exists(n)' /\ cache'[n].id = NoId /\ Live(cr'[n].id)
                   => garm[cr'[n].id].shape = cache'[n].spec.shape
  PROVE  CachedTemplates'
<1>1. \A n \in Names : \A i \in IdsOf(n) :
        Live(i)' => Live(i) /\ garm'[i].shape = garm[i].shape
  BY IdsFrame
<1> SUFFICES ASSUME NEW n \in Names, cache'[n] # Absent
             PROVE  /\ Live(cache[n].id)' => Exists(n)' /\ cr'[n].id = cache'[n].id
                    /\ Exists(n)' /\ cache'[n].id = NoId /\ Live(cr[n].id)'
                         => garm'[cr'[n].id].shape = cache'[n].spec.shape
  BY DEF CachedTemplates
<1>2. CASE cache'[n] = cr'[n]
  <2>1. cr'[n].id = NoId => ~Live(cr[n].id)'
    BY NoIdIsDead DEF Live, Ids, NoId
  <2> QED
    BY <1>2, <2>1 DEF Exists
<1>3. CASE /\ cache'[n].id \in IdsOf(n)
           /\ Live(cache'[n].id) => Exists(n)' /\ cr'[n].id = cache'[n].id
           /\ Exists(n)' => cr'[n].id \in IdsOf(n)
           /\ Exists(n)' /\ cache'[n].id = NoId /\ Live(cr'[n].id)
                => garm[cr'[n].id].shape = cache'[n].spec.shape
  <2>1. Live(cache[n].id)' => Live(cache'[n].id)
    BY <1>1, <1>3 DEF Live
  <2>2. Exists(n)' /\ Live(cr[n].id)'
          => Live(cr'[n].id) /\ garm'[cr'[n].id].shape = garm[cr'[n].id].shape
    BY <1>1, <1>3 DEF Live
  <2> QED
    BY <1>3, <2>1, <2>2
<1> QED
  BY <1>2, <1>3

LEMMA CachedKept ==
  ASSUME TypeOK, RecordInv, kind = "template", NEW n \in Names, cache[n] # Absent
  PROVE  /\ cache[n].id \in IdsOf(n)
         /\ Exists(n) => cr[n].id \in IdsOf(n)
         /\ Live(cache[n].id) => Exists(n) /\ cr[n].id = cache[n].id
         /\ Exists(n) /\ cache[n].id = NoId /\ Live(cr[n].id)
              => garm[cr[n].id].shape = cache[n].spec.shape
BY DEF RecordInv, NamesHold, CachedTemplates, Exists, Copies, IdsOf

LEMMA CachedNext ==
  ASSUME TypeOK, FinalizerInv, RecordInv, [Next]_vars
  PROVE  CachedTemplates'
<1> SUFFICES ASSUME kind = "template" PROVE CachedTemplates'
  BY GarmType DEF CachedTemplates
<1>1. ASSUME UNCHANGED <<cr, cache>> PROVE CachedTemplates'
  BY <1>1, CachedFrame, CachedKept DEF Exists
<1>2. CASE UNCHANGED vars
  BY <1>1, <1>2 DEF vars
<1>3. CASE \E n \in Names : Start(n)
  BY <1>1, <1>3 DEF Start, Take
<1>4. CASE Call
  BY <1>1, <1>4, CallShape DEF kube
<1>5. CASE AddFinalizer \/ MarkReady \/ MarkFalse \/ ClearId
  <2>1. PICK o \in Resource :
          Commit(o) /\ o.spec = obj.spec /\ o.id = obj.id /\ pc # "idle" /\ pc \in ReconcileSteps
    BY <1>5, WriteShape DEF ReconcileSteps
  <2>2. /\ me \in Names /\ obj \in Copies(me) /\ cache' = cache
    BY <2>1, WorkerHolds DEF Commit, Write, Copies
  <2>3. CASE cr' = cr
    BY <1>1, <2>2, <2>3
  <2>4. CASE fresh /\ cr' = [cr EXCEPT ![me] = o]
    <3>1. /\ cr[me] # Absent /\ cache[me] = cr[me] /\ cr[me].spec = obj.spec
      BY <2>2, <2>4 DEF FinalizerInv, KubeInv, FreshCopy, FreshInFull, CacheIsCurrent, Exists
    <3>2. o.id = cr[me].id \/ (~Live(cr[me].id)
                               /\ (Live(o.id) => garm[o.id].shape = cache[me].spec.shape))
      BY <2>1, <2>4, <3>1 DEF RecordInv, CopyRecord
    <3>3. /\ o.id \in IdsOf(me)
          /\ Live(cache[me].id) => o.id = cache[me].id
          /\ cache[me].id = NoId /\ Live(o.id) => garm[o.id].shape = cache[me].spec.shape
      <4>1. o.id \in IdsOf(me)
        BY <2>1, <2>2 DEF RecordInv, NamesHold, IdsOf
      <4> QED
        BY <3>1, <3>2, <4>1, NoIdIsDead
    <3>4. \A n \in Names : cr'[n] = IF n = me THEN o ELSE cr[n]
      BY <2>4 DEF TypeOK, KubeType
    <3>5. o # Absent /\ \A n \in Names : Exists(n)' <=> n = me \/ Exists(n)
      BY <2>1, <2>2, <3>4, AbsentAssumption DEF Exists
    <3> QED
      BY <2>2, <3>3, <3>4, <3>5, CachedFrame, CachedKept
  <2> QED
    BY <2>1, <2>3, <2>4 DEF Commit, Write
<1>6. CASE Delete
  BY <1>1, <1>6 DEF Delete, kube
<1>7. CASE RemoveFinalizer
  <2>1. cache' = cache /\ me \in Names /\ UnderDeletion /\ ~Live(obj.id)
    BY <1>7, WorkerHolds DEF RemoveFinalizer, Release, FinalizerInv, DeleteSteps
  <2>2. CASE cr' = cr
    BY <1>1, <2>1, <2>2
  <2>3. CASE fresh /\ cr' = [cr EXCEPT ![me] = Absent]
    <3>1. ~Live(cache[me].id)
      BY <2>1, <2>3
      DEF UnderDeletion, FinalizerInv, KubeInv, FreshInFull, CacheIsCurrent
    <3>2. \A n \in Names : cr'[n] = IF n = me THEN Absent ELSE cr[n]
      BY <2>3 DEF TypeOK, KubeType
    <3>3. \A n \in Names : Exists(n)' <=> n # me /\ Exists(n)
      BY <3>2 DEF Exists
    <3> QED
      BY <2>1, <3>1, <3>2, <3>3, CachedFrame, CachedKept
  <2> QED
    BY <1>7, <2>2, <2>3 DEF RemoveFinalizer, Release
<1>8. ASSUME NEW m \in Names, CacheSync(m) PROVE CachedTemplates'
  <2>1. cr' = cr /\ \A n \in Names : cache'[n] = IF n = m THEN cr'[n] ELSE cache[n]
    BY <1>8 DEF CacheSync, Refresh, TypeOK, KubeType
  <2> QED
    BY <2>1, CachedFrame, CachedKept DEF Exists
<1>9. ASSUME NEW m \in Names, UserCreate(m) \/ UserEdit(m) \/ UserDelete(m)
      PROVE  CachedTemplates'
  <2>1. PICK o \in Resource \cup {Absent} :
          /\ Touch(m, o)
          /\ OnRecord(o) = OnRecord(cr[m])
          /\ o = Absent => OnRecord(cr[m]) = NoId
    BY <1>9, UserShape
  <2>2. cache' = cache /\ \A n \in Names : cr'[n] = IF n = m THEN o ELSE cr[n]
    BY <2>1 DEF Touch, Change, TypeOK, KubeType
  <2>3. \A n \in Names :
          /\ Exists(n) /\ cr[n].id # NoId => Exists(n)' /\ cr'[n].id = cr[n].id
          /\ Exists(n)' => cr'[n].id = NoId \/ (Exists(n) /\ cr'[n].id = cr[n].id)
    BY <2>1, <2>2 DEF Exists, OnRecord
  <2>4. \A n \in Names : NoId \in IdsOf(n)
    BY DEF IdsOf
  <2> QED
    BY <2>2, <2>3, <2>4, NoIdIsDead, CachedFrame, CachedKept
<1>10. CASE \/ Rotate
            \/ \E x \in Shapes : EndpointChange(x)
            \/ \E i \in Ids : GarmEdit(i) \/ GarmDelete(i)
  BY <1>1, <1>10 DEF Rotate, EndpointChange, GarmEdit, GarmDelete, kube
<1>11. CASE Crash
  <2>1. cache' = cr'
    BY <1>11 DEF Crash, Restart
  <2> QED
    BY <2>1, CachedFrame
<1> QED
  BY <1>2, <1>3, <1>4, <1>5, <1>6, <1>7, <1>8, <1>9, <1>10, <1>11
  DEF Next, Work, Environment, Call

\* What a step must do for a copy in the worker's hands to go on showing where the
\* object on record is.
LEMMA CopyFrame ==
  ASSUME TypeOK, FinalizerInv, CopyRecord, UNCHANGED <<pc, me, obj, request, kind>>,
         Narrows(garm, garm'),
         fresh' => fresh /\ cr'[me].id = cr[me].id,
         pc \in {"list", "create", "get", "drop"} => cr'[me].id = cr[me].id
  PROVE  CopyRecord'
<1>1. \A i : Live(i)' => Live(i) /\ garm'[i].shape = garm[i].shape
  BY DEF Narrows, Live
<1>2. Live(cr[me].id)' => Live(cr'[me].id) /\ garm'[cr'[me].id].shape = garm[cr'[me].id].shape
  BY <1>1 DEF Live
<1>3. Live(obj.id)' => Live(obj.id) /\ garm'[obj.id].shape = garm[obj.id].shape
  BY <1>1 DEF Live
<1>4. pc \in ReconcileSteps /\ fresh' =>
       \/ obj.id = cr'[me].id
       \/ /\ ~Live(cr[me].id)'
          /\ kind = "template" /\ Live(obj.id)' => garm'[obj.id].shape = obj.spec.shape
  BY <1>2, <1>3 DEF CopyRecord
<1>5. pc = "list" /\ Live(cr[me].id)' => garm'[cr'[me].id].shape = obj.spec.shape
  BY <1>2 DEF CopyRecord
<1>6. pc = "create" /\ kind = "template" => ~Live(cr[me].id)'
  BY <1>2 DEF CopyRecord
<1>7. pc = "get" /\ kind = "template" /\ Live(obj.id)' => obj.id = cr'[me].id
  BY <1>3 DEF CopyRecord
<1> QED
  BY <1>4, <1>5, <1>6, <1>7 DEF CopyRecord

LEMMA CopyStart ==
  ASSUME TypeOK, FinalizerInv, RecordInv, NEW n \in Names, Start(n)
  PROVE  CopyRecord'
<1>1. CASE Finished(cache[n])
  BY <1>1, NothingChanged, CopyFrame DEF Start, Take, garmVars, world, RecordInv
<1>2. CASE ~Finished(cache[n])
  <2>1. /\ pc' = FirstStep(cache[n]) /\ me' = n /\ obj' = cache[n]
        /\ fresh' = (n \notin stale) /\ cr' = cr /\ garm' = garm /\ kind' = kind
        /\ request' = Asked(cache[n].spec)
    BY <1>2 DEF Start, Take, garmVars, world
  <2>2. fresh' => obj'.id = cr'[me'].id
    BY <2>1 DEF FinalizerInv, KubeInv, CacheIsCurrent
  <2>3. /\ pc' \notin {"adopt", "drop"}
        /\ pc' = "list" => kind = "template" /\ cache[n].id = NoId
        /\ pc' = "create" => kind # "template" /\ cache[n].id = NoId
        /\ pc' \in {"list", "get"} => cache[n].finalizer /\ ~cache[n].deleting
    BY <2>1 DEF FirstStep
  <2>4. request'.shape = obj'.spec.shape
    BY <2>1 DEF Asked
  <2>5. ASSUME pc' \in {"list", "get"}, kind = "template"
        PROVE  /\ cache[n].id = NoId /\ Live(cr[n].id) => garm[cr[n].id].shape = cache[n].spec.shape
               /\ Live(cache[n].id) => cr[n].id = cache[n].id
    <3>1. cache[n] # Absent
      BY <1>2 DEF Finished
    <3>2. Exists(n)
      BY <2>3, <2>5, <3>1 DEF FinalizerInv, KubeInv, CachedFinalizerHolds
    <3> QED
      BY <2>5, <3>1, <3>2 DEF RecordInv, CachedTemplates
  <2>6. Live(cr[me].id)' = Live(cr[n].id) /\ Live(obj.id)' = Live(cache[n].id)
    BY <2>1 DEF Live
  <2> QED
    BY <2>1, <2>2, <2>3, <2>4, <2>5, <2>6 DEF CopyRecord
<1> QED
  BY <1>1, <1>2

\* A creation that succeeds: the object on record, which would have been in the
\* way, or was replaced, is gone.
LEMMA RecordedIsGone ==
  ASSUME TypeOK, FinalizerInv, RecordInv, pc = "create", Mint
  PROVE  /\ HasFinalizer(cr[me]) /\ ~Live(cr[me].id)
         /\ cr[me].id \in IdsOf(me)
         /\ ~Live(NewId)
<1>1. me \in Names /\ Exists(me) /\ HasFinalizer(cr[me])
  BY WorkerHolds DEF FinalizerInv, UnderFinalizer, ReconcileSteps, HasFinalizer, Exists
<1>2. cr[me].id \in IdsOf(me) /\ (Live(cr[me].id) => garm[cr[me].id].name = me)
  BY <1>1 DEF RecordInv, NamesHold, IdsOf, Copies, Exists
<1>3. ~Live(cr[me].id)
  <2>1. CASE kind = "template"
    BY <2>1 DEF RecordInv, CopyRecord
  <2>2. CASE kind # "template"
    <3>1. \A j \in Ids : Live(j) => garm[j].name # me
      BY <2>2, Minted
    <3> QED
      BY <1>2, <3>1 DEF Live
  <2> QED
    BY <2>1, <2>2
<1>4. ~Live(NewId)
  <2>1. CASE kind = "endpoint"
    <3>1. NewId = me /\ \A j \in Ids : Live(j) => garm[j].name # me
      BY <2>1, NewIdType, Minted
    <3> QED
      BY <2>1, <3>1 DEF RecordInv, NamesHold, Live
  <2>2. CASE kind # "endpoint"
    <3>1. NewId = minted + 1 /\ minted \in Nat
      BY <2>2, NewIdType DEF TypeOK
    <3> QED
      BY <2>2, <3>1 DEF RecordInv, NamesHold, Live
  <2> QED
    BY <2>1, <2>2
<1> QED
  BY <1>1, <1>2, <1>3, <1>4

LEMMA CopyCall ==
  ASSUME TypeOK, FinalizerInv, RecordInv, Call
  PROVE  CopyRecord'
<1> USE DEF Goto
<1>1. /\ pc \in ReconcileSteps \ {"finalize"} /\ pc # "idle" /\ pc' \in ReconcileSteps
      /\ cr' = cr /\ me' = me /\ fresh' = fresh /\ kind' = kind /\ request' = request
      /\ obj'.spec = obj.spec /\ obj \in Resource /\ request.shape = obj.spec.shape
      /\ pc' # "idle"
  BY CallShape, WorkerHolds DEF ReconcileSteps, kube, world, Resource, RecordInv, CopyRecord
<1>2. ASSUME pc' \in {"update", "ready", "false", "clear"},
             fresh =>
               \/ obj'.id = cr[me].id
               \/ /\ ~Live(cr[me].id)'
                  /\ kind = "template" /\ Live(obj.id)' => garm'[obj'.id].shape = obj.spec.shape
      PROVE  CopyRecord'
  BY <1>1, <1>2 DEF CopyRecord, Live
<1>3. \A i : [obj EXCEPT !.id = i].id = i
  BY <1>1 DEF Resource
<1>4. \A g : Compare(g) \in {"update", "ready"}
  BY DEF Compare
<1>5. CASE List
  <2>1. /\ pc = "list" /\ kind = "template" /\ obj.id = NoId /\ garm' = garm
        /\ fresh => obj.id = cr[me].id
        /\ Live(cr[me].id) => garm[cr[me].id].shape = request.shape
    BY <1>1, <1>5 DEF List, RecordInv, CopyRecord, garmVars
  <2>2. ASSUME NEW i \in Ids, Matches(me, request.shape) = {i},
               obj' = [obj EXCEPT !.id = i], pc' = "ready"
        PROVE  CopyRecord'
    <3>1. obj'.id = i /\ garm'[i].shape = obj.spec.shape
      BY <1>1, <1>3, <2>1, <2>2 DEF Matches
    <3>2. fresh => ~Live(cr[me].id)'
      BY <1>1, <2>1, NoIdIsDead DEF Live
    <3> QED
      BY <1>2, <2>2, <3>1, <3>2
  <2>3. CASE Matches(me, request.shape) = {} /\ pc' = "create" /\ obj' = obj
    <3>1. cr[me] \in Copies(me) /\ me \in Names
      BY <1>1, WorkerHolds DEF FinalizerInv, UnderFinalizer, Copies, Exists
    <3>2. Live(cr[me].id) => cr[me].id \in Matches(me, request.shape)
      BY <2>1, <3>1 DEF Matches, Named, Live, RecordInv, NamesHold
    <3>3. ~Live(cr[me].id)'
      BY <1>1, <2>1, <2>3, <3>2 DEF Live
    <3> QED
      BY <1>1, <2>1, <2>3, <3>3 DEF CopyRecord
  <2>4. CASE obj' = obj /\ pc' = "false"
    BY <1>2, <2>1, <2>4
  <2> QED
    BY <1>5, <2>2, <2>3, <2>4 DEF List
<1>6. CASE Create
  <2>1. pc = "create" /\ (fresh => obj.id = cr[me].id)
    BY <1>6 DEF Create, RecordInv, CopyRecord
  <2>2. CASE Mint /\ obj' = [obj EXCEPT !.id = NewId] /\ pc' = "ready"
    <3>1. /\ NewId \in Ids /\ garm'[NewId].shape = obj.spec.shape
          /\ \A j \in Ids : j # NewId => garm'[j] = garm[j]
      BY <1>1, <2>2, Minted, NewIdType
    <3>2. ~Live(cr[me].id) /\ obj'.id = NewId
      BY <1>3, <2>1, <2>2, RecordedIsGone
    <3>3. cr[me].id # NewId => ~Live(cr[me].id)'
      BY <1>1, <3>1, <3>2 DEF Live
    <3> QED
      BY <1>2, <2>2, <3>1, <3>2, <3>3
  <2>3. CASE obj' = obj /\ pc' = AfterConflict
    <3>1. CASE kind = "endpoint"
      <4>1. pc' = "adopt" /\ obj.id = NoId
        BY <2>1, <2>3, <3>1 DEF AfterConflict, RecordInv, CopyRecord
      <4> QED
        BY <1>1, <2>1, <2>3, <3>1, <4>1 DEF CopyRecord
    <3>2. CASE kind # "endpoint"
      BY <1>2, <2>1, <2>3, <3>2 DEF AfterConflict
    <3> QED
      BY <3>1, <3>2
  <2>4. CASE obj' = obj /\ pc' = "false"
    BY <1>2, <2>1, <2>4
  <2> QED
    BY <1>6, <2>2, <2>3, <2>4 DEF Create
<1>7. CASE Adopt
  <2>1. /\ pc = "adopt" /\ obj.id = NoId /\ garm' = garm /\ kind = "endpoint"
        /\ fresh => obj.id = cr[me].id
    BY <1>7 DEF Adopt, RecordInv, CopyRecord, garmVars
  <2>2. CASE obj' = obj /\ pc' = "false"
    BY <1>2, <2>1, <2>2
  <2>3. CASE pc' \in {"update", "ready"}
    <3>1. fresh => ~Live(cr[me].id)'
      BY <1>1, <2>1, NoIdIsDead DEF Live
    <3> QED
      BY <1>2, <2>1, <2>3, <3>1
  <2> QED
    BY <1>4, <1>7, <2>2, <2>3 DEF Adopt
<1>8. CASE Get
  <2>1. /\ pc = "get" /\ garm' = garm /\ (fresh => obj.id = cr[me].id)
        /\ kind = "template" /\ Live(obj.id) => obj.id = cr[me].id
    BY <1>8 DEF Get, RecordInv, CopyRecord, garmVars
  <2>2. CASE ~Live(obj.id) /\ obj' = [obj EXCEPT !.id = NoId] /\ pc' = "clear"
    <3>1. obj'.id = NoId /\ ~Live(obj.id)' /\ (fresh => ~Live(cr[me].id)')
      BY <1>1, <1>3, <2>1, <2>2, NoIdIsDead DEF Live
    <3> QED
      BY <1>2, <2>2, <3>1
  <2>3. CASE obj' = obj /\ pc' \in {"update", "ready", "false"}
    BY <1>2, <2>1, <2>3
  <2>4. CASE obj' = obj /\ Live(obj.id) /\ kind = "template" /\ pc' = "drop"
    BY <1>1, <2>1, <2>4 DEF CopyRecord
  <2> QED
    BY <1>4, <1>8, <2>2, <2>3, <2>4 DEF Get, AfterGet
<1>9. CASE Drop
  <2>1. pc = "drop" /\ obj.id = cr[me].id /\ kind = "template" /\ obj' = obj
    BY <1>9 DEF Drop, RecordInv, CopyRecord
  <2>2. CASE Erase /\ pc' = "create"
    <3>1. ~Live(cr[me].id)'
      <4>1. \A j \in Ids : garm'[j] = IF j = obj.id THEN Absent ELSE garm[j]
        BY <2>2, Erased DEF Erase
      <4> QED
        BY <1>1, <2>1, <4>1 DEF Live
    <3> QED
      BY <1>1, <2>1, <2>2, <3>1 DEF CopyRecord
  <2>3. CASE pc' = "false"
    BY <1>2, <2>1, <2>3
  <2> QED
    BY <1>9, <2>2, <2>3 DEF Drop
<1>10. CASE Update
  <2>1. pc = "update" /\ obj' = obj /\ pc' \in {"ready", "false"}
    BY <1>10 DEF Update
  <2>2. Narrows(garm, garm')
    BY <1>10, <2>1, CallGarm
  <2>3. \A i : Live(i)' => Live(i) /\ garm'[i].shape = garm[i].shape
    BY <2>2 DEF Narrows, Live
  <2>4. Live(cr[me].id)' => Live(cr[me].id)
    BY <1>1, <2>3 DEF Live
  <2>5. Live(obj.id)' => Live(obj.id) /\ garm'[obj.id].shape = garm[obj.id].shape
    BY <2>1, <2>3 DEF Live
  <2>6. fresh => \/ obj.id = cr[me].id
                 \/ /\ ~Live(cr[me].id)
                    /\ kind = "template" /\ Live(obj.id) => garm[obj.id].shape = obj.spec.shape
    BY <1>1 DEF RecordInv, CopyRecord
  <2> QED
    BY <1>2, <2>1, <2>4, <2>5, <2>6
<1> QED
  BY <1>5, <1>6, <1>7, <1>8, <1>9, <1>10 DEF Call

LEMMA CopyNext ==
  ASSUME TypeOK, FinalizerInv, RecordInv, [Next]_vars
  PROVE  CopyRecord'
<1>1. ASSUME pc' = "idle" PROVE CopyRecord'
  BY <1>1 DEF CopyRecord, ReconcileSteps
<1>2. ASSUME UNCHANGED <<cr, pc, me, obj, fresh, request, kind>>, Narrows(garm, garm')
      PROVE  CopyRecord'
  BY <1>2, CopyFrame DEF RecordInv
<1>3. CASE UNCHANGED vars
  BY <1>2, <1>3, NothingChanged DEF vars
<1>4. CASE AddFinalizer \/ MarkReady \/ MarkFalse \/ ClearId \/ RemoveFinalizer
  BY <1>1, <1>4
  DEF AddFinalizer, MarkReady, MarkFalse, ClearId, RemoveFinalizer, Commit, Write, Release,
    Requeue, Rest
<1>5. CASE Delete
  <2>1. CASE Goto("unfinalize") /\ UNCHANGED <<obj, request>>
    BY <1>5, <2>1 DEF Delete, Goto, RecordInv, CopyRecord, ReconcileSteps
  <2> QED
    BY <1>1, <1>5, <2>1 DEF Delete, Requeue, Rest
<1>6. CASE \/ \E n \in Names : CacheSync(n)
           \/ Rotate
           \/ \E x \in Shapes : EndpointChange(x)
  BY <1>2, <1>6, NothingChanged
  DEF CacheSync, Refresh, Rotate, EndpointChange, garmVars, world, kube
<1>7. ASSUME NEW n \in Names, UserCreate(n) \/ UserEdit(n) \/ UserDelete(n)
      PROVE  CopyRecord'
  <2>1. PICK o \in Resource \cup {Absent} :
          /\ Touch(n, o)
          /\ HasFinalizer(o) <=> HasFinalizer(cr[n])
          /\ OnRecord(o) = OnRecord(cr[n])
    BY <1>7, UserShape
  <2>2. /\ UNCHANGED <<pc, me, obj, garm, request, kind>> /\ (fresh' => fresh /\ me # n)
        /\ \A m \in Names : cr'[m] = IF m = n THEN o ELSE cr[m]
    BY <2>1 DEF Touch, Change, garmVars, world, TypeOK, KubeType
  <2>3. fresh' => cr'[me].id = cr[me].id
    BY <2>2 DEF TypeOK, KubeType
  <2>4. pc \in {"list", "create", "get", "drop"} => cr'[me].id = cr[me].id
    <3>1. pc \in {"list", "create", "get", "drop"} => me \in Names /\ HasFinalizer(cr[me])
      BY WorkerHolds DEF FinalizerInv, UnderFinalizer, ReconcileSteps, HasFinalizer, Exists
    <3> QED
      BY <2>1, <2>2, <3>1 DEF HasFinalizer, OnRecord
  <2> QED
    BY <2>2, <2>3, <2>4, NothingChanged, CopyFrame DEF RecordInv
<1>8. CASE \E i \in Ids : GarmEdit(i) \/ GarmDelete(i)
  BY <1>2, <1>8, WorldGarm DEF GarmEdit, GarmDelete, kube, world
<1>9. CASE Crash
  BY <1>1, <1>9 DEF Crash, Restart, Rest
<1> QED
  BY <1>3, <1>4, <1>5, <1>6, <1>7, <1>8, <1>9, CopyStart, CopyCall
  DEF Next, Work, Environment, Call

LEMMA RecordInit == Init => RecordInv
<1> SUFFICES ASSUME Init PROVE RecordInv
  OBVIOUS
<1>1. \A n \in Names : Exists(n) => cr[n].id = NoId
  BY DEF Init, Exists, NewResource
<1>2. cache = cr /\ pc = "idle" /\ obj = Absent /\ fresh = FALSE
  BY DEF Init
<1>3. \A n \in Names : \A o \in Copies(n) : o.id = NoId
  BY <1>1, <1>2 DEF Copies, Exists
<1>4. ASSUME NEW i \in Ids, Live(i)
      PROVE  IF kind = "endpoint" THEN i \in Names /\ garm[i].name = i ELSE i \in 1 .. minted
  <2>1. CASE /\ kind = "endpoint"
             /\ \E g \in Preexisting : garm = [j \in Ids |-> IF j = g.name THEN g ELSE Absent]
    <3>1. PICK g \in Preexisting : garm = [j \in Ids |-> IF j = g.name THEN g ELSE Absent]
      BY <2>1
    <3>2. g.name \in Names /\ garm[i] = g /\ i = g.name
      BY <1>4, <3>1, PreexistingAssumption DEF GarmObject, Live
    <3> QED
      BY <2>1, <3>2
  <2>2. CASE /\ kind # "endpoint" /\ minted = 1
             /\ \E g \in Preexisting : garm = [j \in Ids |-> IF j = 1 THEN g ELSE Absent]
    BY <1>4, <2>2 DEF Live
  <2> QED
    BY <1>4, <2>1, <2>2 DEF Init, Live
<1>5. NamesHold
  BY <1>3, <1>4, NoIdIsDead DEF NamesHold
<1>6. CachedTemplates
  <2>1. \A n \in Names : cache[n] # Absent => cache[n].id = NoId /\ cr[n].id = NoId
    BY <1>1, <1>2 DEF Exists
  <2> QED
    BY <2>1, NoIdIsDead DEF CachedTemplates
<1>7. CopyRecord
  BY <1>2 DEF CopyRecord, ReconcileSteps
<1> QED
  BY <1>5, <1>6, <1>7 DEF RecordInv

\* However old the copy that a reconciliation read, it does not make the object on
\* record a second time, although GARM accepts two templates of a name; and what
\* it writes keeps the id on record or replaces one that is gone.
THEOREM RecordInvariant == Spec => []RecordInv
<1>1. TypeOK /\ FinalizerInv /\ RecordInv /\ [Next]_vars => RecordInv'
  BY NamesHoldNext, CachedNext, CopyNext DEF RecordInv
<1> QED
  BY <1>1, RecordInit, TypeCorrect, FinalizerInvariant, PTL DEF Spec

-----------------------------------------------------------------------------
(* The steps as Custody sees them.                                          *)

CustodyStep == [GarmCustody!Next]_(GarmCustody!custody)

\* Neither a resource nor the set of living objects has changed.
LEMMA CustodyStutter ==
  ASSUME UNCHANGED <<Guarded, Recorded>>, \A i \in Ids : Live(i)' <=> Live(i)
  PROVE  CustodyStep
BY DEF CustodyStep, GarmCustody!custody, Alive

\* What the reconciliation writes either keeps the id on record or replaces one
\* that is gone; the first write puts the finalizer on.
LEMMA CustodyWrite ==
  ASSUME TypeOK, FinalizerInv, RecordInv, AddFinalizer \/ MarkReady \/ MarkFalse \/ ClearId
  PROVE  CustodyStep
<1>1. PICK o \in Resource : /\ Commit(o) /\ pc \in {"finalize", "ready", "false", "clear"}
                            /\ o.finalizer /\ o.id = obj.id
  BY WriteShape
<1>2. /\ me \in Names /\ garm' = garm
      /\ \A i \in Ids : Live(i)' <=> Live(i)
  BY <1>1, WorkerHolds DEF Commit, garmVars, Live
<1>3. CASE cr' = cr
  BY <1>2, <1>3, RecordsSame, CustodyStutter
<1>4. CASE fresh /\ cr' = [cr EXCEPT ![me] = o]
  <2>1. Exists(me) /\ HasFinalizer(o) /\ OnRecord(o) = o.id /\ OnRecord(cr[me]) = cr[me].id
    BY <1>1, <1>4, AbsentAssumption
    DEF FinalizerInv, KubeInv, FreshCopy, Exists, HasFinalizer, OnRecord
  <2>2. CASE o.id = cr[me].id /\ HasFinalizer(cr[me])
    BY <1>2, <1>4, <2>1, <2>2, RecordsKept, CustodyStutter DEF TypeOK
  <2>3. CASE o.id = cr[me].id /\ ~HasFinalizer(cr[me])
    <3> DEFINE r == OnRecord(o)
    <3>1. Guarded' = Guarded \cup {me} /\ Recorded' = [Recorded EXCEPT ![me] = r]
      BY <1>2, <1>4, <2>1, RecordsOf DEF TypeOK
    <3>2. me \notin Guarded /\ [Recorded EXCEPT ![me] = OnRecord(cr[me])] = Recorded
      BY <1>2, <2>3, RecordsAt
    <3>3. r = OnRecord(cr[me])
      BY <2>1, <2>3
    <3> HIDE DEF r
    <3>4. Recorded' = Recorded
      BY <3>1, <3>2, <3>3
    <3>5. Alive' = Alive
      BY <1>2 DEF Alive, Live
    <3> QED
      BY <1>2, <3>1, <3>2, <3>4, <3>5 DEF CustodyStep, GarmCustody!Next, GarmCustody!Guard
  <2>4. CASE o.id # cr[me].id
    <3>1. pc # "finalize" /\ ~Live(cr[me].id) /\ HasFinalizer(cr[me])
      <4>1. pc # "finalize" /\ ~Live(cr[me].id)
        BY <1>1, <1>4, <2>4 DEF RecordInv, CopyRecord, ReconcileSteps
      <4>2. HasFinalizer(cr[me])
        BY <1>1, <4>1 DEF FinalizerInv, UnderFinalizer, ReconcileSteps, HasFinalizer, Exists
      <4> QED
        BY <4>1, <4>2
    <3>2. me \in Guarded /\ Recorded[me] \notin Alive
      BY <1>2, <2>1, <3>1, RecordsAt DEF Alive
    <3>3. Guarded' = Guarded /\ Recorded' = [Recorded EXCEPT ![me] = o.id]
      <4>1. /\ Guarded' = Guarded \cup {me}
            /\ Recorded' = [Recorded EXCEPT ![me] = OnRecord(o)]
        BY <1>2, <1>4, <2>1, RecordsOf DEF TypeOK
      <4>2. OnRecord(o) = o.id
        BY <2>1
      <4> QED
        BY <3>2, <4>1, <4>2
    <3>4. Alive' = Alive /\ o.id \in Ids \cup {NoId}
      BY <1>2 DEF Alive, Live, Resource, Ids, NoId
    <3>5. GarmCustody!Record(me, o.id)
      BY <3>2, <3>3, <3>4 DEF GarmCustody!Record
    <3> QED
      BY <1>2, <3>4, <3>5 DEF CustodyStep, GarmCustody!Next
  <2> QED
    BY <2>2, <2>3, <2>4
<1> QED
  BY <1>1, <1>3, <1>4 DEF Commit, Write

\* A creation, whether or not its answer arrives.
LEMMA CustodyCreate ==
  ASSUME TypeOK, FinalizerInv, RecordInv, pc = "create", Mint, cr' = cr
  PROVE  CustodyStep
<1>1. /\ me \in Names /\ HasFinalizer(cr[me]) /\ ~Live(cr[me].id) /\ ~Live(NewId)
  BY RecordedIsGone, WorkerHolds
<1>2. me \in Guarded /\ Recorded[me] \notin Alive
  BY <1>1, RecordsAt DEF HasFinalizer, OnRecord, Alive
<1>3. /\ NewId \in Ids
      /\ garm'[NewId] # Absent
      /\ \A j \in Ids : j # NewId => garm'[j] = garm[j]
  BY NewIdType, Minted
<1>4. Alive' = Alive \cup {NewId} /\ NewId \notin Alive
  BY <1>1, <1>3 DEF Alive, Live
<1>5. GarmCustody!Create(me, NewId)
  BY <1>2, <1>4, RecordsSame DEF GarmCustody!Create
<1> QED
  BY <1>1, <1>3, <1>5 DEF CustodyStep, GarmCustody!Next

LEMMA CustodyDestroy ==
  ASSUME TypeOK, NEW i, garm' = [garm EXCEPT ![i] = Absent], cr' = cr
  PROVE  CustodyStep
<1>1. \A j \in Ids : garm'[j] = IF j = i THEN Absent ELSE garm[j]
  BY Erased
<1>2. CASE i \notin Alive
  <2>1. \A j \in Ids : Live(j)' <=> Live(j)
    BY <1>1, <1>2 DEF Live, Alive
  <2> QED
    BY <2>1, RecordsSame, CustodyStutter
<1>3. CASE i \in Alive
  <2>1. Alive' = Alive \ {i} /\ i \in Ids
    BY <1>1, <1>3 DEF Alive, Live
  <2>2. GarmCustody!Destroy(i)
    BY <1>3, <2>1, RecordsSame DEF GarmCustody!Destroy
  <2> QED
    BY <2>1, <2>2 DEF CustodyStep, GarmCustody!Next
<1> QED
  BY <1>2, <1>3

LEMMA CustodyCall ==
  ASSUME TypeOK, FinalizerInv, RecordInv, Call
  PROVE  CustodyStep
<1>1. cr' = cr /\ pc # "idle"
  BY CallShape DEF kube
<1>2. ASSUME \A i \in Ids : Live(i)' <=> Live(i) PROVE CustodyStep
  BY <1>1, <1>2, RecordsSame, CustodyStutter
<1>3. CASE garm' = garm
  BY <1>2, <1>3 DEF Live
<1>4. CASE Update
  BY <1>1, <1>2, <1>3, <1>4, Updated DEF Update
<1>5. CASE Drop
  BY <1>1, <1>3, <1>5, CustodyDestroy DEF Drop, Erase
<1>6. CASE Create
  BY <1>1, <1>3, <1>6, CustodyCreate DEF Create, garmVars
<1>7. CASE List \/ Adopt \/ Get
  BY <1>3, <1>7 DEF List, Adopt, Get, garmVars
<1> QED
  BY <1>4, <1>5, <1>6, <1>7 DEF Call

\* Letting a resource go.
LEMMA CustodyRelease ==
  ASSUME TypeOK, FinalizerInv, RemoveFinalizer
  PROVE  CustodyStep
<1>1. /\ pc = "unfinalize" /\ me \in Names /\ garm' = garm
      /\ UnderDeletion /\ ~Live(obj.id)
      /\ \A i \in Ids : Live(i)' <=> Live(i)
  BY WorkerHolds DEF RemoveFinalizer, FinalizerInv, DeleteSteps, garmVars, Live
<1>2. CASE cr' = cr
  BY <1>1, <1>2, RecordsSame, CustodyStutter
<1>3. CASE fresh /\ cr' = [cr EXCEPT ![me] = Absent]
  <2>1. Exists(me) /\ cr[me].finalizer /\ ~Live(cr[me].id)
    BY <1>1, <1>3 DEF FinalizerInv, KubeInv, FreshCopy, BareHasNothing, UnderDeletion
  <2>2. me \in Guarded /\ Recorded[me] \notin Alive
    BY <1>1, <2>1, RecordsAt DEF Exists, HasFinalizer, OnRecord, Alive
  <2>3. ~HasFinalizer(Absent) /\ OnRecord(Absent) = NoId
    BY DEF HasFinalizer, OnRecord
  <2>4. /\ Alive' = Alive /\ Guarded' = Guarded \ {me}
        /\ Recorded' = [Recorded EXCEPT ![me] = NoId]
    BY <1>1, <1>3, <2>3, RecordsOf DEF Alive, Live, TypeOK
  <2>5. GarmCustody!Release(me)
    BY <2>2, <2>4 DEF GarmCustody!Release
  <2> QED
    BY <1>1, <2>5 DEF CustodyStep, GarmCustody!Next
<1> QED
  BY <1>2, <1>3 DEF RemoveFinalizer, Release

\* What users do leaves both finalizers and ids as they are.
LEMMA CustodyUser ==
  ASSUME TypeOK, FinalizerInv, NEW n \in Names, UserCreate(n) \/ UserEdit(n) \/ UserDelete(n)
  PROVE  CustodyStep
<1>1. PICK o \in Resource \cup {Absent} :
        /\ Touch(n, o)
        /\ HasFinalizer(o) <=> HasFinalizer(cr[n])
        /\ OnRecord(o) = OnRecord(cr[n])
  BY UserShape
<1>2. cr' = [cr EXCEPT ![n] = o] /\ garm' = garm
  BY <1>1 DEF Touch, Change, garmVars
<1>3. UNCHANGED <<Guarded, Recorded>>
  BY <1>1, <1>2, RecordsKept DEF TypeOK
<1> QED
  BY <1>2, <1>3, CustodyStutter DEF Live

LEMMA CustodyGarm ==
  ASSUME TypeOK, NEW i \in Ids, GarmEdit(i) \/ GarmDelete(i)
  PROVE  CustodyStep
<1>1. cr' = cr
  BY DEF GarmEdit, GarmDelete, kube
<1>2. CASE GarmDelete(i)
  BY <1>1, <1>2, CustodyDestroy DEF GarmDelete
<1>3. CASE GarmEdit(i)
  <2>1. Narrows(garm, garm')
    BY <1>3, WorldGarm
  <2>2. PICK v \in Settings : garm' = [garm EXCEPT ![i].settings = v]
    BY <1>3 DEF GarmEdit
  <2> DEFINE g == [garm[i] EXCEPT !.settings = v]
  <2>3. Live(i) /\ g \in GarmObject /\ garm' = [garm EXCEPT ![i] = g]
    BY <1>3, <2>2 DEF GarmEdit, Live, TypeOK, GarmObject
  <2> HIDE DEF g
  <2>4. \A j \in Ids : Live(j)' <=> Live(j)
    BY <2>3, AbsentAssumption DEF Live, TypeOK
  <2> QED
    BY <1>1, <2>4, RecordsSame, CustodyStutter
<1> QED
  BY <1>2, <1>3

LEMMA CustodyInit == Init => GarmCustody!Init
<1> SUFFICES ASSUME Init PROVE GarmCustody!Init
  OBVIOUS
<1>1. \A n \in Names : Exists(n) => ~cr[n].finalizer /\ cr[n].id = NoId
  BY DEF Init, Exists, NewResource
<1>2. \A n \in Names : ~HasFinalizer(cr[n]) /\ OnRecord(cr[n]) = NoId
  BY <1>1 DEF Exists, HasFinalizer, OnRecord
<1>3. Guarded = {} /\ Alive \subseteq Ids
  BY <1>2 DEF Guarded, Alive
<1>4. Recorded = [n \in Names |-> NoId]
  BY <1>2 DEF Recorded
<1> QED
  BY <1>3, <1>4 DEF GarmCustody!Init

LEMMA CustodyNext ==
  ASSUME TypeOK, FinalizerInv, RecordInv, [Next]_vars
  PROVE  CustodyStep
<1>1. ASSUME UNCHANGED <<cr, garm>> PROVE CustodyStep
  BY <1>1, RecordsSame, CustodyStutter DEF Live
<1>2. CASE UNCHANGED vars
  BY <1>1, <1>2 DEF vars, garmVars
<1>3. CASE \E n \in Names : Start(n)
  BY <1>1, <1>3 DEF Start, Take, garmVars
<1>4. CASE Delete
  <2>1. cr' = cr
    BY <1>4 DEF Delete, kube
  <2> QED
    BY <1>1, <1>4, <2>1, CustodyDestroy DEF Delete, Erase
<1>5. CASE \/ \E n \in Names : CacheSync(n)
           \/ Rotate
           \/ \E x \in Shapes : EndpointChange(x)
           \/ Crash
  BY <1>1, <1>5 DEF CacheSync, Refresh, Rotate, EndpointChange, Crash, Restart, kube, garmVars
<1> QED
  BY <1>2, <1>3, <1>4, <1>5, CustodyWrite, CustodyCall, CustodyRelease, CustodyUser, CustodyGarm
  DEF Next, Work, Environment, Call

\* The endpoint, credentials and template reconcilers implement Custody,
\* whatever faults, crashes, conflicts and stale copies there are: an object is
\* created only for a resource under the finalizer with no living object on
\* record, and no record of a living object is given up.
THEOREM ForgeKeepsCustody == Spec => KeepsCustody
<1>1. TypeOK /\ FinalizerInv /\ RecordInv /\ [Next]_vars
        => [GarmCustody!Next]_(GarmCustody!custody)
  BY CustodyNext DEF CustodyStep
<1> QED
  BY <1>1, CustodyInit, TypeCorrect, FinalizerInvariant, RecordInvariant, PTL
  DEF Spec, KeepsCustody, GarmCustody!Spec
=============================================================================
