----------------------- MODULE EntityControllerProofs -----------------------
(***************************************************************************)
(* Proofs about EntityController, for every value of its constants.         *)
(***************************************************************************)
EXTENDS EntityController, KubernetesProofs

USE MaxEntitiesAssumption, MaxDisruptionsAssumption, NobodyAssumption, AbsentAssumption

-----------------------------------------------------------------------------
(* What the steps do, apart from what they are for.                         *)

LEMMA WorkerHolds ==
  ASSUME TypeOK, pc # "idle"
  PROVE  me \in Names /\ obj \in Entity /\ obj.spec \in EntitySpec
BY DEF TypeOK, KubeType, Entity

\* No id is no entity's.
LEMMA NoIdIsDead == ~Live(NoId)
BY DEF Live, Ids, NoId

\* Calls of GARM on the way to Ready.
Call == Create \/ Adopt \/ Get \/ Replace \/ Update \/ HookInfo \/ HookInstall

\* They change nothing of Kubernetes, and of the copy the id at most.
LEMMA CallShape ==
  ASSUME TypeOK, Call
  PROVE  /\ pc \in {"create", "adopt", "get", "replace", "update", "hookInfo", "hookInstall"}
         /\ pc' \in ReconcileSteps \ {"finalize"}
         /\ UNCHANGED kube /\ UNCHANGED <<me, fresh, refs, fixed>>
         /\ budget' = budget \/ Disrupt("fault")
         /\ obj' \in Entity /\ obj' = [obj EXCEPT !.id = obj'.id]
<1> USE DEF Goto, ReconcileSteps
<1>1. /\ pc \in {"create", "adopt", "get", "replace", "update", "hookInfo", "hookInstall"}
      /\ pc # "idle" /\ obj \in Entity
  BY WorkerHolds DEF Call, Create, Adopt, Get, Replace, Update, HookInfo, HookInstall
<1>2. ASSUME NEW i \in 0 .. MaxEntities, obj' = [obj EXCEPT !.id = i]
      PROVE  obj' \in Entity /\ obj' = [obj EXCEPT !.id = obj'.id]
  BY <1>1, <1>2 DEF Entity
<1>3. obj = [obj EXCEPT !.id = obj.id]
  BY <1>1 DEF Entity
<1>4. CASE Create
  <2>1. minted < MaxEntities => minted + 1 \in 0 .. MaxEntities
    BY DEF TypeOK
  <2> QED
    BY <1>1, <1>2, <1>3, <1>4, <2>1 DEF Create, Mint, AfterSync, garmVars, fixed
<1>5. CASE Adopt
  BY <1>1, <1>2, <1>3, <1>5 DEF Adopt, AfterSync, garmVars, fixed, Ids
<1>6. CASE Get
  BY <1>1, <1>2, <1>3, <1>6 DEF Get, AfterGet, AfterSync, garmVars, fixed, NoId
<1>7. CASE Replace
  BY <1>1, <1>2, <1>3, <1>7 DEF Replace, fixed, NoId
<1>8. CASE Update \/ HookInfo \/ HookInstall
  BY <1>1, <1>3, <1>8 DEF Update, HookInfo, HookInstall, AfterSync, garmVars, fixed
<1> QED
  BY <1>4, <1>5, <1>6, <1>7, <1>8 DEF Call

\* What becomes of GARM's entities, other than that a new one is made: they keep
\* their names, or go.
Narrows(g, h) ==
  /\ h \in [Ids -> GarmEntity \cup {Absent}]
  /\ \A i \in Ids : h[i] # Absent => g[i] # Absent /\ h[i].ident = g[i].ident

LEMMA NothingChanged == ASSUME TypeOK, garm' = garm PROVE Narrows(garm, garm')
BY DEF Narrows, TypeOK

LEMMA Erased ==
  ASSUME TypeOK, NEW i, garm' = [garm EXCEPT ![i] = Absent]
  PROVE  /\ Narrows(garm, garm')
         /\ \A j \in Ids : garm'[j] = IF j = i THEN Absent ELSE garm[j]
BY DEF Narrows, TypeOK

LEMMA Changed ==
  ASSUME TypeOK, NEW i \in Ids, NEW g \in GarmEntity, Live(i), g.ident = garm[i].ident,
         garm' = [garm EXCEPT ![i] = g]
  PROVE  /\ Narrows(garm, garm')
         /\ \A j \in Ids : garm'[j] = IF j = i THEN g ELSE garm[j]
BY DEF Narrows, TypeOK, Live

\* An update, as one new value of the entity.
LEMMA Updated ==
  ASSUME TypeOK, pc # "idle", ApplyUpdate
  PROVE  LET g == [garm[obj.id] EXCEPT !.settings = obj.spec.settings,
                                       !.own = @ \/ obj.spec.own]
         IN  /\ obj.id \in Ids /\ Live(obj.id) /\ Narrows(garm, garm')
             /\ g \in GarmEntity /\ g.ident = garm[obj.id].ident
             /\ \A j \in Ids : garm'[j] = IF j = obj.id THEN g ELSE garm[j]
<1> DEFINE g == [garm[obj.id] EXCEPT !.settings = obj.spec.settings,
                                     !.own = @ \/ obj.spec.own]
<1>1. obj.id \in Ids /\ Live(obj.id) /\ garm[obj.id] \in GarmEntity
  BY DEF ApplyUpdate, Live, TypeOK
<1>2. obj.spec.settings \in Settings /\ obj.spec.own \in BOOLEAN
  BY WorkerHolds DEF EntitySpec
<1>3. g \in GarmEntity /\ g.ident = garm[obj.id].ident
  BY <1>1, <1>2 DEF GarmEntity
<1>4. garm' = [garm EXCEPT ![obj.id] = g]
  BY <1>1 DEF ApplyUpdate, TypeOK
<1> HIDE DEF g
<1>5. /\ Narrows(garm, garm')
      /\ \A j \in Ids : garm'[j] = IF j = obj.id THEN g ELSE garm[j]
  BY <1>1, <1>3, <1>4, Changed
<1> QED
  BY <1>1, <1>3, <1>5 DEF g

LEMMA Installed ==
  ASSUME TypeOK, InstallWebhook
  PROVE  LET g == [garm[obj.id] EXCEPT !.hook = TRUE]
         IN  /\ obj.id \in Ids /\ Live(obj.id) /\ Narrows(garm, garm')
             /\ g \in GarmEntity /\ g.ident = garm[obj.id].ident
             /\ \A j \in Ids : garm'[j] = IF j = obj.id THEN g ELSE garm[j]
<1> DEFINE g == [garm[obj.id] EXCEPT !.hook = TRUE]
<1>1. obj.id \in Ids /\ Live(obj.id) /\ garm[obj.id] \in GarmEntity
  BY DEF InstallWebhook, Live, TypeOK
<1>2. g \in GarmEntity /\ g.ident = garm[obj.id].ident
  BY <1>1 DEF GarmEntity
<1>3. garm' = [garm EXCEPT ![obj.id] = g]
  BY <1>1 DEF InstallWebhook, TypeOK
<1> HIDE DEF g
<1>4. /\ Narrows(garm, garm')
      /\ \A j \in Ids : garm'[j] = IF j = obj.id THEN g ELSE garm[j]
  BY <1>1, <1>2, <1>3, Changed
<1> QED
  BY <1>1, <1>2, <1>4 DEF g

\* A creation: the id is new, and so is the name.
LEMMA Minted ==
  ASSUME TypeOK, NEW spec \in EntitySpec, Mint(spec)
  PROVE  LET g == [ident |-> spec.ident, settings |-> spec.settings,
                   own |-> spec.own, hook |-> FALSE]
         IN  /\ minted + 1 \in Ids /\ minted' = minted + 1 /\ minted' \in 0 .. MaxEntities
             /\ garm' \in [Ids -> GarmEntity \cup {Absent}]
             /\ g \in GarmEntity
             /\ garm'[minted + 1] = g
             /\ \A j \in Ids : j # minted + 1 => garm'[j] = garm[j]
             /\ \A j \in Ids : Live(j) => garm[j].ident # spec.ident
<1> DEFINE g == [ident |-> spec.ident, settings |-> spec.settings,
                 own |-> spec.own, hook |-> FALSE]
<1>1. g \in GarmEntity
  BY DEF EntitySpec, GarmEntity
<1>2. minted + 1 \in Ids /\ minted' = minted + 1 /\ minted' \in 0 .. MaxEntities
  BY DEF Mint, TypeOK, Ids
<1>3. garm' = [garm EXCEPT ![minted + 1] = g]
  BY DEF Mint
<1>4. \A j \in Ids : Live(j) => garm[j].ident # spec.ident
  BY DEF Mint, Named
<1> HIDE DEF g
<1>5. /\ garm' \in [Ids -> GarmEntity \cup {Absent}]
      /\ garm'[minted + 1] = g
      /\ \A j \in Ids : j # minted + 1 => garm'[j] = garm[j]
  BY <1>1, <1>2, <1>3 DEF TypeOK
<1> QED
  BY <1>1, <1>2, <1>4, <1>5 DEF g

\* Only Create makes an entity.
LEMMA CallGarm ==
  ASSUME TypeOK, Call
  PROVE  \/ minted' = minted /\ Narrows(garm, garm')
         \/ pc = "create" /\ Mint(obj.spec)
<1>1. pc # "idle"
  BY CallShape
<1>2. CASE garm' = garm /\ minted' = minted
  BY <1>2, NothingChanged
<1>3. CASE Create
  BY <1>2, <1>3 DEF Create, garmVars
<1>4. CASE Adopt \/ Get \/ HookInfo
  BY <1>2, <1>4 DEF Adopt, Get, HookInfo, garmVars
<1>5. CASE Replace
  BY <1>2, <1>5, Erased DEF Replace
<1>6. CASE Update
  BY <1>1, <1>2, <1>6, Updated DEF Update
<1>7. CASE HookInstall
  BY <1>2, <1>7, Installed DEF HookInstall
<1> QED
  BY <1>3, <1>4, <1>5, <1>6, <1>7 DEF Call

\* What a reconciliation writes: its copy, under the finalizer.
LEMMA WriteShape ==
  ASSUME TypeOK, FinalizerInv, AddFinalizer \/ MarkReady \/ MarkFalse \/ ClearId
  PROVE  \E o \in Entity :
           /\ Commit(o) /\ pc \in {"finalize", "ready", "false", "clear"}
           /\ o.finalizer /\ (pc # "finalize" => obj.finalizer)
           /\ o.spec = obj.spec /\ o.deleting = obj.deleting /\ o.id = obj.id
           /\ pc # "ready" => o.current = obj.current /\ (o.ready => obj.ready)
           /\ pc = "false" => ~o.ready
<1>1. obj \in Entity
  BY WorkerHolds DEF AddFinalizer, MarkReady, MarkFalse, ClearId
<1>2. pc \in {"ready", "false", "clear"} => obj.finalizer
  BY DEF FinalizerInv, UnderFinalizer, ReconcileSteps
<1>3. CASE AddFinalizer
  <2> [obj EXCEPT !.finalizer = TRUE] \in Entity
    BY <1>1 DEF Entity
  <2> WITNESS [obj EXCEPT !.finalizer = TRUE] \in Entity
  <2> QED
    BY <1>1, <1>3 DEF AddFinalizer, Entity
<1>4. CASE MarkReady
  <2> [obj EXCEPT !.ready = TRUE, !.current = TRUE] \in Entity
    BY <1>1 DEF Entity
  <2> WITNESS [obj EXCEPT !.ready = TRUE, !.current = TRUE] \in Entity
  <2> QED
    BY <1>1, <1>2, <1>4 DEF MarkReady, Entity
<1>5. CASE MarkFalse
  <2> [obj EXCEPT !.ready = FALSE] \in Entity
    BY <1>1 DEF Entity
  <2> WITNESS [obj EXCEPT !.ready = FALSE] \in Entity
  <2> QED
    BY <1>1, <1>2, <1>5 DEF MarkFalse, Entity
<1>6. CASE ClearId
  <2> obj \in Entity
    BY <1>1
  <2> WITNESS obj \in Entity
  <2> QED
    BY <1>1, <1>2, <1>6 DEF ClearId, Entity
<1> QED
  BY <1>3, <1>4, <1>5, <1>6

LEMMA NewEntityType ==
  ASSUME NEW s \in EntitySpec
  PROVE  NewEntity(s) \in Entity
BY DEF NewEntity, Entity, NoId

\* What users do to a resource: finalizer and id stay with it, and a new spec
\* or a deletion request is a new generation.
LEMMA UserShape ==
  ASSUME TypeOK, FinalizerInv, NEW n \in Names, UserCreate(n) \/ UserEdit(n) \/ UserDelete(n)
  PROVE  \E o \in Entity \cup {Absent} :
           /\ Touch(n, o)
           /\ HasFinalizer(o) <=> HasFinalizer(cr[n])
           /\ OnRecord(o) = OnRecord(cr[n])
           /\ o # Absent /\ ~o.finalizer => o.id = NoId /\ ~o.deleting
           /\ o # Absent => /\ ~o.current
                            /\ o.spec \in Wanted[kind][n] \/ (Exists(n) /\ o.spec = cr[n].spec)
<1> USE DEF HasFinalizer, OnRecord
<1>1. \A s \in Wanted[kind][n] : s \in EntitySpec
  BY WantedAssumption DEF TypeOK
<1>2. Exists(n) => cr[n] \in Entity
  BY DEF Exists, TypeOK, KubeType
<1>3. Exists(n) /\ ~cr[n].finalizer => cr[n].id = NoId /\ ~cr[n].deleting
  BY DEF FinalizerInv, KubeInv, BareHasNothing
<1>4. CASE UserCreate(n)
  <2>1. PICK s \in Wanted[kind][n] : Touch(n, NewEntity(s))
    BY <1>4 DEF UserCreate
  <2> NewEntity(s) \in Entity
    BY <1>1, NewEntityType
  <2>2. cr[n] = Absent
    BY <1>4 DEF UserCreate, Exists
  <2> WITNESS NewEntity(s) \in Entity \cup {Absent}
  <2> QED
    BY <2>1, <2>2 DEF NewEntity
<1>5. CASE UserEdit(n)
  <2>1. PICK s \in Wanted[kind][n] : Touch(n, [cr[n] EXCEPT !.spec = s, !.current = FALSE])
    BY <1>5 DEF UserEdit
  <2>2. cr[n] \in Entity /\ cr[n] # Absent /\ s \in EntitySpec
    BY <1>1, <1>2, <1>5 DEF UserEdit, Exists
  <2> [cr[n] EXCEPT !.spec = s, !.current = FALSE] \in Entity
    BY <2>2 DEF Entity
  <2> WITNESS [cr[n] EXCEPT !.spec = s, !.current = FALSE] \in Entity \cup {Absent}
  <2> QED
    BY <1>3, <2>1, <2>2 DEF Entity, Exists
<1>6. CASE UserDelete(n)
  <2>1. Touch(n, Deleted(cr[n])) /\ cr[n] \in Entity /\ Exists(n)
    BY <1>2, <1>6 DEF UserDelete
  <2>2. CASE cr[n].finalizer
    <3> [cr[n] EXCEPT !.deleting = TRUE, !.current = FALSE] \in Entity
      BY <2>1 DEF Entity
    <3> WITNESS [cr[n] EXCEPT !.deleting = TRUE, !.current = FALSE] \in Entity \cup {Absent}
    <3> QED
      BY <2>1, <2>2 DEF Entity, Deleted, Exists
  <2>3. CASE ~cr[n].finalizer
    <3> WITNESS Absent \in Entity \cup {Absent}
    <3> QED
      BY <1>3, <2>1, <2>3 DEF Deleted, Exists
  <2> QED
    BY <2>2, <2>3
<1> QED
  BY <1>4, <1>5, <1>6

\* What happens in GARM behind the operator's back.
LEMMA WorldGarm ==
  ASSUME TypeOK, NEW i \in Ids, GarmEdit(i) \/ GarmDelete(i)
  PROVE  /\ Narrows(garm, garm') /\ minted' = minted /\ meddled' = TRUE
         /\ UNCHANGED kube /\ UNCHANGED <<pc, me, obj, fresh, refs, kind>>
         /\ budget' \in 0 .. MaxDisruptions
<1>1. budget' \in 0 .. MaxDisruptions
  BY DisruptBudget DEF GarmEdit, GarmDelete, TypeOK, KubeType
<1>2. CASE GarmEdit(i)
  <2>1. PICK v \in Settings, h \in BOOLEAN :
          garm' = [garm EXCEPT ![i] = [@ EXCEPT !.settings = v, !.hook = h]]
    BY <1>2 DEF GarmEdit
  <2> DEFINE g == [garm[i] EXCEPT !.settings = v, !.hook = h]
  <2>2. g \in GarmEntity /\ g.ident = garm[i].ident
    BY <1>2 DEF GarmEdit, Live, TypeOK, GarmEntity
  <2>3. garm' = [garm EXCEPT ![i] = g]
    BY <2>1
  <2> HIDE DEF g
  <2> QED
    BY <1>1, <1>2, <2>2, <2>3, Changed DEF GarmEdit
<1>3. CASE GarmDelete(i)
  BY <1>1, <1>3, Erased DEF GarmDelete
<1> QED
  BY <1>2, <1>3

-----------------------------------------------------------------------------
(* Type correctness, and the finalizer.                                     *)

\* What the steps do, by what becomes of GARM.
LEMMA GarmSteps ==
  ASSUME TypeOK, [Next]_vars
  PROVE  \/ Narrows(garm, garm') /\ minted' = minted
         \/ pc = "create" /\ Mint(obj.spec) /\ obj.spec \in EntitySpec
<1>1. CASE UNCHANGED garmVars
  BY <1>1, NothingChanged DEF garmVars
<1>2. CASE Call
  BY <1>2, CallGarm, CallShape, WorkerHolds
<1>3. CASE Delete
  BY <1>1, <1>3, NothingChanged, Erased DEF Delete
<1>4. CASE \E i \in Ids : GarmEdit(i) \/ GarmDelete(i)
  BY <1>4, WorldGarm
<1>5. CASE UNCHANGED vars
  BY <1>1, <1>5 DEF vars
<1>6. CASE \E n \in Names : Start(n)
  BY <1>1, <1>6 DEF Start
<1>7. CASE AddFinalizer \/ MarkReady \/ MarkFalse \/ ClearId \/ RemoveFinalizer
  BY <1>1, <1>7 DEF AddFinalizer, MarkReady, MarkFalse, ClearId, RemoveFinalizer, Commit
<1>8. CASE \/ \E n \in Names : CacheSync(n) \/ UserCreate(n) \/ UserEdit(n) \/ UserDelete(n)
           \/ \E x \in Referable : RefChange(x)
           \/ Crash
  BY <1>1, <1>8 DEF CacheSync, UserCreate, UserEdit, UserDelete, Touch, RefChange, Crash
<1> QED
  BY <1>2, <1>3, <1>4, <1>5, <1>6, <1>7, <1>8 DEF Next, Work, Environment, Call

\* The part of TypeOK that is not Kubernetes'.
LEMMA GarmType ==
  ASSUME TypeOK, [Next]_vars
  PROVE  /\ refs' \subseteq References /\ kind' = kind /\ meddled' \in BOOLEAN
         /\ garm' \in [Ids -> GarmEntity \cup {Absent}] /\ minted' \in 0 .. MaxEntities
<1>1. garm' \in [Ids -> GarmEntity \cup {Absent}] /\ minted' \in 0 .. MaxEntities
  BY GarmSteps, Minted DEF Narrows, TypeOK
<1>2. CASE UNCHANGED <<refs, fixed>>
  BY <1>1, <1>2 DEF TypeOK, fixed
<1>3. CASE Call
  BY <1>2, <1>3, CallShape
<1>4. CASE \E i \in Ids : GarmEdit(i) \/ GarmDelete(i)
  <2>1. UNCHANGED <<refs, kind>> /\ meddled' = TRUE
    BY <1>4, WorldGarm
  <2> QED
    BY <1>1, <2>1 DEF TypeOK
<1>5. CASE \E x \in Referable : RefChange(x)
  BY <1>1, <1>5 DEF RefChange, Referable, garmVars, fixed, TypeOK
<1>6. CASE UNCHANGED vars
  BY <1>2, <1>6 DEF vars, garmVars
<1>7. CASE \E n \in Names : Start(n)
  BY <1>2, <1>7 DEF Start, garmVars
<1>8. CASE AddFinalizer \/ MarkReady \/ MarkFalse \/ ClearId \/ Delete \/ RemoveFinalizer
  BY <1>2, <1>8
  DEF AddFinalizer, MarkReady, MarkFalse, ClearId, Delete, RemoveFinalizer, Commit, garmVars, fixed
<1>9. CASE \/ \E n \in Names : CacheSync(n) \/ UserCreate(n) \/ UserEdit(n) \/ UserDelete(n)
           \/ Crash
  BY <1>2, <1>9 DEF CacheSync, UserCreate, UserEdit, UserDelete, Touch, Crash, garmVars
<1> QED
  BY <1>3, <1>4, <1>5, <1>6, <1>7, <1>8, <1>9 DEF Next, Work, Environment, Call

\* Each clause of the rest, for one kind of step at a time.
LEMMA StartKeeps ==
  ASSUME TypeOK, FinalizerInv, NEW n \in Names, Start(n)
  PROVE  TypeOK' /\ FinalizerInv'
<1> DEFINE step == FirstStep(cache[n])
<1>1. /\ Take(n, step) /\ UNCHANGED garm
      /\ cache[n] \in Entity \cup {Absent} /\ (n \notin stale => cache[n] = cr[n])
  BY DEF Start, garmVars, TypeOK, KubeType, FinalizerInv, KubeInv, CacheIsCurrent
<1>2. ASSUME ~Finished(cache[n])
      PROVE  /\ cache[n] \in Entity
             /\ step \in {"finalize", "create", "get", "false", "delete", "unfinalize"}
             /\ step \in {"create", "get", "false"} => cache[n].finalizer /\ ~cache[n].deleting
             /\ step \in {"delete", "unfinalize"} => cache[n].deleting
             /\ step = "unfinalize" => cache[n].id = NoId
  <2>1. cache[n] \in Entity
    BY <1>1, <1>2 DEF Finished
  <2> QED
    BY <2>1 DEF FirstStep, Entity
<1>3. Start(n) => [Next]_vars
  BY DEF Next
<1>4. CASE Finished(cache[n])
  <2>1. UNCHANGED <<pc, me, obj, fresh, cr, cache, budget, garm>> /\ queue' \subseteq Names
        /\ UNCHANGED stale
    BY <1>1, <1>4 DEF Take, TypeOK, KubeType
  <2>2. KubeType(Entity)' /\ KubeInv' /\ pc = "idle"
    BY <1>1, <2>1, AbsentAssumption, ElsewhereKube DEF TypeOK, FinalizerInv, KubeType, Take
  <2> QED
    BY <1>3, <2>1, <2>2, GarmType
    DEF TypeOK, FinalizerInv, ReconcileSteps, DeleteSteps
<1>5. CASE ~Finished(cache[n])
  <2> HIDE DEF step
  <2>1. KubeType(Entity)' /\ KubeInv'
    BY <1>1, <1>2, <1>5, TakeKube DEF TypeOK, FinalizerInv
  <2>2. /\ pc' = step /\ me' = n /\ obj' = cache[n] /\ fresh' = (n \notin stale)
        /\ UNCHANGED <<cr, cache, garm>>
    BY <1>1, <1>5 DEF Take
  <2>3. pc' \in ReconcileSteps \cup DeleteSteps
    BY <1>2, <1>5, <2>2 DEF ReconcileSteps, DeleteSteps
  <2>4. pc' \in ReconcileSteps \ {"finalize"} => UnderFinalizer'
    <3>1. pc' \in ReconcileSteps \ {"finalize"} => step \in {"create", "get", "false"}
      BY <1>2, <1>5, <2>2 DEF ReconcileSteps
    <3>2. cache[n].finalizer /\ ~cache[n].deleting => Exists(n) /\ cr[n].finalizer
      BY <1>5 DEF FinalizerInv, KubeInv, CachedFinalizerHolds, Finished
    <3> QED
      BY <1>2, <1>5, <2>2, <3>1, <3>2 DEF UnderFinalizer, Exists
  <2>5. pc' \in DeleteSteps => UnderDeletion'
    BY <1>1, <1>2, <1>5, <2>2 DEF UnderDeletion, DeleteSteps
  <2>6. pc' = "unfinalize" => ~Live(obj.id)'
    BY <1>2, <1>5, <2>2 DEF Live, Ids, NoId
  <2> QED
    BY <1>3, <2>1, <2>3, <2>4, <2>5, <2>6, GarmType DEF TypeOK, FinalizerInv
<1> QED
  BY <1>4, <1>5

LEMMA CallKeeps ==
  ASSUME TypeOK, FinalizerInv, Call
  PROVE  TypeOK' /\ FinalizerInv'
<1>1. /\ pc # "idle" /\ pc \in ReconcileSteps \ {"finalize"}
      /\ pc' # "idle" /\ pc' \in ReconcileSteps \ {"finalize"} /\ pc' \notin DeleteSteps
      /\ pc' # "unfinalize"
  BY CallShape DEF ReconcileSteps, DeleteSteps
<1>2. /\ obj' \in Entity /\ obj'.spec = obj.spec /\ obj'.finalizer = obj.finalizer
      /\ obj'.deleting = obj.deleting /\ obj'.ready = obj.ready /\ obj'.current = obj.current
  BY CallShape, WorkerHolds, <1>1 DEF Entity
<1>3. /\ KubeType(Entity)' /\ KubeInv'
      /\ UnderFinalizer'
  BY <1>1, <1>2, CallShape, CallKube DEF TypeOK, FinalizerInv
<1>4. [Next]_vars
  BY DEF Call, Next, Work
<1> QED
  BY <1>1, <1>3, <1>4, GarmType DEF TypeOK, FinalizerInv

LEMMA WriteKeeps ==
  ASSUME TypeOK, FinalizerInv, AddFinalizer \/ MarkReady \/ MarkFalse \/ ClearId
  PROVE  TypeOK' /\ FinalizerInv'
<1>1. PICK o \in Entity : Commit(o) /\ o.finalizer /\ pc # "idle"
  BY WriteShape
<1>2. KubeType(Entity)' /\ KubeInv'
  BY <1>1, WriteKube DEF Commit, TypeOK, FinalizerInv
<1>3. pc' = "idle"
  BY <1>1 DEF Commit, Write, Requeue, Rest
<1>4. [Next]_vars
  BY DEF Next, Work
<1> QED
  BY <1>2, <1>3, <1>4, GarmType DEF TypeOK, FinalizerInv, ReconcileSteps, DeleteSteps

LEMMA DeletionKeeps ==
  ASSUME TypeOK, FinalizerInv, Delete \/ RemoveFinalizer
  PROVE  TypeOK' /\ FinalizerInv'
<1>1. pc # "idle" /\ pc \in DeleteSteps /\ UnderDeletion
  BY DEF Delete, RemoveFinalizer, FinalizerInv, DeleteSteps
<1>2. [Next]_vars
  BY DEF Next, Work
<1>3. ASSUME KubeType(Entity)', KubeInv', pc' = "idle"
      PROVE  TypeOK' /\ FinalizerInv'
  BY <1>2, <1>3, GarmType DEF TypeOK, FinalizerInv, ReconcileSteps, DeleteSteps
<1>4. CASE RemoveFinalizer
  <2>1. pc' = "idle" /\ KubeType(Entity)' /\ KubeInv'
    BY <1>1, <1>4, ReleaseKube
    DEF RemoveFinalizer, Release, Rest, Requeue, TypeOK, FinalizerInv
  <2> QED
    BY <1>3, <2>1
<1>5. CASE Delete /\ UNCHANGED budget /\ UNCHANGED <<kube, obj>> /\ Goto("unfinalize")
           /\ garm' = [garm EXCEPT ![obj.id] = Absent]
  <2>1. /\ obj' = obj /\ obj \in Entity /\ pc' = "unfinalize" /\ pc' # "idle"
        /\ UNCHANGED <<me, fresh, cr, cache>>
    BY <1>1, <1>5, WorkerHolds DEF Goto, kube
  <2>2. KubeType(Entity)' /\ KubeInv'
    BY <1>1, <1>5, <2>1, CallKube DEF TypeOK, FinalizerInv
  <2>3. UnderDeletion'
    BY <1>1, <2>1 DEF UnderDeletion
  <2>4. ~Live(obj.id)'
    BY <1>5, <2>1, Erased DEF Live
  <2> QED
    BY <1>2, <2>1, <2>2, <2>3, <2>4, GarmType DEF TypeOK, FinalizerInv, ReconcileSteps, DeleteSteps
<1>6. CASE Disrupt("fault") /\ Requeue /\ UNCHANGED <<cr, cache, stale>>
  <2>1. KubeType(Entity)' /\ KubeInv'
    BY <1>1, <1>6, GiveUpKube DEF TypeOK, FinalizerInv
  <2> QED
    BY <1>3, <1>6, <2>1 DEF Requeue, Rest
<1> QED
  BY <1>4, <1>5, <1>6 DEF Delete

LEMMA WorldKeeps ==
  ASSUME TypeOK, FinalizerInv, Environment
  PROVE  TypeOK' /\ FinalizerInv'
<1> USE DEF ReconcileSteps, DeleteSteps
<1>1. [Next]_vars
  BY DEF Next
<1>2. ASSUME KubeType(Entity)', KubeInv', UNCHANGED <<pc, obj>>, Narrows(garm, garm'),
             pc # "idle" /\ UnderFinalizer => UnderFinalizer',
             pc # "idle" /\ UnderDeletion => UnderDeletion'
      PROVE  TypeOK' /\ FinalizerInv'
  <2>1. ~Live(obj.id) => ~Live(obj.id)'
    BY <1>2 DEF Live, Narrows
  <2> QED
    BY <1>1, <1>2, <2>1, GarmType DEF TypeOK, FinalizerInv
<1>3. ASSUME NEW n \in Names, CacheSync(n) PROVE TypeOK' /\ FinalizerInv'
  <2>1. UNCHANGED <<pc, obj, garm>> /\ Refresh(n)
    BY <1>3 DEF CacheSync, Refresh, garmVars
  <2>2. /\ KubeType(Entity)' /\ KubeInv'
        /\ UnderFinalizer => UnderFinalizer'
        /\ UnderDeletion => UnderDeletion'
    BY <2>1, RefreshKube DEF TypeOK, FinalizerInv
  <2> QED
    BY <1>2, <2>1, <2>2, NothingChanged
<1>4. ASSUME NEW n \in Names, UserCreate(n) \/ UserEdit(n) \/ UserDelete(n)
      PROVE  TypeOK' /\ FinalizerInv'
  <2>1. PICK o \in Entity \cup {Absent} :
          /\ Touch(n, o)
          /\ HasFinalizer(o) <=> HasFinalizer(cr[n])
          /\ o # Absent /\ ~o.finalizer => o.id = NoId /\ ~o.deleting
    BY <1>4, UserShape
  <2>2. Change(n, o) /\ UNCHANGED <<pc, obj, garm>>
    BY <2>1 DEF Touch, Change, garmVars
  <2>3. /\ KubeType(Entity)' /\ KubeInv'
        /\ pc # "idle" /\ UnderFinalizer => UnderFinalizer'
        /\ pc # "idle" /\ UnderDeletion => UnderDeletion'
    BY <2>1, <2>2, ChangeKube DEF TypeOK, FinalizerInv
  <2> QED
    BY <1>2, <2>2, <2>3, NothingChanged
<1>5. ASSUME NEW x \in Referable, RefChange(x) PROVE TypeOK' /\ FinalizerInv'
  <2>1. /\ UNCHANGED <<cr, cache, stale, pc, me, obj, fresh, garm>>
        /\ queue' \subseteq Names /\ budget' \in 0 .. MaxDisruptions
    BY <1>5, DisruptBudget DEF RefChange, garmVars, TypeOK, KubeType
  <2>2. /\ KubeType(Entity)' /\ KubeInv'
        /\ UnderFinalizer => UnderFinalizer'
        /\ UnderDeletion => UnderDeletion'
    BY <2>1, ElsewhereKube DEF TypeOK, FinalizerInv
  <2> QED
    BY <1>2, <2>1, <2>2, NothingChanged
<1>6. ASSUME NEW i \in Ids, GarmEdit(i) \/ GarmDelete(i) PROVE TypeOK' /\ FinalizerInv'
  <2>1. /\ UNCHANGED <<cr, cache, stale, pc, me, obj, fresh>> /\ Narrows(garm, garm')
        /\ queue' \subseteq Names /\ budget' \in 0 .. MaxDisruptions
    BY <1>6, WorldGarm DEF kube, TypeOK, KubeType
  <2>2. /\ KubeType(Entity)' /\ KubeInv'
        /\ UnderFinalizer => UnderFinalizer'
        /\ UnderDeletion => UnderDeletion'
    BY <2>1, ElsewhereKube DEF TypeOK, FinalizerInv
  <2> QED
    BY <1>2, <2>1, <2>2
<1>7. CASE Crash
  <2>1. KubeType(Entity)' /\ KubeInv' /\ pc' = "idle"
    BY <1>7, RestartKube DEF Crash, Restart, Rest, TypeOK, FinalizerInv
  <2> QED
    BY <1>1, <2>1, GarmType DEF TypeOK, FinalizerInv
<1> QED
  BY <1>3, <1>4, <1>5, <1>6, <1>7 DEF Environment

LEMMA StutterKeeps ==
  ASSUME TypeOK, FinalizerInv, UNCHANGED vars
  PROVE  TypeOK' /\ FinalizerInv'
<1> USE DEF vars, garmVars, fixed
<1>1. /\ UNCHANGED <<cr, cache, stale, pc, me, obj, fresh, garm>>
      /\ queue' \subseteq Names /\ budget' \in 0 .. MaxDisruptions
  BY DEF TypeOK, KubeType
<1>2. /\ KubeType(Entity)' /\ KubeInv'
      /\ UnderFinalizer => UnderFinalizer'
      /\ UnderDeletion => UnderDeletion'
  BY <1>1, ElsewhereKube DEF TypeOK, FinalizerInv
<1> QED
  BY <1>1, <1>2 DEF TypeOK, FinalizerInv, Live

LEMMA InitHolds == Init => TypeOK /\ FinalizerInv
<1> SUFFICES ASSUME Init PROVE TypeOK /\ FinalizerInv
  OBVIOUS
<1> USE DEF Init
<1>1. \A n \in Names : \A s \in Wanted[kind][n] : s \in EntitySpec
  BY WantedAssumption
<1>2. \A n \in Names : cr[n] # Absent =>
        /\ cr[n] \in Entity /\ ~cr[n].finalizer /\ cr[n].id = NoId /\ ~cr[n].deleting
  <2> SUFFICES ASSUME NEW n \in Names, cr[n] # Absent
               PROVE  /\ cr[n] \in Entity /\ ~cr[n].finalizer /\ cr[n].id = NoId
                      /\ ~cr[n].deleting
    OBVIOUS
  <2>1. PICK m \in Names : \E s \in Wanted[kind][m] : cr[n] = NewEntity(s)
    OBVIOUS
  <2> QED
    BY <1>1, <2>1, NewEntityType DEF NewEntity
<1>3. cr \in [Names -> Entity \cup {Absent}]
  BY <1>2
<1>4. KubeType(Entity)
  <2>1. /\ cache = cr /\ stale = {} /\ queue \subseteq Names
        /\ pc = "idle" /\ me = Nobody /\ obj = Absent /\ fresh = FALSE
        /\ budget \in 0 .. MaxDisruptions
    OBVIOUS
  <2> HIDE DEF Init
  <2> QED
    BY <1>3, <2>1 DEF KubeType
<1>5. KubeInv
  BY <1>2, <1>3
  DEF KubeInv, CacheIsCurrent, CachedFinalizerHolds, BareHasNothing, FreshCopy, FreshInFull, Exists
<1>6. garm \in [Ids -> GarmEntity \cup {Absent}] /\ minted \in 0 .. MaxEntities
  BY PreexistingAssumption
<1>7. refs \subseteq References
  BY DEF Referable
<1> QED
  BY <1>4, <1>5, <1>6, <1>7, KindsAssumption DEF TypeOK, FinalizerInv, ReconcileSteps, DeleteSteps

LEMMA Keeps ==
  ASSUME TypeOK, FinalizerInv, [Next]_vars
  PROVE  TypeOK' /\ FinalizerInv'
BY StartKeeps, CallKeeps, WriteKeeps, DeletionKeeps, WorldKeeps, StutterKeeps
DEF Next, Work, Call

\* The types that organizations, repositories and enterprises, and everything the
\* operator keeps about them, have in every behaviour.
THEOREM TypeCorrect == Spec => []TypeOK
<1>1. TypeOK /\ FinalizerInv /\ [Next]_vars => (TypeOK /\ FinalizerInv)'
  BY Keeps
<1> QED
  BY <1>1, InitHolds, PTL DEF Spec

\* No entity is made in GARM for a resource without a finalizer, and no resource
\* loses its finalizer while GARM holds its entity: what each step of the
\* reconciliation may rely on, however old the copy that it works on.
THEOREM FinalizerInvariant == Spec => []FinalizerInv
<1>1. TypeOK /\ FinalizerInv /\ [Next]_vars => (TypeOK /\ FinalizerInv)'
  BY Keeps
<1> QED
  BY <1>1, InitHolds, PTL DEF Spec

-----------------------------------------------------------------------------
(* The ids on copies.                                                       *)

\* A copy of n shows what an earlier copy of n did, or what users want; its id
\* comes from GARM's answer to this resource's own call.
LEMMA CopiesStep ==
  ASSUME TypeOK, FinalizerInv, [Next]_vars, NEW n \in Names, NEW o \in Copies(n)'
  PROVE  /\ o.spec \in Wanted[kind][n] \/ \E p \in Copies(n) : p.spec = o.spec
         /\ \/ o.id = NoId
            \/ \E p \in Copies(n) : p.id = o.id
            \/ n = me /\ Create /\ Mint(obj.spec) /\ o.id = minted + 1
            \/ n = me /\ Adopt /\ o.id \in Ids /\ Listed(obj.spec) = {o.id}
<1>1. ASSUME Copies(n)' \subseteq Copies(n) PROVE o \in Copies(n)
  BY <1>1
<1>2. CASE UNCHANGED vars
  BY <1>1, <1>2 DEF vars, Copies
<1>3. CASE \E m \in Names : Start(m)
  BY <1>1, <1>3, TakeCopies DEF Start
<1>4. CASE Call
  <2>1. UNCHANGED kube /\ UNCHANGED me /\ obj'.spec = obj.spec /\ pc # "idle"
    BY <1>4, CallShape, WorkerHolds DEF Entity
  <2>2. CASE n # me
    BY <1>1, <2>1, <2>2, CallCopies
  <2>3. CASE n = me /\ o \notin Copies(n)
    <3>1. o = obj'
      BY <2>1, <2>3, CallCopies
    <3>2. obj \in Copies(n)
      BY <2>1, <2>3, WorkerHolds DEF Copies
    <3>3. \/ obj'.id = obj.id \/ obj'.id = NoId
          \/ Create /\ Mint(obj.spec) /\ obj'.id = minted + 1
          \/ Adopt /\ obj'.id \in Ids /\ Listed(obj.spec) = {obj'.id}
      <4>1. ASSUME NEW i, obj' = [obj EXCEPT !.id = i] PROVE obj'.id = i
        BY <2>1, <4>1, WorkerHolds DEF Entity
      <4>2. CASE Create
        BY <4>1, <4>2 DEF Create
      <4>3. CASE Adopt
        BY <4>1, <4>3 DEF Adopt
      <4>4. CASE Get \/ Replace
        BY <4>1, <4>4 DEF Get, Replace
      <4>5. CASE Update \/ HookInfo \/ HookInstall
        BY <4>5 DEF Update, HookInfo, HookInstall
      <4> QED
        BY <1>4, <4>2, <4>3, <4>4, <4>5 DEF Call
    <3> QED
      BY <2>1, <2>3, <3>1, <3>2, <3>3
  <2> QED
    BY <2>2, <2>3
<1>5. CASE AddFinalizer \/ MarkReady \/ MarkFalse \/ ClearId
  <2>1. PICK w \in Entity : Commit(w) /\ w.spec = obj.spec /\ w.id = obj.id /\ pc # "idle"
    BY <1>5, WriteShape
  <2>2. n # me => o \in Copies(n)
    BY <1>1, <2>1, WriteCopies DEF Commit, TypeOK
  <2>3. n = me => o \in Copies(n) \cup {w} /\ obj \in Copies(n)
    BY <2>1, WriteCopies, WorkerHolds DEF Commit, TypeOK, Copies
  <2> QED
    BY <2>1, <2>2, <2>3
<1>6. CASE Delete
  <2>1. CASE UNCHANGED <<kube, obj>> /\ Goto("unfinalize")
    BY <1>1, <2>1 DEF Goto, kube, Copies
  <2>2. CASE Requeue /\ UNCHANGED <<cr, cache>>
    BY <1>1, <2>2, GiveUpCopies DEF Requeue
  <2> QED
    BY <1>6, <2>1, <2>2 DEF Delete
<1>7. CASE RemoveFinalizer
  BY <1>1, <1>7, ReleaseCopies DEF RemoveFinalizer, TypeOK
<1>8. ASSUME NEW m \in Names, CacheSync(m)
      PROVE  o \in Copies(n)
  BY <1>1, <1>8, RefreshCopies DEF CacheSync, TypeOK
<1>9. ASSUME NEW m \in Names, UserCreate(m) \/ UserEdit(m) \/ UserDelete(m)
      PROVE  /\ o.spec \in Wanted[kind][n] \/ \E p \in Copies(n) : p.spec = o.spec
             /\ o.id = NoId \/ \E p \in Copies(n) : p.id = o.id
  <2>1. PICK w \in Entity \cup {Absent} :
          /\ Touch(m, w)
          /\ OnRecord(w) = OnRecord(cr[m])
          /\ w # Absent => w.spec \in Wanted[kind][m] \/ (Exists(m) /\ w.spec = cr[m].spec)
    BY <1>9, UserShape
  <2>2. m # n => o \in Copies(n)
    BY <2>1, ChangeCopies DEF Touch, TypeOK
  <2>3. m = n => o \in Copies(n) \cup {w} /\ o # Absent
    BY <2>1, ChangeCopies DEF Touch, TypeOK, Copies
  <2>4. w # Absent => w.id = NoId \/ (Exists(m) /\ w.id = cr[m].id)
    BY <2>1 DEF OnRecord, Exists
  <2>5. m = n /\ Exists(m) => cr[m] \in Copies(n)
    BY DEF Copies, Exists
  <2> QED
    BY <2>1, <2>2, <2>3, <2>4, <2>5
<1>10. CASE \/ \E x \in Referable : RefChange(x)
            \/ \E i \in Ids : GarmEdit(i) \/ GarmDelete(i)
  BY <1>1, <1>10 DEF RefChange, GarmEdit, GarmDelete, kube, Copies
<1>11. CASE Crash
  BY <1>1, <1>11, RestartCopies DEF Crash
<1> QED
  BY <1>2, <1>3, <1>4, <1>5, <1>6, <1>7, <1>8, <1>9, <1>10, <1>11
  DEF Next, Work, Environment, Call

LEMMA IdsMintedNext ==
  ASSUME TypeOK, FinalizerInv, IdsMinted, [Next]_vars
  PROVE  IdsMinted'
<1>1. /\ minted \in Nat /\ minted' \in Nat /\ minted <= minted'
      /\ Mint(obj.spec) => minted' = minted + 1
      /\ \A i \in Ids : Live(i)' => i <= minted'
  <2>1. CASE Narrows(garm, garm') /\ minted' = minted
    <3>1. \A i \in Ids : Live(i)' => Live(i)
      BY <2>1 DEF Narrows, Live
    <3>2. minted \in Nat /\ Mint(obj.spec) => minted' = minted + 1
      BY DEF TypeOK, Mint
    <3> QED
      BY <2>1, <3>1, <3>2 DEF IdsMinted, TypeOK
  <2>2. CASE Mint(obj.spec) /\ obj.spec \in EntitySpec
    <3>1. /\ minted \in Nat /\ minted' = minted + 1
          /\ \A i \in Ids : garm'[i] # Absent => i = minted + 1 \/ Live(i)
      <4>1. /\ minted' = minted + 1
            /\ \A i \in Ids : i # minted + 1 => garm'[i] = garm[i]
        BY <2>2, Minted
      <4> QED
        BY <4>1 DEF TypeOK, Live
    <3>2. \A i \in Ids : Live(i)' => i = minted + 1 \/ i <= minted
      BY <3>1 DEF Live, IdsMinted
    <3> QED
      BY <3>1, <3>2 DEF Ids
  <2> QED
    BY <2>1, <2>2, GarmSteps
<1>2. ASSUME NEW n \in Names, NEW o \in Copies(n)' PROVE o.id <= minted'
  <2>1. CASE o.id = NoId
    BY <1>1, <2>1 DEF NoId
  <2>2. CASE \E p \in Copies(n) : p.id = o.id
    <3>1. PICK p \in Copies(n) : p.id = o.id
      BY <2>2
    <3>2. p \in Entity
      BY <1>2, <3>1 DEF Copies, TypeOK, KubeType
    <3>3. p.id \in Nat /\ p.id <= minted
      BY <1>2, <3>1, <3>2 DEF IdsMinted, Entity
    <3> QED
      BY <1>1, <3>1, <3>3
  <2>3. CASE Mint(obj.spec) /\ o.id = minted + 1
    BY <1>1, <2>3
  <2>4. CASE o.id \in Ids /\ Listed(obj.spec) = {o.id}
    BY <1>1, <2>4 DEF Listed, Named, IdsMinted, Ids
  <2> QED
    BY <1>2, <2>1, <2>2, <2>3, <2>4, CopiesStep
<1> QED
  BY <1>1, <1>2 DEF IdsMinted

\* An id that GARM has handed out keeps the name it was handed out for.
LEMMA NameFrame ==
  ASSUME TypeOK, [Next]_vars, NEW i, i <= minted, NEW v,
         Live(i) => garm[i].ident = v
  PROVE  Live(i)' => garm'[i].ident = v
<1>1. CASE Narrows(garm, garm')
  BY <1>1 DEF Narrows, Live
<1>2. CASE Mint(obj.spec) /\ obj.spec \in EntitySpec
  <2>1. ASSUME i \in Ids PROVE garm'[i] = garm[i]
    <3>1. i # minted + 1
      BY <2>1 DEF Ids, TypeOK
    <3> QED
      BY <1>2, <2>1, <3>1, Minted
  <2> QED
    BY <2>1 DEF Live
<1> QED
  BY <1>1, <1>2, GarmSteps

\* What a step must do for copies in the cache to go on naming the entities on
\* record.
LEMMA CachedFrame ==
  ASSUME TypeOK, IdsMinted, CachedNames, [Next]_vars,
         \A n \in Names : Exists(n)' /\ cache'[n] # Absent =>
           \/ cache'[n] = cr'[n] \/ cr'[n].id = NoId
           \/ /\ cr'[n].id <= minted
              /\ cache'[n].id = NoId /\ Live(cr'[n].id)
                   => garm[cr'[n].id].ident = cache'[n].spec.ident
  PROVE  CachedNames'
<1> SUFFICES ASSUME NEW n \in Names, Exists(n)', cache'[n] # Absent,
                    cache'[n].id = NoId, Live(cr[n].id)'
             PROVE  garm'[cr'[n].id].ident = cache'[n].spec.ident
  BY DEF CachedNames, NamesRecord
<1>1. cr'[n].id # NoId
  BY DEF Live, Ids, NoId
<1> QED
  BY <1>1, NameFrame DEF Live

LEMMA CachedKept ==
  ASSUME TypeOK, IdsMinted, CachedNames, [Next]_vars, NEW n \in Names,
         Exists(n), cache[n] # Absent
  PROVE  /\ cr[n].id <= minted
         /\ cache[n].id = NoId /\ Live(cr[n].id) => garm[cr[n].id].ident = cache[n].spec.ident
BY DEF IdsMinted, CachedNames, NamesRecord, Exists, Copies

LEMMA CachedNext ==
  ASSUME TypeOK, FinalizerInv, RecordInv, [Next]_vars
  PROVE  CachedNames'
<1> USE DEF RecordInv
<1>1. ASSUME UNCHANGED <<cr, cache>> PROVE CachedNames'
  BY <1>1, CachedFrame, CachedKept DEF Exists
<1>2. CASE UNCHANGED vars
  BY <1>1, <1>2 DEF vars
<1>3. CASE \E n \in Names : Start(n)
  BY <1>1, <1>3 DEF Start, Take
<1>4. CASE Call
  BY <1>1, <1>4, CallShape DEF kube
<1>5. CASE AddFinalizer \/ MarkReady \/ MarkFalse \/ ClearId
  <2>1. PICK o \in Entity :
          Commit(o) /\ o.spec = obj.spec /\ o.id = obj.id /\ pc # "idle" /\ pc \in ReconcileSteps
    BY <1>5, WriteShape DEF ReconcileSteps
  <2>2. /\ me \in Names /\ obj \in Copies(me) /\ cache' = cache
    BY <2>1, WorkerHolds DEF Commit, Write, Copies
  <2>3. CASE cr' = cr
    BY <1>1, <2>2, <2>3
  <2>4. CASE fresh /\ cr' = [cr EXCEPT ![me] = o]
    <3>1. /\ cr[me] # Absent /\ cache[me] = cr[me] /\ cr[me].spec = obj.spec
      BY <2>2, <2>4 DEF FinalizerInv, KubeInv, FreshCopy, FreshInFull, CacheIsCurrent, Exists
    <3>2. /\ o.id <= minted
          /\ cache[me].id = NoId /\ Live(o.id) => garm[o.id].ident = cache[me].spec.ident
      <4>1. o.id <= minted
        BY <2>1, <2>2 DEF IdsMinted
      <4>2. o.id = cr[me].id \/ (Live(o.id) => garm[o.id].ident = cache[me].spec.ident)
        BY <2>1, <2>4, <3>1 DEF CopyRecord
      <4> QED
        BY <2>2, <3>1, <4>1, <4>2, NoIdIsDead
    <3>3. \A n \in Names : cr'[n] = IF n = me THEN o ELSE cr[n]
      BY <2>4 DEF TypeOK, KubeType
    <3>4. \A n \in Names : Exists(n)' /\ n # me => Exists(n)
      BY <3>3 DEF Exists
    <3> HIDE DEF RecordInv
    <3> QED
      BY <2>2, <3>2, <3>3, <3>4, CachedFrame, CachedKept DEF RecordInv
  <2> QED
    BY <2>1, <2>3, <2>4 DEF Commit, Write
<1>6. CASE Delete
  BY <1>1, <1>6 DEF Delete, kube
<1>7. CASE RemoveFinalizer
  <2>1. cache' = cache /\ \A n \in Names : cr'[n] = cr[n] \/ cr'[n] = Absent
    BY <1>7 DEF RemoveFinalizer, Release, TypeOK, KubeType
  <2>2. \A n \in Names : Exists(n)' => Exists(n) /\ cr'[n] = cr[n]
    BY <2>1 DEF Exists
  <2> QED
    BY <2>1, <2>2, CachedFrame, CachedKept
<1>8. ASSUME NEW m \in Names, CacheSync(m) PROVE CachedNames'
  <2>1. cr' = cr /\ \A n \in Names : cache'[n] = IF n = m THEN cr'[n] ELSE cache[n]
    BY <1>8 DEF CacheSync, Refresh, TypeOK, KubeType
  <2> QED
    BY <2>1, CachedFrame, CachedKept DEF Exists
<1>9. ASSUME NEW m \in Names, UserCreate(m) \/ UserEdit(m) \/ UserDelete(m)
      PROVE  CachedNames'
  <2>1. PICK o \in Entity \cup {Absent} : Touch(m, o) /\ OnRecord(o) = OnRecord(cr[m])
    BY <1>9, UserShape
  <2>2. cache' = cache /\ \A n \in Names : cr'[n] = IF n = m THEN o ELSE cr[n]
    BY <2>1 DEF Touch, Change, TypeOK, KubeType
  <2>3. \A n \in Names : Exists(n)' => cr'[n].id = NoId \/ (Exists(n) /\ cr'[n].id = cr[n].id)
    BY <2>1, <2>2 DEF Exists, OnRecord
  <2> QED
    BY <2>2, <2>3, CachedFrame, CachedKept
<1>10. CASE \/ \E x \in Referable : RefChange(x)
            \/ \E i \in Ids : GarmEdit(i) \/ GarmDelete(i)
  BY <1>1, <1>10 DEF RefChange, GarmEdit, GarmDelete, kube
<1>11. CASE Crash
  <2>1. cache' = cr' 
    BY <1>11 DEF Crash, Restart
  <2> QED
    BY <2>1, CachedFrame
<1> QED
  BY <1>2, <1>3, <1>4, <1>5, <1>6, <1>7, <1>8, <1>9, <1>10, <1>11
  DEF Next, Work, Environment, Call

\* What a step must do for a copy in the worker's hands to go on naming the
\* entity on record.
LEMMA CopyFrame ==
  ASSUME TypeOK, FinalizerInv, CopyRecord, UNCHANGED <<pc, me, obj>>, Narrows(garm, garm'),
         fresh' => fresh /\ cr'[me].id = cr[me].id,
         pc = "create" => cr'[me].id = cr[me].id
  PROVE  CopyRecord'
<1>1. \A i, v : (Live(i) => garm[i].ident = v) => (Live(i)' => garm'[i].ident = v)
  BY DEF Narrows, Live
<1>2. \A i : Live(i)' => Live(i)
  BY DEF Narrows, Live
<1>3. pc = "create" => NamesRecord(obj, me)'
  BY <1>1 DEF CopyRecord, NamesRecord
<1>4. pc \in ReconcileSteps /\ fresh' =>
       \/ obj.id = cr'[me].id
       \/ ~Live(cr[me].id)' /\ (Live(obj.id)' => garm'[obj.id].ident = obj.spec.ident)
  BY <1>1, <1>2 DEF CopyRecord, Live
<1> QED
  BY <1>3, <1>4 DEF CopyRecord

LEMMA CopyStart ==
  ASSUME TypeOK, FinalizerInv, RecordInv, NEW n \in Names, Start(n)
  PROVE  CopyRecord'
<1>1. CASE Finished(cache[n])
  BY <1>1, NothingChanged, CopyFrame DEF Start, Take, garmVars, RecordInv
<1>2. CASE ~Finished(cache[n])
  <2>1. /\ pc' = FirstStep(cache[n]) /\ me' = n /\ obj' = cache[n]
        /\ fresh' = (n \notin stale) /\ cr' = cr /\ garm' = garm
    BY <1>2 DEF Start, Take, garmVars
  <2>2. fresh' => obj'.id = cr'[me'].id
    BY <2>1 DEF FinalizerInv, KubeInv, CacheIsCurrent
  <2>3. pc' # "adopt"
    BY <2>1 DEF FirstStep
  <2>4. ASSUME pc' = "create"
        PROVE  obj'.id = NoId /\ NamesRecord(obj, me)'
    <3>1. /\ cache[n] # Absent /\ cache[n].id = NoId
          /\ cache[n].finalizer /\ ~cache[n].deleting
      BY <1>2, <2>1, <2>4 DEF FirstStep, Finished
    <3>2. Exists(n)
      BY <3>1 DEF FinalizerInv, KubeInv, CachedFinalizerHolds
    <3> QED
      BY <2>1, <3>1, <3>2 DEF RecordInv, CachedNames, NamesRecord, Live
  <2> QED
    BY <2>2, <2>3, <2>4 DEF CopyRecord
<1> QED
  BY <1>1, <1>2

\* A creation that succeeds: the name was free, so the entity on record, which a
\* copy without an id names, is gone.
LEMMA RecordedIsGone ==
  ASSUME TypeOK, FinalizerInv, RecordInv, pc = "create", Mint(obj.spec)
  PROVE  /\ HasFinalizer(cr[me]) /\ ~Live(cr[me].id)
         /\ cr[me].id <= minted
<1>1. /\ me \in Names /\ obj.spec \in EntitySpec /\ Exists(me)
      /\ HasFinalizer(cr[me])
  BY WorkerHolds DEF FinalizerInv, UnderFinalizer, ReconcileSteps, HasFinalizer, Exists
<1>2. cr[me].id <= minted
  BY <1>1 DEF RecordInv, IdsMinted, Copies, Exists
<1>3. Live(cr[me].id) => garm[cr[me].id].ident = obj.spec.ident
  BY DEF RecordInv, CopyRecord, NamesRecord
<1>4. \A j \in Ids : Live(j) => garm[j].ident # obj.spec.ident
  BY <1>1, Minted
<1> QED
  BY <1>1, <1>2, <1>3, <1>4 DEF Live

LEMMA CopyCall ==
  ASSUME TypeOK, FinalizerInv, RecordInv, Call
  PROVE  CopyRecord'
<1> USE DEF Goto
<1>1. /\ pc \in ReconcileSteps \ {"finalize"} /\ pc # "idle" /\ pc' \in ReconcileSteps
      /\ cr' = cr /\ me' = me /\ fresh' = fresh /\ obj'.spec = obj.spec /\ obj \in Entity
  BY CallShape, WorkerHolds DEF ReconcileSteps, kube, Entity
<1>2. ASSUME pc' \notin {"finalize", "create", "adopt", "get", "replace"},
             fresh =>
               \/ obj'.id = cr[me].id
               \/ ~Live(cr[me].id)' /\ (Live(obj.id)' => garm'[obj'.id].ident = obj.spec.ident)
      PROVE  CopyRecord'
  BY <1>1, <1>2 DEF CopyRecord, Live
<1>3. \A i : [obj EXCEPT !.id = i].id = i
  BY <1>1 DEF Entity
<1>4. \A spec : AfterSync(spec) \in {"hookInfo", "ready"}
  BY DEF AfterSync
<1>5. ASSUME obj' = obj, Narrows(garm, garm'),
             pc' \notin {"finalize", "create", "adopt", "get", "replace"}
      PROVE  CopyRecord'
  <2>1. \A i : Live(i)' => Live(i) /\ garm'[i].ident = garm[i].ident
    BY <1>5 DEF Narrows, Live
  <2>2. fresh => \/ obj.id = cr[me].id
                 \/ ~Live(cr[me].id) /\ (Live(obj.id) => garm[obj.id].ident = obj.spec.ident)
    BY <1>1 DEF RecordInv, CopyRecord
  <2>3. fresh => \/ obj.id = cr[me].id
                 \/ /\ ~Live(cr[me].id)'
                    /\ Live(obj.id)' => garm'[obj.id].ident = obj.spec.ident
    <3>1. Live(cr[me].id)' => Live(cr[me].id)
      BY <1>1, <2>1 DEF Live
    <3>2. Live(obj.id)' => Live(obj.id) /\ garm'[obj.id].ident = garm[obj.id].ident
      BY <1>5, <2>1 DEF Live
    <3> QED
      BY <2>2, <3>1, <3>2
  <2> QED
    BY <1>2, <1>5, <2>3
<1>6. CASE Create
  <2>1. pc = "create" /\ obj.id = NoId /\ obj.spec \in EntitySpec
    BY <1>6, WorkerHolds DEF Create, RecordInv, CopyRecord
  <2>2. CASE Mint(obj.spec) /\ obj' = [obj EXCEPT !.id = minted + 1]
             /\ pc' = AfterSync(obj.spec)
    <3>1. /\ minted + 1 \in Ids /\ minted \in Nat /\ garm'[minted + 1].ident = obj.spec.ident
          /\ \A j \in Ids : j # minted + 1 => garm'[j] = garm[j]
      <4>1. obj.spec \in EntitySpec /\ Mint(obj.spec)
        BY <2>1, <2>2
      <4>2. /\ minted + 1 \in Ids
            /\ garm'[minted + 1] = [ident |-> obj.spec.ident, settings |-> obj.spec.settings,
                                    own |-> obj.spec.own, hook |-> FALSE]
            /\ \A j \in Ids : j # minted + 1 => garm'[j] = garm[j]
        BY <4>1, Minted
      <4> QED
        BY <4>2 DEF TypeOK
    <3>2. cr[me].id # minted + 1
      BY <2>1, <2>2, <3>1, RecordedIsGone DEF Ids
    <3>3. ~Live(cr[me].id)'
      BY <1>1, <2>1, <2>2, <3>1, <3>2, RecordedIsGone DEF Live
    <3>4. obj'.id = minted + 1
      BY <1>3, <2>2
    <3> QED
      BY <1>2, <1>4, <2>2, <3>1, <3>3, <3>4
  <2>3. CASE UNCHANGED <<obj, garmVars>> /\ pc' = "adopt"
    BY <1>1, <2>1, <2>3 DEF RecordInv, CopyRecord
  <2>4. CASE UNCHANGED obj /\ pc' = "false"
    BY <1>1, <1>2, <2>1, <2>4 DEF RecordInv, CopyRecord
  <2> QED
    BY <1>6, <2>2, <2>3, <2>4 DEF Create
<1>7. CASE Adopt
  <2>1. pc = "adopt" /\ obj.id = NoId /\ UNCHANGED garmVars
        /\ (fresh => cr[me].id = NoId)
    BY <1>7 DEF Adopt, RecordInv, CopyRecord
  <2>2. CASE UNCHANGED obj /\ pc' = "false"
    BY <1>5, <2>1, <2>2, NothingChanged DEF garmVars
  <2>3. ASSUME NEW i \in Ids, Listed(obj.spec) = {i}, obj' = [obj EXCEPT !.id = i],
               pc' = AfterSync(obj.spec)
        PROVE  CopyRecord'
    <3>1. obj'.id = i /\ garm'[i].ident = obj.spec.ident
      BY <1>3, <2>1, <2>3 DEF Listed, Named, garmVars
    <3>2. fresh => ~Live(cr[me].id)'
      BY <1>1, <2>1 DEF Live, Ids, NoId
    <3> QED
      BY <1>2, <1>4, <2>3, <3>1, <3>2
  <2> QED
    BY <1>7, <2>2, <2>3 DEF Adopt
<1>8. CASE Get
  <2>1. pc = "get" /\ garm' = garm /\ (fresh => obj.id = cr[me].id)
    BY <1>8 DEF Get, RecordInv, CopyRecord, garmVars
  <2>2. CASE ~Live(obj.id) /\ obj' = [obj EXCEPT !.id = NoId] /\ pc' = "clear"
    <3>1. obj'.id = NoId /\ ~Live(NoId)' /\ (fresh => ~Live(cr[me].id)')
      BY <1>1, <1>3, <2>1, <2>2 DEF Live, Ids, NoId
    <3> QED
      BY <1>2, <2>2, <3>1
  <2>3. CASE UNCHANGED obj /\ pc' \in {"replace", "false", "update", "hookInfo", "ready"}
    BY <1>1, <2>1, <2>3 DEF CopyRecord, Live
  <2> QED
    BY <1>4, <1>8, <2>2, <2>3 DEF Get, AfterGet
<1>9. CASE Replace
  <2>1. pc = "replace" /\ (fresh => obj.id = cr[me].id)
    BY <1>9 DEF Replace, RecordInv, CopyRecord
  <2>2. CASE garm' = [garm EXCEPT ![obj.id] = Absent] /\ obj' = [obj EXCEPT !.id = NoId]
             /\ pc' = "clear"
    <3>1. obj'.id = NoId /\ ~Live(NoId)' /\ (fresh => ~Live(cr[me].id)')
      <4>1. \A j \in Ids : garm'[j] = IF j = obj.id THEN Absent ELSE garm[j]
        BY <2>2, Erased
      <4> QED
        BY <1>1, <1>3, <2>1, <2>2, <4>1 DEF Live, Ids, NoId
    <3> QED
      BY <1>2, <2>2, <3>1
  <2>3. CASE UNCHANGED obj /\ pc' = "false"
    BY <1>2, <2>1, <2>3
  <2> QED
    BY <1>9, <2>2, <2>3 DEF Replace
<1>10. CASE Update \/ HookInfo \/ HookInstall
  <2>1. obj' = obj /\ pc' \in {"hookInfo", "hookInstall", "ready", "false"}
    BY <1>4, <1>10 DEF Update, HookInfo, HookInstall
  <2>2. Narrows(garm, garm')
    <3>1. pc # "create"
      BY <1>10 DEF Update, HookInfo, HookInstall
    <3> QED
      BY <1>10, <3>1, CallGarm
  <2> QED
    BY <1>5, <2>1, <2>2
<1> QED
  BY <1>6, <1>7, <1>8, <1>9, <1>10 DEF Call

LEMMA CopyNext ==
  ASSUME TypeOK, FinalizerInv, RecordInv, [Next]_vars
  PROVE  CopyRecord'
<1>1. ASSUME pc' \notin ReconcileSteps PROVE CopyRecord'
  BY <1>1 DEF CopyRecord, ReconcileSteps
<1>2. ASSUME UNCHANGED <<cr, pc, me, obj, fresh>>, Narrows(garm, garm') PROVE CopyRecord'
  BY <1>2, CopyFrame DEF RecordInv
<1>3. CASE UNCHANGED vars
  BY <1>2, <1>3, NothingChanged DEF vars, garmVars
<1>4. CASE AddFinalizer \/ MarkReady \/ MarkFalse \/ ClearId \/ RemoveFinalizer
  BY <1>1, <1>4
  DEF AddFinalizer, MarkReady, MarkFalse, ClearId, RemoveFinalizer, Commit, Write, Release,
    Requeue, Rest, ReconcileSteps
<1>5. CASE Delete
  BY <1>1, <1>5 DEF Delete, Goto, Requeue, Rest, ReconcileSteps
<1>6. CASE \/ \E n \in Names : CacheSync(n)
           \/ \E x \in Referable : RefChange(x)
  BY <1>2, <1>6, NothingChanged DEF CacheSync, Refresh, RefChange, garmVars
<1>7. ASSUME NEW n \in Names, UserCreate(n) \/ UserEdit(n) \/ UserDelete(n)
      PROVE  CopyRecord'
  <2>1. PICK o \in Entity \cup {Absent} :
          /\ Touch(n, o)
          /\ HasFinalizer(o) <=> HasFinalizer(cr[n])
          /\ OnRecord(o) = OnRecord(cr[n])
    BY <1>7, UserShape
  <2>2. /\ UNCHANGED <<pc, me, obj, garm>> /\ (fresh' => fresh /\ me # n)
        /\ \A m \in Names : cr'[m] = IF m = n THEN o ELSE cr[m]
    BY <2>1 DEF Touch, Change, garmVars, TypeOK, KubeType
  <2>3. fresh' => cr'[me].id = cr[me].id
    BY <2>2 DEF TypeOK, KubeType
  <2>4. pc = "create" => cr'[me].id = cr[me].id
    <3>1. pc = "create" => me \in Names /\ HasFinalizer(cr[me])
      BY WorkerHolds DEF FinalizerInv, UnderFinalizer, ReconcileSteps, HasFinalizer, Exists
    <3> QED
      BY <2>1, <2>2, <3>1 DEF HasFinalizer, OnRecord
  <2> QED
    BY <2>2, <2>3, <2>4, NothingChanged, CopyFrame DEF RecordInv
<1>8. CASE \E i \in Ids : GarmEdit(i) \/ GarmDelete(i)
  BY <1>2, <1>8, WorldGarm DEF kube
<1>9. CASE Crash
  BY <1>1, <1>9 DEF Crash, Restart, Rest, ReconcileSteps
<1> QED
  BY <1>3, <1>4, <1>5, <1>6, <1>7, <1>8, <1>9, CopyStart, CopyCall
  DEF Next, Work, Environment, Call

LEMMA RecordInit == Init => RecordInv
<1> SUFFICES ASSUME Init PROVE RecordInv
  OBVIOUS
<1>1. TypeOK
  BY InitHolds
<1>2. \A n \in Names : Exists(n) => cr[n].id = NoId
  BY DEF Init, Exists, NewEntity
<1>3. cache = cr /\ pc = "idle" /\ obj = Absent /\ fresh = FALSE
  BY DEF Init
<1>4. \A n \in Names : \A o \in Copies(n) : o.id = NoId
  BY <1>2, <1>3 DEF Copies, Exists
<1>5. \A i \in Ids : Live(i) => i <= minted
  BY DEF Init, Live, Ids
<1>6. IdsMinted
  BY <1>1, <1>4, <1>5 DEF IdsMinted, TypeOK, NoId
<1>7. CachedNames
  BY <1>2, NoIdIsDead DEF CachedNames, NamesRecord
<1>8. CopyRecord
  BY <1>3 DEF CopyRecord, ReconcileSteps
<1> QED
  BY <1>6, <1>7, <1>8 DEF RecordInv

\* However old the copy that a reconciliation read, it does not make the entity
\* on record a second time, and what it writes keeps the id on record or
\* replaces one that is gone.
THEOREM RecordInvariant == Spec => []RecordInv
<1>1. TypeOK /\ FinalizerInv /\ RecordInv /\ [Next]_vars => RecordInv'
  BY IdsMintedNext, CachedNext, CopyNext DEF RecordInv
<1> QED
  BY <1>1, RecordInit, TypeCorrect, FinalizerInvariant, PTL DEF Spec

-----------------------------------------------------------------------------
(* The steps as Custody sees them.                                          *)

CustodyStep == [GarmCustody!Next]_(GarmCustody!custody)

\* Neither a resource nor the set of living entities has changed.
LEMMA CustodyStutter ==
  ASSUME UNCHANGED <<Guarded, Recorded>>, \A i \in Ids : Live(i)' <=> Live(i)
  PROVE  CustodyStep
BY DEF CustodyStep, GarmCustody!custody, Alive

\* What the reconciliation writes either keeps the id on record or replaces one
\* that is gone; the first write puts the finalizer on.
LEMMA CustodyWrite ==
  ASSUME TypeOK, FinalizerInv, RecordInv, AddFinalizer \/ MarkReady \/ MarkFalse \/ ClearId
  PROVE  CustodyStep
<1>1. PICK o \in Entity : /\ Commit(o) /\ pc \in {"finalize", "ready", "false", "clear"}
                          /\ o.finalizer /\ (pc # "finalize" => obj.finalizer)
                          /\ o.id = obj.id
  BY WriteShape
<1>2. /\ me \in Names /\ garm' = garm
      /\ \A i \in Ids : Live(i)' <=> Live(i)
  BY <1>1, WorkerHolds DEF Commit, garmVars, Live
<1>3. CASE cr' = cr
  BY <1>2, <1>3, RecordsSame, CustodyStutter
<1>4. CASE fresh /\ cr' = [cr EXCEPT ![me] = o]
  <2>1. Exists(me) /\ HasFinalizer(o) /\ OnRecord(o) = o.id /\ OnRecord(cr[me]) = cr[me].id
    BY <1>1, <1>4, AbsentAssumption
    DEF FinalizerInv, KubeInv, FreshCopy, Exists, HasFinalizer, OnRecord
  <2>2. CASE o.id = cr[me].id /\ HasFinalizer(cr[me])
    BY <1>2, <1>4, <2>1, <2>2, RecordsKept, CustodyStutter DEF TypeOK
  <2>3. CASE o.id = cr[me].id /\ ~HasFinalizer(cr[me])
    <3> DEFINE r == OnRecord(o)
    <3>1. Guarded' = Guarded \cup {me} /\ Recorded' = [Recorded EXCEPT ![me] = r]
      BY <1>2, <1>4, <2>1, RecordsOf DEF TypeOK
    <3>2. me \notin Guarded /\ [Recorded EXCEPT ![me] = OnRecord(cr[me])] = Recorded
      BY <1>2, <2>3, RecordsAt
    <3>3. r = OnRecord(cr[me])
      BY <2>1, <2>3
    <3> HIDE DEF r
    <3>4. Recorded' = Recorded
      BY <3>1, <3>2, <3>3
    <3>5. Alive' = Alive
      BY <1>2 DEF Alive, Live
    <3> QED
      BY <1>2, <3>1, <3>2, <3>4, <3>5 DEF CustodyStep, GarmCustody!Next, GarmCustody!Guard
  <2>4. CASE o.id # cr[me].id
    <3>1. pc # "finalize" /\ ~Live(cr[me].id) /\ HasFinalizer(cr[me])
      <4>1. pc # "finalize" /\ ~Live(cr[me].id)
        BY <1>1, <1>4, <2>4 DEF RecordInv, CopyRecord, ReconcileSteps
      <4>2. HasFinalizer(cr[me])
        BY <1>1, <4>1 DEF FinalizerInv, UnderFinalizer, ReconcileSteps, HasFinalizer, Exists
      <4> QED
        BY <4>1, <4>2
    <3>2. me \in Guarded /\ Recorded[me] \notin Alive
      BY <1>2, <2>1, <3>1, RecordsAt DEF Alive
    <3>3. Guarded' = Guarded /\ Recorded' = [Recorded EXCEPT ![me] = o.id]
      <4>1. /\ Guarded' = Guarded \cup {me}
            /\ Recorded' = [Recorded EXCEPT ![me] = OnRecord(o)]
        BY <1>2, <1>4, <2>1, RecordsOf DEF TypeOK
      <4>2. OnRecord(o) = o.id
        BY <2>1
      <4> QED
        BY <3>2, <4>1, <4>2
    <3>4. Alive' = Alive /\ o.id \in Ids \cup {NoId}
      BY <1>2 DEF Alive, Live, Entity, Ids, NoId
    <3>5. GarmCustody!Record(me, o.id)
      BY <3>2, <3>3, <3>4 DEF GarmCustody!Record
    <3> QED
      BY <1>2, <3>4, <3>5 DEF CustodyStep, GarmCustody!Next
  <2> QED
    BY <2>2, <2>3, <2>4
<1> QED
  BY <1>1, <1>3, <1>4 DEF Commit, Write

\* The creation of an entity, whether or not its answer arrives.
LEMMA CustodyCreate ==
  ASSUME TypeOK, FinalizerInv, RecordInv, pc = "create", Mint(obj.spec), cr' = cr
  PROVE  CustodyStep
<1>1. /\ me \in Names /\ HasFinalizer(cr[me]) /\ ~Live(cr[me].id) /\ cr[me].id <= minted
      /\ obj.spec \in EntitySpec
  BY RecordedIsGone, WorkerHolds
<1>2. me \in Guarded /\ Recorded[me] \notin Alive
  BY <1>1, RecordsAt DEF HasFinalizer, OnRecord, Alive
<1>3. /\ minted + 1 \in Ids
      /\ garm'[minted + 1] \in GarmEntity
      /\ \A j \in Ids : j # minted + 1 => garm'[j] = garm[j]
  BY <1>1, Minted
<1>4. minted + 1 \notin Alive
  BY DEF Alive, RecordInv, IdsMinted, TypeOK
<1>5. Alive' = Alive \cup {minted + 1}
  BY <1>3, AbsentAssumption DEF Alive, Live
<1>6. GarmCustody!Create(me, minted + 1)
  BY <1>2, <1>4, <1>5, RecordsSame DEF GarmCustody!Create
<1> QED
  BY <1>1, <1>3, <1>6 DEF CustodyStep, GarmCustody!Next

LEMMA CustodyDestroy ==
  ASSUME TypeOK, NEW i, garm' = [garm EXCEPT ![i] = Absent], cr' = cr
  PROVE  CustodyStep
<1>1. \A j \in Ids : garm'[j] = IF j = i THEN Absent ELSE garm[j]
  BY Erased
<1>2. CASE i \notin Alive
  <2>1. \A j \in Ids : Live(j)' <=> Live(j)
    BY <1>1, <1>2 DEF Live, Alive
  <2> QED
    BY <2>1, RecordsSame, CustodyStutter
<1>3. CASE i \in Alive
  <2>1. Alive' = Alive \ {i} /\ i \in Ids
    BY <1>1, <1>3 DEF Alive, Live
  <2>2. GarmCustody!Destroy(i)
    BY <1>3, <2>1, RecordsSame DEF GarmCustody!Destroy
  <2> QED
    BY <2>1, <2>2 DEF CustodyStep, GarmCustody!Next
<1> QED
  BY <1>2, <1>3

LEMMA CustodyCall ==
  ASSUME TypeOK, FinalizerInv, RecordInv, Call
  PROVE  CustodyStep
<1>1. cr' = cr /\ pc # "idle"
  BY CallShape DEF kube
<1>2. CASE garm' = garm
  BY <1>1, <1>2, RecordsSame, CustodyStutter DEF Live
<1>3. ASSUME NEW j \in Ids, NEW g \in GarmEntity, Live(j),
             \A i \in Ids : garm'[i] = IF i = j THEN g ELSE garm[i]
      PROVE  CustodyStep
  <2>1. \A i \in Ids : Live(i)' <=> Live(i)
    BY <1>3, AbsentAssumption DEF Live
  <2> QED
    BY <1>1, <2>1, RecordsSame, CustodyStutter
<1>4. CASE Update
  BY <1>1, <1>2, <1>3, <1>4, Updated DEF Update
<1>5. CASE HookInstall
  BY <1>2, <1>3, <1>5, Installed DEF HookInstall
<1>6. CASE Replace
  BY <1>1, <1>2, <1>6, CustodyDestroy DEF Replace
<1>7. CASE Create
  BY <1>1, <1>2, <1>7, CustodyCreate DEF Create, garmVars
<1>8. CASE Adopt \/ Get \/ HookInfo
  BY <1>2, <1>8 DEF Adopt, Get, HookInfo, garmVars
<1> QED
  BY <1>4, <1>5, <1>6, <1>7, <1>8 DEF Call

\* Letting a resource go.
LEMMA CustodyRelease ==
  ASSUME TypeOK, FinalizerInv, RemoveFinalizer
  PROVE  CustodyStep
<1>1. /\ pc = "unfinalize" /\ me \in Names /\ garm' = garm
      /\ UnderDeletion /\ ~Live(obj.id)
      /\ \A i \in Ids : Live(i)' <=> Live(i)
  BY WorkerHolds DEF RemoveFinalizer, FinalizerInv, DeleteSteps, garmVars, Live
<1>2. CASE cr' = cr
  BY <1>1, <1>2, RecordsSame, CustodyStutter
<1>3. CASE fresh /\ cr' = [cr EXCEPT ![me] = Absent]
  <2>1. Exists(me) /\ cr[me].finalizer /\ ~Live(cr[me].id)
    BY <1>1, <1>3 DEF FinalizerInv, KubeInv, FreshCopy, BareHasNothing, UnderDeletion
  <2>2. me \in Guarded /\ Recorded[me] \notin Alive
    BY <1>1, <2>1, RecordsAt DEF Exists, HasFinalizer, OnRecord, Alive
  <2>3. ~HasFinalizer(Absent) /\ OnRecord(Absent) = NoId
    BY DEF HasFinalizer, OnRecord
  <2>4. /\ Alive' = Alive /\ Guarded' = Guarded \ {me}
        /\ Recorded' = [Recorded EXCEPT ![me] = NoId]
    BY <1>1, <1>3, <2>3, RecordsOf DEF Alive, Live, TypeOK
  <2>5. GarmCustody!Release(me)
    BY <2>2, <2>4 DEF GarmCustody!Release
  <2> QED
    BY <1>1, <2>5 DEF CustodyStep, GarmCustody!Next
<1> QED
  BY <1>2, <1>3 DEF RemoveFinalizer, Release

\* What users do leaves both finalizers and ids as they are.
LEMMA CustodyUser ==
  ASSUME TypeOK, FinalizerInv, NEW n \in Names, UserCreate(n) \/ UserEdit(n) \/ UserDelete(n)
  PROVE  CustodyStep
<1>1. PICK o \in Entity \cup {Absent} :
        /\ Touch(n, o)
        /\ HasFinalizer(o) <=> HasFinalizer(cr[n])
        /\ OnRecord(o) = OnRecord(cr[n])
  BY UserShape
<1>2. cr' = [cr EXCEPT ![n] = o] /\ garm' = garm
  BY <1>1 DEF Touch, Change, garmVars
<1>3. UNCHANGED <<Guarded, Recorded>>
  BY <1>1, <1>2, RecordsKept DEF TypeOK
<1> QED
  BY <1>2, <1>3, CustodyStutter DEF Live

LEMMA CustodyGarm ==
  ASSUME TypeOK, NEW i \in Ids, GarmEdit(i) \/ GarmDelete(i)
  PROVE  CustodyStep
<1>1. CASE GarmDelete(i)
  BY <1>1, CustodyDestroy DEF GarmDelete, kube
<1>2. CASE GarmEdit(i)
  <2>1. cr' = cr /\ Narrows(garm, garm')
    BY <1>2, WorldGarm DEF kube
  <2>2. Live(i) /\ \E g : garm' = [garm EXCEPT ![i] = g] /\ g # Absent
    <3>1. PICK v \in Settings, h \in BOOLEAN :
            garm' = [garm EXCEPT ![i] = [@ EXCEPT !.settings = v, !.hook = h]]
      BY <1>2 DEF GarmEdit
    <3>2. Live(i) /\ [garm[i] EXCEPT !.settings = v, !.hook = h] \in GarmEntity
      BY <1>2 DEF GarmEdit, Live, TypeOK, GarmEntity
    <3> QED
      BY <3>1, <3>2, AbsentAssumption
  <2>3. \A j \in Ids : Live(j)' <=> Live(j)
    BY <2>2 DEF Live, TypeOK
  <2> QED
    BY <2>1, <2>3, RecordsSame, CustodyStutter
<1> QED
  BY <1>1, <1>2

LEMMA CustodyInit == Init => GarmCustody!Init
<1> SUFFICES ASSUME Init PROVE GarmCustody!Init
  OBVIOUS
<1>1. \A n \in Names : Exists(n) => ~cr[n].finalizer /\ cr[n].id = NoId
  BY DEF Init, Exists, NewEntity
<1>2. \A n \in Names : ~HasFinalizer(cr[n]) /\ OnRecord(cr[n]) = NoId
  BY <1>1 DEF Exists, HasFinalizer, OnRecord
<1>3. Guarded = {} /\ Alive \subseteq Ids
  BY <1>2 DEF Guarded, Alive
<1>4. Recorded = [n \in Names |-> NoId]
  BY <1>2 DEF Recorded
<1> QED
  BY <1>3, <1>4 DEF GarmCustody!Init

LEMMA CustodyNext ==
  ASSUME TypeOK, FinalizerInv, RecordInv, [Next]_vars
  PROVE  CustodyStep
<1>1. ASSUME UNCHANGED <<cr, garm>> PROVE CustodyStep
  BY <1>1, RecordsSame, CustodyStutter DEF Live
<1>2. CASE UNCHANGED vars
  BY <1>1, <1>2 DEF vars, garmVars
<1>3. CASE \E n \in Names : Start(n)
  BY <1>1, <1>3 DEF Start, Take, garmVars
<1>4. CASE Delete
  <2>1. cr' = cr
    BY <1>4 DEF Delete, kube
  <2> QED
    BY <1>1, <1>4, <2>1, CustodyDestroy DEF Delete
<1>5. CASE \/ \E n \in Names : CacheSync(n)
           \/ \E x \in Referable : RefChange(x)
           \/ Crash
  BY <1>1, <1>5 DEF CacheSync, Refresh, RefChange, Crash, Restart, garmVars
<1> QED
  BY <1>2, <1>3, <1>4, <1>5, CustodyWrite, CustodyCall, CustodyRelease, CustodyUser, CustodyGarm
  DEF Next, Work, Environment, Call

\* The organization, repository and enterprise reconcilers implement Custody,
\* whatever faults, crashes, conflicts and stale copies there are: an entity is
\* created only for a resource under the finalizer with no living entity on
\* record, and no record of a living entity is given up.
THEOREM EntityKeepsCustody == Spec => KeepsCustody
<1>1. TypeOK /\ FinalizerInv /\ RecordInv /\ [Next]_vars
        => [GarmCustody!Next]_(GarmCustody!custody)
  BY CustodyNext DEF CustodyStep
<1> QED
  BY <1>1, CustodyInit, TypeCorrect, FinalizerInvariant, RecordInvariant, PTL
  DEF Spec, KeepsCustody, GarmCustody!Spec

-----------------------------------------------------------------------------
(* Whose an entity is.                                                      *)

\* Of the ids that GARM has handed out, none comes back to life.
LEMMA LiveFrame ==
  ASSUME TypeOK, [Next]_vars, NEW i, i <= minted
  PROVE  Live(i)' => Live(i) /\ garm'[i].ident = garm[i].ident
<1>1. CASE Narrows(garm, garm')
  BY <1>1 DEF Narrows, Live
<1>2. CASE Mint(obj.spec) /\ obj.spec \in EntitySpec
  <2>1. ASSUME i \in Ids PROVE garm'[i] = garm[i]
    <3>1. i # minted + 1
      BY <2>1 DEF Ids, TypeOK
    <3> QED
      BY <1>2, <2>1, <3>1, Minted
  <2> QED
    BY <2>1 DEF Live
<1> QED
  BY <1>1, <1>2, GarmSteps

LEMMA OwnershipNext ==
  ASSUME TypeOK, FinalizerInv, RecordInv, OwnershipInv, [Next]_vars
  PROVE  OwnershipInv'
<1> SUFFICES ASSUME NEW n \in Names, NEW o \in Copies(n)'
             PROVE  /\ o.spec \in Wanted[kind][n]
                    /\ Live(o.id)' => \E s \in Wanted[kind][n] : s.ident = garm'[o.id].ident
  <2>1. kind' = kind
    BY GarmType
  <2> QED
    BY <2>1 DEF OwnershipInv, Live
<1>1. o.spec \in Wanted[kind][n]
  BY CopiesStep DEF OwnershipInv
<1>2. CASE o.id = NoId
  BY <1>1, <1>2 DEF Live, Ids, NoId
<1>3. ASSUME NEW p \in Copies(n), p.id = o.id
      PROVE  Live(o.id)' => \E s \in Wanted[kind][n] : s.ident = garm'[o.id].ident
  <2>1. p.id <= minted /\ (Live(p.id) => \E s \in Wanted[kind][n] : s.ident = garm[p.id].ident)
    BY DEF RecordInv, IdsMinted, OwnershipInv
  <2> QED
    BY <1>3, <2>1, LiveFrame
<1>4. ASSUME n = me, pc # "idle", garm'[o.id].ident = obj.spec.ident
      PROVE  Live(o.id)' => \E s \in Wanted[kind][n] : s.ident = garm'[o.id].ident
  <2>1. obj \in Copies(n)
    BY <1>4, WorkerHolds DEF Copies
  <2> QED
    BY <1>4, <2>1 DEF OwnershipInv
<1>5. CASE n = me /\ Create /\ Mint(obj.spec) /\ o.id = minted + 1
  <2>1. pc # "idle" /\ obj.spec \in EntitySpec
    BY <1>5, WorkerHolds DEF Create
  <2>2. garm'[minted + 1] = [ident |-> obj.spec.ident, settings |-> obj.spec.settings,
                             own |-> obj.spec.own, hook |-> FALSE]
    BY <1>5, <2>1, Minted
  <2> QED
    BY <1>1, <1>4, <1>5, <2>1, <2>2
<1>6. CASE n = me /\ Adopt /\ o.id \in Ids /\ Listed(obj.spec) = {o.id}
  BY <1>1, <1>4, <1>6 DEF Adopt, Listed, Named, garmVars
<1> QED
  BY <1>1, <1>2, <1>3, <1>5, <1>6, CopiesStep

LEMMA OwnershipInit == Init => OwnershipInv
<1> SUFFICES ASSUME Init, NEW n \in Names, NEW o \in Copies(n)
             PROVE  o.spec \in Wanted[kind][n] /\ o.id = NoId
  BY NoIdIsDead DEF OwnershipInv
<1>1. Exists(n) /\ o = cr[n]
  BY DEF Init, Copies, Exists
<1> QED
  BY <1>1 DEF Init, Exists, NewEntity

\* Whatever is created, adopted, replaced or lost, an entity on any copy of a
\* resource goes by a name that this resource may have.
THEOREM OwnershipInvariant == Spec => []OwnershipInv
<1>1. TypeOK /\ FinalizerInv /\ RecordInv /\ OwnershipInv /\ [Next]_vars => OwnershipInv'
  BY OwnershipNext
<1> QED
  BY <1>1, OwnershipInit, TypeCorrect, FinalizerInvariant, RecordInvariant, PTL DEF Spec

-----------------------------------------------------------------------------
(* What Ready says.                                                         *)

\* A copy's spec, and whether it is being deleted, come from earlier copies,
\* unless a user has just changed the resource, which is not current then.
LEMMA CurrentNext ==
  ASSUME TypeOK, FinalizerInv, CurrentCopies, [Next]_vars
  PROVE  CurrentCopies'
<1> SUFFICES ASSUME NEW n \in Names, Exists(n)', cr'[n].current
             PROVE  /\ ~cr'[n].deleting
                    /\ \A o \in Copies(n)' : o.spec = cr'[n].spec /\ ~o.deleting
  BY DEF CurrentCopies
<1> DEFINE Goal == /\ ~cr'[n].deleting
                   /\ \A o \in Copies(n)' : o.spec = cr'[n].spec /\ ~o.deleting
<1>1. ASSUME cr'[n] = cr[n], Copies(n)' \subseteq Copies(n) PROVE Goal
  BY <1>1 DEF CurrentCopies, Exists
<1>2. CASE UNCHANGED vars
  BY <1>1, <1>2 DEF vars, Copies
<1>3. CASE \E m \in Names : Start(m)
  BY <1>1, <1>3, TakeCopies DEF Start, Take
<1>4. CASE Call
  <2>1. /\ UNCHANGED kube /\ UNCHANGED me /\ pc # "idle"
        /\ obj'.spec = obj.spec /\ obj'.deleting = obj.deleting
    BY <1>4, CallShape, WorkerHolds DEF Entity
  <2>2. n = me => obj \in Copies(n)
    BY <2>1, WorkerHolds DEF Copies
  <2> QED
    BY <2>1, <2>2, CallCopies DEF kube, CurrentCopies, Exists
<1>5. CASE AddFinalizer \/ MarkReady \/ MarkFalse \/ ClearId
  <2>1. PICK o \in Entity :
          /\ Commit(o) /\ pc \in {"finalize", "ready", "false", "clear"}
          /\ o.spec = obj.spec /\ o.deleting = obj.deleting
          /\ pc # "ready" => o.current = obj.current
    BY <1>5, WriteShape
  <2>2. me \in Names /\ obj \in Entity /\ Copies(n)' \subseteq Copies(n) \cup {o}
        /\ (n # me => Copies(n)' \subseteq Copies(n)) /\ cache' = cache /\ Rest
    BY <2>1, WorkerHolds, WriteCopies DEF Commit, TypeOK, Write, Requeue
  <2>3. CASE cr' = cr
    BY <1>1, <2>2, <2>3, GiveUpCopies
  <2>4. CASE fresh /\ cr' = [cr EXCEPT ![me] = o]
    <3>1. CASE n # me
      BY <1>1, <2>2, <2>4, <3>1 DEF TypeOK, KubeType
    <3>2. CASE n = me
      <4>1. cr'[n] = o
        BY <2>2, <2>4, <3>2 DEF TypeOK, KubeType
      <4>2. /\ cr[n] # Absent /\ cr[n].spec = obj.spec /\ cr[n].deleting = obj.deleting
            /\ cr[n].current = obj.current /\ cache[n] = cr[n]
        BY <2>2, <2>4, <3>2
        DEF FinalizerInv, KubeInv, FreshCopy, FreshInFull, CacheIsCurrent, Exists
      <4>3. Copies(n)' \subseteq {o, cr[n]}
        BY <2>2, <4>1, <4>2 DEF Copies, Rest
      <4>4. ~obj.deleting
        BY <2>1, <4>1, <4>2 DEF FinalizerInv, UnderFinalizer, ReconcileSteps, CurrentCopies, Exists
      <4> QED
        BY <2>1, <4>1, <4>2, <4>3, <4>4
    <3> QED
      BY <3>1, <3>2
  <2> QED
    BY <2>1, <2>3, <2>4 DEF Commit, Write
<1>6. CASE Delete
  <2>1. CASE UNCHANGED <<kube, obj>> /\ Goto("unfinalize")
    BY <1>1, <2>1 DEF Goto, kube, Copies
  <2>2. CASE Requeue /\ UNCHANGED <<cr, cache>>
    BY <1>1, <2>2, GiveUpCopies DEF Requeue
  <2> QED
    BY <1>6, <2>1, <2>2 DEF Delete
<1>7. CASE RemoveFinalizer
  <2>1. cr'[n] = cr[n]
    BY <1>7 DEF RemoveFinalizer, Release, TypeOK, KubeType, Exists
  <2> QED
    BY <1>1, <1>7, <2>1, ReleaseCopies DEF RemoveFinalizer, TypeOK
<1>8. CASE \E m \in Names : CacheSync(m)
  BY <1>1, <1>8, RefreshCopies DEF CacheSync, Refresh, TypeOK
<1>9. ASSUME NEW m \in Names, UserCreate(m) \/ UserEdit(m) \/ UserDelete(m)
      PROVE  Goal
  <2>1. PICK w \in Entity \cup {Absent} : Touch(m, w) /\ (w # Absent => ~w.current)
    BY <1>9, UserShape
  <2>2. \A k \in Names : cr'[k] = IF k = m THEN w ELSE cr[k]
    BY <2>1 DEF Touch, Change, TypeOK, KubeType
  <2>3. m # n /\ cr'[n] = cr[n]
    BY <2>1, <2>2 DEF Exists
  <2> QED
    BY <1>1, <2>1, <2>3, ChangeCopies DEF Touch, TypeOK
<1>10. CASE \/ \E x \in Referable : RefChange(x)
            \/ \E i \in Ids : GarmEdit(i) \/ GarmDelete(i)
  BY <1>1, <1>10 DEF RefChange, GarmEdit, GarmDelete, kube, Copies
<1>11. CASE Crash
  BY <1>1, <1>11, RestartCopies DEF Crash, Restart
<1> QED
  BY <1>2, <1>3, <1>4, <1>5, <1>6, <1>7, <1>8, <1>9, <1>10, <1>11
  DEF Next, Work, Environment, Call

LEMMA KindsDiffer ==
  ASSUME TypeOK
  PROVE  /\ Replaces <=> ~Adopts
BY KindsAssumption DEF TypeOK, Replaces, Adopts

LEMMA AdoptNext ==
  ASSUME TypeOK, [Next]_vars, pc = "adopt" => Adopts
  PROVE  pc' = "adopt" => Adopts'
<1>1. Adopts' = Adopts
  BY GarmType DEF Adopts
<1>2. pc' = "adopt" => pc = "adopt" \/ Create
  <2>1. CASE \E n \in Names : Start(n)
    BY <2>1 DEF Start, Take, FirstStep
  <2>2. CASE AddFinalizer \/ MarkReady \/ MarkFalse \/ ClearId \/ RemoveFinalizer \/ Delete
    BY <2>2 DEF AddFinalizer, MarkReady, MarkFalse, ClearId, RemoveFinalizer, Delete, Commit,
      Write, Release, Requeue, Rest, Goto
  <2>3. CASE Adopt \/ Get \/ Replace \/ Update \/ HookInfo \/ HookInstall
    BY <2>3 DEF Adopt, Get, AfterGet, AfterSync, Replace, Update, HookInfo, HookInstall, Goto
  <2>4. CASE Environment
    BY <2>4 DEF Environment, CacheSync, Refresh, UserCreate, UserEdit, UserDelete, Touch, Change,
      RefChange, GarmEdit, GarmDelete, Crash, Restart, Rest
  <2>5. CASE UNCHANGED vars
    BY <2>5 DEF vars
  <2> QED
    BY <2>1, <2>2, <2>3, <2>4, <2>5 DEF Next, Work
<1>3. Create /\ pc' = "adopt" => Adopts
  BY DEF Create, AfterSync, Goto
<1> QED
  BY <1>1, <1>2, <1>3

\* Only a creation puts a new id on a copy of a repository or an enterprise.
LEMMA ApartNext ==
  ASSUME TypeOK, FinalizerInv, RecordInv, ReadyInv, [Next]_vars, Replaces
  PROVE  IdsApart'
<1> SUFFICES ASSUME NEW n \in Names, NEW m \in Names,
                    NEW o \in Copies(n)', NEW p \in Copies(m)', o.id = p.id, o.id # NoId
             PROVE  n = m
  BY DEF IdsApart
<1>1. ~Adopt
  BY KindsDiffer DEF ReadyInv, Adopt
<1>2. \A k \in Names : \A q \in Copies(k) : q.id <= minted
  BY DEF RecordInv, IdsMinted
<1>3. ~(minted + 1 <= minted)
  BY DEF TypeOK
<1>4. (\E q \in Copies(n) : q.id = o.id) \/ (n = me /\ o.id = minted + 1)
  BY <1>1, CopiesStep
<1>5. (\E q \in Copies(m) : q.id = o.id) \/ (m = me /\ o.id = minted + 1)
  BY <1>1, CopiesStep
<1> QED
  BY <1>2, <1>3, <1>4, <1>5 DEF ReadyInv, IdsApart

\* What each call leaves done.
LEMMA DoneCall ==
  ASSUME TypeOK, FinalizerInv, RecordInv, ReadyInv, Call, Replaces, ~meddled
  PROVE  CallsLeaveDone'
<1> USE DEF Goto
<1>1. /\ pc # "idle" /\ me' = me /\ cr' = cr /\ fresh' = fresh /\ kind' = kind
      /\ obj'.spec = obj.spec /\ obj \in Entity /\ obj.spec \in EntitySpec
      /\ CallsLeaveDone /\ ReadyMeansApplied /\ CurrentCopies
  BY CallShape, WorkerHolds DEF kube, fixed, Entity, ReadyInv
<1>2. \A i : [obj EXCEPT !.id = i].id = i
  BY <1>1 DEF Entity
<1>3. CASE pc' \in {"false", "adopt"}
  BY <1>3 DEF CallsLeaveDone
\* The call has seen to it that GARM holds the entity g.
<1>4. ASSUME NEW i \in Ids, NEW g, obj'.id = i, garm'[i] = g, g # Absent,
             g.ident = obj.spec.ident,
             pc' \in {"update", "hookInfo", "hookInstall", "ready"},
             pc' # "update" => Provided(g, obj.spec),
             pc' = "ready" => Hooked(g, obj.spec)
      PROVE  CallsLeaveDone'
  BY <1>1, <1>4
  DEF CallsLeaveDone, Live, Provided, Hooked, ShouldInstallWebhook
<1>5. /\ AfterSync(obj.spec) \in {"hookInfo", "ready"}
      /\ AfterSync(obj.spec) = "ready" => ~ShouldInstallWebhook(obj.spec)
  BY DEF AfterSync
<1>6. CASE Create
  <2>1. CASE Mint(obj.spec) /\ obj' = [obj EXCEPT !.id = minted + 1]
             /\ pc' = AfterSync(obj.spec)
    <3> DEFINE g == [ident |-> obj.spec.ident, settings |-> obj.spec.settings,
                     own |-> obj.spec.own, hook |-> FALSE]
    <3>1. minted + 1 \in Ids /\ garm'[minted + 1] = g /\ g \in GarmEntity
      BY <1>1, <2>1, Minted
    <3>2. g.ident = obj.spec.ident /\ Provided(g, obj.spec)
      BY <1>1 DEF Provided, EntitySpec
    <3>3. obj'.id = minted + 1 /\ g # Absent
      BY <1>2, <2>1, <3>1, AbsentAssumption
    <3> HIDE DEF g
    <3> QED
      BY <1>4, <1>5, <2>1, <3>1, <3>2, <3>3 DEF Hooked
  <2> QED
    BY <1>3, <1>6, <2>1 DEF Create
<1>7. CASE Adopt
  BY <1>7, KindsDiffer DEF Adopt, ReadyInv
<1>8. CASE Get
  <2>1. pc = "get" /\ garm' = garm
    BY <1>8 DEF Get, garmVars
  <2>2. CASE ~Live(obj.id) /\ pc' = "clear"
    <3>1. fresh => /\ obj.id = cr[me].id /\ Exists(me) /\ cr[me].deleting = obj.deleting
      BY <2>1 DEF RecordInv, CopyRecord, FinalizerInv, KubeInv, FreshCopy
    <3>2. ~obj.deleting /\ me \in Names
      BY <1>1, <2>1, WorkerHolds DEF FinalizerInv, UnderFinalizer, ReconcileSteps
    <3>3. fresh => ~(cr[me].ready /\ cr[me].current)
      BY <1>1, <2>2, <3>1, <3>2 DEF ReadyMeansApplied, Applied
    <3> QED
      BY <1>1, <2>2, <3>3 DEF CallsLeaveDone
  <2>3. CASE Live(obj.id) /\ obj' = obj /\ pc' = AfterGet(garm[obj.id], obj.spec)
    <3> DEFINE g == garm[obj.id]
    <3>1. obj.id \in Ids /\ g # Absent /\ garm'[obj.id] = g
      BY <2>1, <2>3 DEF Live
    <3>2. CASE g.ident # obj.spec.ident
      BY <2>1, <2>3, <3>2 DEF AfterGet, CallsLeaveDone, Live
    <3>3. CASE g.ident = obj.spec.ident /\ SecretMissing(obj.spec)
      BY <1>3, <2>3, <3>3 DEF AfterGet
    <3>4. CASE g.ident = obj.spec.ident /\ ~SecretMissing(obj.spec)
      <4>1. pc' = IF NeedsUpdate(g, obj.spec) THEN "update" ELSE AfterSync(obj.spec)
        BY <2>3, <3>4 DEF AfterGet
      <4>2. ~NeedsUpdate(g, obj.spec) => Provided(g, obj.spec)
        BY <3>4 DEF NeedsUpdate, Provided
      <4> HIDE DEF g
      <4> QED
        BY <1>4, <1>5, <2>3, <3>1, <3>4, <4>1, <4>2 DEF Hooked
    <3> QED
      BY <3>2, <3>3, <3>4
  <2> QED
    BY <1>3, <1>8, <2>2, <2>3 DEF Get
<1>9. CASE Replace
  <2>1. CASE pc' = "clear"
    <3>1. pc = "replace" /\ (fresh => obj.id = cr[me].id)
      BY <1>9 DEF Replace, RecordInv, CopyRecord
    <3>2. fresh => /\ Exists(me) /\ cr[me].deleting = obj.deleting
                   /\ cr[me].spec = obj.spec
      BY DEF FinalizerInv, KubeInv, FreshCopy, FreshInFull
    <3>3. ~obj.deleting /\ me \in Names
      BY <1>1, <3>1, WorkerHolds DEF FinalizerInv, UnderFinalizer, ReconcileSteps
    <3>4. fresh => ~(cr[me].ready /\ cr[me].current)
      <4>1. Live(obj.id) => garm[obj.id].ident # obj.spec.ident
        BY <1>1, <3>1 DEF CallsLeaveDone
      <4> QED
        BY <1>1, <3>1, <3>2, <3>3, <4>1 DEF ReadyMeansApplied, Applied, Provided
    <3> QED
      BY <1>1, <2>1, <3>4 DEF CallsLeaveDone
  <2> QED
    BY <1>3, <1>9, <2>1 DEF Replace
<1>10. CASE Update
  <2>1. CASE ApplyUpdate /\ obj' = obj /\ pc' = AfterSync(obj.spec)
    <3> DEFINE g == [garm[obj.id] EXCEPT !.settings = obj.spec.settings,
                                         !.own = @ \/ obj.spec.own]
    <3>1. /\ obj.id \in Ids /\ garm'[obj.id] = g /\ g \in GarmEntity
          /\ g.ident = garm[obj.id].ident /\ Live(obj.id)
      BY <1>1, <2>1, Updated
    <3>2. g.ident = obj.spec.ident
      BY <1>1, <1>10, <3>1 DEF Update, CallsLeaveDone
    <3>3. g.settings = obj.spec.settings /\ (obj.spec.own => g.own)
      BY <3>1 DEF Live, TypeOK, GarmEntity
    <3> HIDE DEF g
    <3> QED
      BY <1>4, <1>5, <2>1, <3>1, <3>2, <3>3, AbsentAssumption DEF Provided, Hooked
  <2> QED
    BY <1>3, <1>10, <2>1 DEF Update
<1>11. CASE HookInfo
  <2>1. /\ pc = "hookInfo" /\ garm' = garm /\ obj' = obj
        /\ Live(obj.id) /\ garm[obj.id].ident = obj.spec.ident
        /\ Provided(garm[obj.id], obj.spec)
    BY <1>1, <1>11 DEF HookInfo, garmVars, CallsLeaveDone
  <2>2. CASE garm[obj.id].hook /\ pc' = "ready"
    BY <1>4, <2>1, <2>2 DEF Live, Hooked
  <2>3. CASE pc' = "hookInstall"
    BY <1>4, <2>1, <2>3 DEF Live
  <2> QED
    BY <1>3, <1>11, <2>2, <2>3 DEF HookInfo
<1>12. CASE HookInstall
  <2>1. CASE InstallWebhook /\ obj' = obj /\ pc' = "ready"
    <3> DEFINE g == [garm[obj.id] EXCEPT !.hook = TRUE]
    <3>1. /\ obj.id \in Ids /\ garm'[obj.id] = g /\ g \in GarmEntity
          /\ g.ident = garm[obj.id].ident /\ Live(obj.id)
      BY <2>1, Installed
    <3>2. garm[obj.id].ident = obj.spec.ident /\ Provided(garm[obj.id], obj.spec)
      BY <1>1, <1>12 DEF HookInstall, CallsLeaveDone
    <3>3. g.hook /\ Provided(g, obj.spec)
      BY <3>1, <3>2 DEF Live, TypeOK, GarmEntity, Provided
    <3> HIDE DEF g
    <3> QED
      BY <1>4, <2>1, <3>1, <3>2, <3>3, AbsentAssumption DEF Hooked
  <2> QED
    BY <1>3, <1>12, <2>1 DEF HookInstall
<1> QED
  BY <1>6, <1>7, <1>8, <1>9, <1>10, <1>11, <1>12 DEF Call

\* The administrator is the only one who meddles.
LEMMA MeddledStays ==
  ASSUME [Next]_vars, ~meddled'
  PROVE  ~meddled /\ \A i \in Ids : ~GarmEdit(i) /\ ~GarmDelete(i)
<1>1. \A i \in Ids : ~GarmEdit(i) /\ ~GarmDelete(i)
  BY DEF GarmEdit, GarmDelete
<1>2. CASE meddled' = meddled
  BY <1>1, <1>2
<1> QED
  BY <1>1, <1>2
  DEF Next, Work, Environment, Start, AddFinalizer, Create, Mint, Adopt, Get, Replace, Update,
    HookInfo, HookInstall, MarkReady, MarkFalse, ClearId, Delete, RemoveFinalizer, Commit,
    CacheSync, UserCreate, UserEdit, UserDelete, Touch, RefChange, Crash, vars, garmVars, fixed

LEMMA DoneNext ==
  ASSUME TypeOK, FinalizerInv, RecordInv, ReadyInv, [Next]_vars, Replaces, ~meddled'
  PROVE  CallsLeaveDone'
<1>1. /\ CallsLeaveDone /\ ~meddled /\ kind' = kind
      /\ \A i \in Ids : ~GarmEdit(i) /\ ~GarmDelete(i)
  BY MeddledStays, GarmType DEF ReadyInv
<1>2. ASSUME pc' \in {"idle", "finalize", "create", "get", "false", "delete", "unfinalize"}
      PROVE  CallsLeaveDone'
  BY <1>2 DEF CallsLeaveDone
<1>3. ASSUME UNCHANGED <<pc, me, obj, garm>>, fresh' => fresh /\ cr'[me] = cr[me]
      PROVE  CallsLeaveDone'
  BY <1>1, <1>3 DEF CallsLeaveDone, Live, Provided, Hooked, ShouldInstallWebhook
<1>4. CASE UNCHANGED vars
  BY <1>3, <1>4 DEF vars, garmVars
<1>5. CASE Call
  BY <1>1, <1>5, DoneCall
<1>6. ASSUME NEW n \in Names, Start(n) PROVE CallsLeaveDone'
  <2>1. CASE Finished(cache[n])
    BY <1>3, <1>6, <2>1 DEF Start, Take, garmVars
  <2>2. CASE ~Finished(cache[n])
    BY <1>2, <1>6, <2>2 DEF Start, Take, FirstStep
  <2> QED
    BY <2>1, <2>2
<1>7. CASE AddFinalizer \/ MarkReady \/ MarkFalse \/ ClearId \/ RemoveFinalizer \/ Delete
  BY <1>2, <1>7
  DEF AddFinalizer, MarkReady, MarkFalse, ClearId, RemoveFinalizer, Delete, Commit, Write,
    Release, Requeue, Rest, Goto
<1>8. CASE \/ \E n \in Names : CacheSync(n)
           \/ \E x \in Referable : RefChange(x)
  BY <1>3, <1>8 DEF CacheSync, Refresh, RefChange, garmVars
<1>9. ASSUME NEW n \in Names, UserCreate(n) \/ UserEdit(n) \/ UserDelete(n)
      PROVE  CallsLeaveDone'
  <2>1. PICK o \in Entity \cup {Absent} : Touch(n, o)
    BY <1>9, UserShape
  <2>2. UNCHANGED <<pc, me, obj, garm>> /\ (fresh' => fresh /\ cr'[me] = cr[me])
    BY <2>1 DEF Touch, Change, garmVars, TypeOK, KubeType
  <2> QED
    BY <1>3, <2>2
<1>10. CASE Crash
  BY <1>2, <1>10 DEF Crash, Restart, Rest
<1> QED
  BY <1>1, <1>4, <1>5, <1>6, <1>7, <1>8, <1>9, <1>10 DEF Next, Work, Environment, Call

\* No call undoes what GARM holds for a resource that is Ready at its
\* generation: a call for another resource has another id, and one for this
\* resource asks for the same.
LEMMA AppliedStays ==
  ASSUME TypeOK, FinalizerInv, RecordInv, ReadyInv, [Next]_vars, Replaces, ~meddled',
         NEW n \in Names, Exists(n), ~cr[n].deleting, cr[n].ready, cr[n].current
  PROVE  LET i == cr[n].id
         IN  i \in Ids /\ garm'[i] # Absent /\ Provided(garm'[i], cr[n].spec)
             /\ Hooked(garm'[i], cr[n].spec)
<1> DEFINE i == cr[n].id
           spec == cr[n].spec
<1>1. i \in Ids /\ garm[i] # Absent /\ Provided(garm[i], spec) /\ Hooked(garm[i], spec)
  BY MeddledStays DEF ReadyInv, ReadyMeansApplied, Applied, Live
<1>2. CASE garm' = garm
  BY <1>1, <1>2
<1>3. cr[n] \in Copies(n)
  BY DEF Copies, Exists
<1>4. ASSUME pc # "idle", obj.id = i
      PROVE  n = me /\ obj.spec = spec /\ ~obj.deleting
  <2>1. obj \in Copies(me) /\ me \in Names
    BY <1>4, WorkerHolds DEF Copies
  <2>2. n = me
    BY <1>1, <1>3, <1>4, <2>1 DEF ReadyInv, IdsApart, Ids, NoId
  <2> QED
    BY <2>1, <2>2 DEF ReadyInv, CurrentCopies
<1>5. CASE Create
  <2>1. CASE Mint(obj.spec)
    <3>1. obj.spec \in EntitySpec
      BY <1>5, WorkerHolds DEF Create
    <3>2. i # minted + 1
      BY <1>3 DEF RecordInv, IdsMinted, TypeOK
    <3>3. \A j \in Ids : j # minted + 1 => garm'[j] = garm[j]
      BY <2>1, <3>1, Minted
    <3> QED
      BY <1>1, <3>2, <3>3
  <2> QED
    BY <1>2, <1>5, <2>1 DEF Create, garmVars
<1>6. CASE Replace
  <2>1. CASE garm' = [garm EXCEPT ![obj.id] = Absent]
    <3>1. obj.id # i
      <4> SUFFICES ASSUME obj.id = i PROVE FALSE
        OBVIOUS
      <4>1. obj.spec = spec
        BY <1>4, <1>6 DEF Replace
      <4>2. garm[obj.id].ident # obj.spec.ident
        BY <1>1, <1>6, MeddledStays DEF Replace, ReadyInv, CallsLeaveDone, Live
      <4> QED
        BY <1>1, <4>1, <4>2 DEF Provided
    <3>2. garm'[i] = garm[i]
      BY <1>1, <2>1, <3>1, Erased
    <3> QED
      BY <1>1, <3>2
  <2> QED
    BY <1>2, <1>6, <2>1 DEF Replace
<1>7. CASE Delete
  <2>1. CASE garm' = [garm EXCEPT ![obj.id] = Absent]
    <3>1. obj.id # i
      BY <1>4, <1>7 DEF Delete, FinalizerInv, DeleteSteps, UnderDeletion
    <3>2. garm'[i] = garm[i]
      BY <1>1, <2>1, <3>1, Erased
    <3> QED
      BY <1>1, <3>2
  <2> QED
    BY <1>2, <1>7, <2>1 DEF Delete
<1>8. CASE Update
  <2>1. CASE ApplyUpdate
    <3> DEFINE g == [garm[obj.id] EXCEPT !.settings = obj.spec.settings,
                                         !.own = @ \/ obj.spec.own]
    <3>1. pc # "idle" /\ obj.spec \in EntitySpec
      BY <1>8, WorkerHolds DEF Update
    <3>2. /\ obj.id \in Ids /\ Live(obj.id) /\ g \in GarmEntity
          /\ \A j \in Ids : garm'[j] = IF j = obj.id THEN g ELSE garm[j]
      BY <2>1, <3>1, Updated
    <3>3. CASE obj.id = i
      <4>1. obj.spec = spec
        BY <1>4, <3>1, <3>3
      <4>2. /\ g.ident = garm[i].ident /\ g.settings = spec.settings /\ g.hook = garm[i].hook
            /\ spec.own => g.own
        BY <3>1, <3>2, <3>3, <4>1 DEF Live, TypeOK, GarmEntity
      <4>3. garm'[i] = g /\ g # Absent
        BY <3>2, <3>3, AbsentAssumption
      <4> HIDE DEF g
      <4> QED
        BY <1>1, <4>2, <4>3 DEF Provided, Hooked
    <3>4. CASE obj.id # i
      BY <1>1, <3>2, <3>4
    <3> QED
      BY <3>3, <3>4
  <2> QED
    BY <1>2, <1>8, <2>1 DEF Update
<1>9. CASE HookInstall
  <2>1. CASE InstallWebhook
    <3> DEFINE g == [garm[obj.id] EXCEPT !.hook = TRUE]
    <3>1. /\ obj.id \in Ids /\ Live(obj.id) /\ g \in GarmEntity
          /\ \A j \in Ids : garm'[j] = IF j = obj.id THEN g ELSE garm[j]
      BY <2>1, Installed
    <3>2. CASE obj.id = i
      <4>1. /\ g.ident = garm[i].ident /\ g.settings = garm[i].settings
            /\ g.own = garm[i].own /\ g.hook
        BY <3>1, <3>2 DEF Live, TypeOK, GarmEntity
      <4>2. garm'[i] = g /\ g # Absent
        BY <3>1, <3>2, AbsentAssumption
      <4> HIDE DEF g
      <4> QED
        BY <1>1, <4>1, <4>2 DEF Provided, Hooked
    <3>3. CASE obj.id # i
      BY <1>1, <3>1, <3>3
    <3> QED
      BY <3>2, <3>3
  <2> QED
    BY <1>2, <1>9, <2>1 DEF HookInstall
<1>10. CASE Adopt \/ Get \/ HookInfo \/ AddFinalizer \/ MarkReady \/ MarkFalse \/ ClearId
            \/ RemoveFinalizer
  BY <1>2, <1>10
  DEF Adopt, Get, HookInfo, AddFinalizer, MarkReady, MarkFalse, ClearId, RemoveFinalizer,
    Commit, garmVars
<1>11. CASE Environment
  BY <1>2, <1>11, MeddledStays
  DEF Environment, CacheSync, UserCreate, UserEdit, UserDelete, Touch, RefChange, Crash, garmVars
<1>12. CASE UNCHANGED vars \/ \E m \in Names : Start(m)
  BY <1>2, <1>12 DEF vars, Start, garmVars
<1> QED
  BY <1>5, <1>6, <1>7, <1>8, <1>9, <1>10, <1>11, <1>12 DEF Next, Work

LEMMA AppliedNext ==
  ASSUME TypeOK, FinalizerInv, RecordInv, ReadyInv, [Next]_vars, Replaces, ~meddled'
  PROVE  ReadyMeansApplied'
<1> DEFINE Holds(i, spec) ==
             /\ i \in Ids /\ garm'[i] # Absent /\ Provided(garm'[i], spec)
             /\ Hooked(garm'[i], spec)
<1>1. kind' = kind
  BY GarmType
<1> SUFFICES ASSUME NEW n \in Names, Exists(n)', ~cr'[n].deleting, cr'[n].ready, cr'[n].current
             PROVE  Holds(cr'[n].id, cr'[n].spec)
  BY <1>1 DEF ReadyMeansApplied, Applied, Live, Provided, Hooked, ShouldInstallWebhook
<1>2. CASE cr'[n] = cr[n]
  <2>1. Exists(n) /\ ~cr[n].deleting /\ cr[n].ready /\ cr[n].current
    BY <1>2 DEF Exists
  <2> QED
    BY <1>2, <2>1, AppliedStays
<1> HIDE DEF Holds
<1>3. CASE AddFinalizer \/ MarkReady \/ MarkFalse \/ ClearId
  <2>1. PICK o \in Entity :
          /\ Commit(o) /\ pc \in {"finalize", "ready", "false", "clear"}
          /\ o.spec = obj.spec /\ o.deleting = obj.deleting /\ o.id = obj.id
          /\ pc # "ready" => o.current = obj.current /\ (o.ready => obj.ready)
          /\ pc = "false" => ~o.ready
    BY <1>3, WriteShape
  <2>2. me \in Names /\ obj \in Entity /\ garm' = garm
    BY <2>1, WorkerHolds DEF Commit, garmVars
  <2>3. CASE cr' = cr
    BY <1>2, <2>3
  <2>4. CASE fresh /\ cr' = [cr EXCEPT ![me] = o] /\ n # me
    BY <1>2, <2>4 DEF TypeOK, KubeType
  <2>5. CASE fresh /\ cr' = [cr EXCEPT ![me] = o] /\ n = me
    <3>1. cr'[n] = o
      BY <2>2, <2>5 DEF TypeOK, KubeType
    <3>2. CASE pc = "ready"
      <4>1. /\ Live(obj.id) /\ Provided(garm[obj.id], obj.spec) /\ Hooked(garm[obj.id], obj.spec)
        BY <3>2, MeddledStays DEF ReadyInv, CallsLeaveDone
      <4> QED
        BY <2>1, <2>2, <3>1, <4>1 DEF Holds, Live
    <3>3. CASE pc = "finalize" \/ pc = "clear"
      <4>1. /\ Exists(n) /\ cr[n].spec = obj.spec /\ cr[n].ready = obj.ready
            /\ cr[n].current = obj.current /\ cr[n].deleting = obj.deleting
        BY <2>5 DEF FinalizerInv, KubeInv, FreshCopy, FreshInFull
      <4>2. cr[n].ready /\ cr[n].current /\ ~cr[n].deleting
        BY <2>1, <3>1, <3>3, <4>1
      <4>3. pc = "finalize" /\ cr[n].id = obj.id
        BY <2>5, <3>3, <4>2, MeddledStays DEF ReadyInv, CallsLeaveDone, RecordInv, CopyRecord
      <4>4. Holds(cr[n].id, cr[n].spec)
        BY <4>1, <4>2, AppliedStays DEF Holds
      <4> QED
        BY <2>1, <3>1, <4>1, <4>3, <4>4
    <3>4. pc # "false"
      BY <2>1, <3>1
    <3> QED
      BY <2>1, <3>2, <3>3, <3>4
  <2> QED
    BY <2>1, <2>3, <2>4, <2>5 DEF Commit, Write
<1>4. ASSUME NEW m \in Names, UserCreate(m) \/ UserEdit(m) \/ UserDelete(m)
      PROVE  cr'[n] = cr[n]
  <2>1. PICK w \in Entity \cup {Absent} : Touch(m, w) /\ (w # Absent => ~w.current)
    BY <1>4, UserShape
  <2>2. \A k \in Names : cr'[k] = IF k = m THEN w ELSE cr[k]
    BY <2>1 DEF Touch, Change, TypeOK, KubeType
  <2> QED
    BY <2>1, <2>2 DEF Exists
<1>5. CASE RemoveFinalizer
  BY <1>2, <1>5 DEF RemoveFinalizer, Release, TypeOK, KubeType, Exists
<1>6. CASE Call
  BY <1>2, <1>6, CallShape DEF kube
<1>7. CASE Delete
  BY <1>2, <1>7 DEF Delete, kube
<1>8. CASE \/ \E m \in Names : Start(m) \/ CacheSync(m)
           \/ \E x \in Referable : RefChange(x)
           \/ Crash
           \/ UNCHANGED vars
  BY <1>2, <1>8 DEF Start, Take, CacheSync, Refresh, RefChange, Crash, Restart, vars
<1> QED
  BY <1>2, <1>3, <1>4, <1>5, <1>6, <1>7, <1>8, MeddledStays DEF Next, Work, Environment, Call

LEMMA ReadyInit == Init => ReadyInv
<1> SUFFICES ASSUME Init PROVE ReadyInv
  OBVIOUS
<1>1. \A n \in Names : Exists(n) => ~cr[n].current /\ ~cr[n].ready /\ cr[n].id = NoId
  BY DEF Init, Exists, NewEntity
<1>2. \A n \in Names : \A o \in Copies(n) : o.id = NoId
  BY <1>1 DEF Init, Copies, Exists
<1>3. pc = "idle"
  BY DEF Init
<1> QED
  BY <1>1, <1>2, <1>3 DEF ReadyInv, CurrentCopies, IdsApart, CallsLeaveDone, ReadyMeansApplied

\* When a repository or an enterprise is Ready at its generation, no older copy
\* of it is about, no other resource has its entity, and each call of the
\* reconciliation under way rests on what the calls before it have done.
THEOREM ReadyInvariant == Spec => []ReadyInv
<1>1. TypeOK /\ FinalizerInv /\ RecordInv /\ ReadyInv /\ [Next]_vars => ReadyInv'
  <2> SUFFICES ASSUME TypeOK, FinalizerInv, RecordInv, ReadyInv, [Next]_vars
               PROVE  ReadyInv'
    OBVIOUS
  <2>1. CurrentCopies' /\ (pc' = "adopt" => Adopts')
    BY CurrentNext, AdoptNext DEF ReadyInv
  <2>2. Replaces' = Replaces
    BY GarmType DEF Replaces
  <2> QED
    BY <2>1, <2>2, ApartNext, DoneNext, AppliedNext DEF ReadyInv
<1> QED
  BY <1>1, ReadyInit, TypeCorrect, FinalizerInvariant, RecordInvariant, PTL DEF Spec

\* "The .metadata.generation last reconciled by the controller": when a repository
\* or an enterprise is Ready at its generation, GARM holds what its spec says,
\* unless an administrator has interfered.
THEOREM ReadyIsApplied == Spec => []ReadyMeansAppliedUnlessAdopted
<1>1. ReadyInv => ReadyMeansAppliedUnlessAdopted
  BY DEF ReadyInv, ReadyMeansAppliedUnlessAdopted, ReadyMeansApplied
<1> QED
  BY <1>1, ReadyInvariant, PTL

-----------------------------------------------------------------------------
(* Whose an entity is.                                                      *)

\* Copies of different resources never show the same living entity.
LEMMA OneOwner ==
  ASSUME DistinctOrganizations, TypeOK, OwnershipInv, ReadyInv,
         NEW n \in Names, NEW m \in Names, NEW o \in Copies(n), NEW p \in Copies(m),
         o.id = p.id, Live(o.id)
  PROVE  n = m
<1>1. CASE Replaces
  BY <1>1, NoIdIsDead DEF ReadyInv, IdsApart
<1>2. CASE ~Replaces
  <2>1. kind \in Kinds \cap {"organization"}
    BY <1>2, KindsAssumption DEF TypeOK, Replaces
  <2>2. PICK s \in Wanted[kind][n] : s.ident = garm[o.id].ident
    BY DEF OwnershipInv
  <2>3. PICK t \in Wanted[kind][m] : t.ident = garm[o.id].ident
    BY DEF OwnershipInv
  <2> QED
    BY <2>1, <2>2, <2>3 DEF DistinctOrganizations
<1> QED
  BY <1>1, <1>2

\* If no two organizations ever have the same name in the forge, no two resources
\* ever have the same living entity on record; repositories and enterprises may
\* compete for a name.
THEOREM EntitiesNotShared ==
  ASSUME DistinctOrganizations
  PROVE  Spec => []NoSharedEntity
<1>1. TypeOK /\ OwnershipInv /\ ReadyInv => NoSharedEntity
  <2> SUFFICES ASSUME TypeOK, OwnershipInv, ReadyInv,
                      NEW n \in Names, NEW m \in Names, Exists(n), Exists(m), Live(cr[n].id), cr[n].id = cr[m].id
               PROVE  n = m
    BY DEF NoSharedEntity
  <2>1. cr[n] \in Copies(n) /\ cr[m] \in Copies(m)
    BY DEF Copies, Exists
  <2> QED
    BY <2>1, OneOwner
<1> QED
  BY <1>1, TypeCorrect, OwnershipInvariant, ReadyInvariant, PTL

\* If no two organizations ever have the same name in the forge, a deletion or a
\* replacement, which goes by an id read long before, destroys no entity that
\* another resource has on record.
THEOREM EntityDeletesOnlyItsOwn ==
  ASSUME DistinctOrganizations
  PROVE  Spec => DeletesOnlyItsOwn
<1> DEFINE A == (pc = "delete" \/ pc = "replace") /\ pc' # pc
                  => \A n \in Names : /\ Exists(n) /\ n # me /\ Live(cr[n].id)
                                       => garm'[cr[n].id] # Absent
<1>1. ASSUME TypeOK, OwnershipInv, ReadyInv, [Next]_vars PROVE [A]_vars
  <2> SUFFICES ASSUME pc = "delete" \/ pc = "replace", pc' # pc,
                      NEW n \in Names, Exists(n), n # me, Live(cr[n].id)
               PROVE  garm'[cr[n].id] # Absent
    OBVIOUS
  <2>1. CASE garm' = garm
    BY <2>1 DEF Live
  <2>2. CASE garm' = [garm EXCEPT ![obj.id] = Absent]
    <3>1. cr[n] \in Copies(n) /\ me \in Names /\ obj \in Copies(me)
      BY <1>1, WorkerHolds DEF Copies, Exists
    <3>2. cr[n].id # obj.id
      BY <1>1, <3>1, OneOwner
    <3>3. \A j \in Ids : garm'[j] = IF j = obj.id THEN Absent ELSE garm[j]
      BY <1>1, <2>2, Erased
    <3> QED
      BY <3>2, <3>3 DEF Live
  <2>3. CASE Delete \/ Replace
    BY <2>1, <2>2, <2>3 DEF Delete, Replace
  <2>4. CASE Crash
    BY <2>1, <2>4 DEF Crash, garmVars
  <2>5. pc # "idle" /\ ~AddFinalizer /\ ~Create /\ ~Adopt /\ ~Get /\ ~Update /\ ~HookInfo
        /\ ~HookInstall /\ ~MarkReady /\ ~MarkFalse /\ ~ClearId /\ ~RemoveFinalizer
    BY DEF AddFinalizer, Create, Adopt, Get, Update, HookInfo, HookInstall, MarkReady,
      MarkFalse, ClearId, RemoveFinalizer
  <2>6. ~UNCHANGED vars /\ \A m \in Names : ~Start(m) /\ ~CacheSync(m)
    BY <2>5 DEF vars, Start, Take, CacheSync, Refresh
  <2>7. \A m \in Names : ~UserCreate(m) /\ ~UserEdit(m) /\ ~UserDelete(m)
    BY DEF UserCreate, UserEdit, UserDelete, Touch, Change
  <2>8. /\ \A x \in Referable : ~RefChange(x)
        /\ \A i \in Ids : ~GarmEdit(i) /\ ~GarmDelete(i)
    BY DEF RefChange, GarmEdit, GarmDelete
  <2> QED
    BY <1>1, <2>3, <2>4, <2>5, <2>6, <2>7, <2>8 DEF Next, Work, Environment
<1>2. TypeOK /\ OwnershipInv /\ ReadyInv /\ [Next]_vars => [A]_vars
  BY <1>1
<1> QED
  BY <1>2, TypeCorrect, OwnershipInvariant, ReadyInvariant, PTL DEF Spec, DeletesOnlyItsOwn
=============================================================================
