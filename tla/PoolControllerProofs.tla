------------------------ MODULE PoolControllerProofs ------------------------
(***************************************************************************)
(* Proofs about PoolController, for every value of its constants.           *)
(***************************************************************************)
EXTENDS PoolController, TLAPS

USE MaxPoolsAssumption, MaxDisruptionsAssumption, NobodyAssumption

-----------------------------------------------------------------------------
(* Facts about the operators the actions are built from.                    *)

\* A new Pool is a Pool.
LEMMA NewPoolType == ASSUME NEW s \in PoolSpec PROVE NewPool(s) \in Pool
BY DEF NewPool, Pool, NoId, Ids

\* While a reconciliation is under way the worker holds a Pool and its name.
LEMMA WorkerHolds ==
  ASSUME TypeOK, pc # "idle"
  PROVE  me \in Names /\ obj \in Pool
BY DEF TypeOK

\* Requeueing leaves the worker idle and the queue a set of Pools.
LEMMA RequeueType ==
  ASSUME TypeOK, me \in Names, Return
  PROVE  /\ pc' = "idle" /\ me' = Nobody /\ obj' = Absent /\ fresh' = FALSE
         /\ queue' \subseteq Names
         /\ patch' \subseteq Fields /\ todo' \subseteq Runners
BY DEF TypeOK, Return, Requeue, Rest

\* A disruption is paid for from the budget.
LEMMA DisruptType ==
  ASSUME budget \in 0 .. MaxDisruptions, NEW kind, Disrupt(kind)
  PROVE  budget' \in 0 .. MaxDisruptions
BY DEF Disrupt

\* A write of a well-formed Pool keeps the types, whatever becomes of it.
LEMMA CommitType ==
  ASSUME TypeOK, pc # "idle", NEW o \in Pool, Commit(o)
  PROVE  TypeOK'
<1>1. me \in Names /\ obj \in Pool
  BY WorkerHolds
<1>2. Return
  BY DEF Commit, Write, Return
<1>3. /\ pc' = "idle" /\ me' = Nobody /\ obj' = Absent /\ fresh' = FALSE
      /\ queue' \subseteq Names
      /\ patch' \subseteq Fields /\ todo' \subseteq Runners
  BY <1>1, <1>2, RequeueType
<1>4. cr' \in [Names -> Pool \cup {Absent}] /\ stale' \subseteq Names
  BY <1>1 DEF Commit, TypeOK, Write
<1>5. budget' \in 0 .. MaxDisruptions
  <2>1. CASE Disrupt("fault")
    BY <2>1, DisruptType DEF TypeOK
  <2>2. CASE UNCHANGED budget
    BY <2>2 DEF TypeOK
  <2> QED
    BY <2>1, <2>2 DEF Commit, Write
<1>6. /\ cache' = cache /\ scopes' = scopes /\ garm' = garm
      /\ minted' = minted /\ owner' = owner /\ inst' = inst
  BY DEF Commit, garmVars, Write
<1> QED
  BY <1>3, <1>4, <1>5, <1>6 DEF TypeOK

\* The same for a write by someone other than the worker.
LEMMA TouchType ==
  ASSUME TypeOK, NEW p \in Names, NEW o \in Pool \cup {Absent}, Touch(p, o)
  PROVE  TypeOK'
<1>1. budget' \in 0 .. MaxDisruptions
  BY DisruptType DEF Touch, TypeOK, Change
<1>2. cr' \in [Names -> Pool \cup {Absent}] /\ stale' \subseteq Names
  BY DEF Touch, TypeOK, Change
<1>3. fresh' \in BOOLEAN /\ (fresh = FALSE => fresh' = FALSE)
  BY DEF Touch, TypeOK, Change
<1>4. UNCHANGED <<cache, queue, pc, me, obj, patch, todo, scopes, garmVars>>
  BY DEF Touch, Change
<1> QED
  BY <1>1, <1>2, <1>3, <1>4 DEF TypeOK, garmVars

-----------------------------------------------------------------------------
(* Type correctness.                                                        *)

LEMMA InitType == Init => TypeOK
<1> SUFFICES ASSUME Init PROVE TypeOK
  OBVIOUS
<1>1. cr \in [Names -> Pool \cup {Absent}]
  BY NewPoolType, WantedAssumption DEF Init
<1>2. garm \in [Ids -> GarmPool \cup {Absent}] /\ minted \in 0 .. MaxPools
  BY PreexistingAssumption DEF Init, Ids
<1>3. cache = cr /\ stale \subseteq Names /\ queue \subseteq Names /\ scopes \subseteq Scopes
  BY DEF Init
<1>4. pc = "idle" /\ me = Nobody /\ obj = Absent /\ fresh = FALSE /\ patch = {} /\ todo = {}
  BY DEF Init
<1>5. /\ owner \in [Ids -> Names \cup {Nobody}]
      /\ inst \in [Runners -> Instance \cup {Absent}]
      /\ budget \in 0 .. MaxDisruptions
  BY DEF Init
<1> QED
  BY <1>1, <1>2, <1>3, <1>4, <1>5 DEF TypeOK

\* The writes that end a reconciliation write well-formed Pools.
LEMMA WriteType ==
  ASSUME TypeOK,
         AddFinalizer \/ MarkReady \/ MarkPoolFalse \/ ClearId \/ DrainMark \/ DrainWait
  PROVE  TypeOK'
<1>1. pc # "idle"
  BY DEF AddFinalizer, MarkReady, MarkPoolFalse, ClearId, DrainMark, DrainWait
<1>2. obj \in Pool
  BY <1>1, WorkerHolds
<1>3. Defaulted(obj.spec) \in PoolSpec
  BY <1>2 DEF Defaulted, Pool, PoolSpec
<1>4. CASE AddFinalizer
  <2>1. [obj EXCEPT !.finalizer = TRUE,
                    !.spec = Defaulted(obj.spec),
                    !.current = obj.current /\ Defaulted(obj.spec) = obj.spec] \in Pool
    BY <1>2, <1>3 DEF Pool
  <2> QED
    BY <1>1, <1>4, <2>1, CommitType DEF AddFinalizer
<1>5. CASE MarkReady
  <2>1. [obj EXCEPT !.ready = TRUE, !.current = TRUE] \in Pool
    BY <1>2 DEF Pool
  <2> QED
    BY <1>1, <1>5, <2>1, CommitType DEF MarkReady
<1>6. CASE MarkPoolFalse
  <2>1. [obj EXCEPT !.ready = FALSE] \in Pool
    BY <1>2 DEF Pool
  <2> QED
    BY <1>1, <1>6, <2>1, CommitType DEF MarkPoolFalse
<1>7. CASE ClearId
  BY <1>1, <1>2, <1>7, CommitType DEF ClearId
<1>8. CASE DrainMark
  <2>1. [obj EXCEPT !.draining = "Disabled"] \in Pool
    BY <1>2 DEF Pool
  <2> QED
    BY <1>1, <1>8, <2>1, CommitType DEF DrainMark
<1>9. CASE DrainWait
  <2>1. [obj EXCEPT !.draining = "WaitingForRunners"] \in Pool
    BY <1>2 DEF Pool
  <2> QED
    BY <1>1, <1>9, <2>1, CommitType DEF DrainWait
<1> QED
  BY <1>4, <1>5, <1>6, <1>7, <1>8, <1>9

\* Calls to GARM on the way to Ready.
LEMMA ReconcileCallType ==
  ASSUME TypeOK, ListPools \/ CreatePool \/ GetPool \/ UpdatePool \/ SyncInstances
  PROVE  TypeOK'
<1>1. pc # "idle"
  BY DEF ListPools, CreatePool, GetPool, UpdatePool, SyncInstances
<1>2. me \in Names /\ obj \in Pool
  BY <1>1, WorkerHolds
<1>3. pc' \in ReconcileSteps /\ me' = me /\ fresh' = fresh
  BY DEF ListPools, CreatePool, GetPool, UpdatePool, SyncInstances, Goto, ReconcileSteps
<1>4. budget' \in 0 .. MaxDisruptions
  <2>1. CASE Disrupt("fault")
    BY <2>1, DisruptType DEF TypeOK
  <2>2. CASE UNCHANGED budget
    BY <2>2 DEF TypeOK
  <2> QED
    BY <2>1, <2>2 DEF ListPools, CreatePool, GetPool, UpdatePool, SyncInstances
<1>5. UNCHANGED <<kube, todo, scopes, inst>>
  BY DEF ListPools, CreatePool, GetPool, UpdatePool, SyncInstances, garmVars, Mint
<1>6. obj.spec \in PoolSpec /\ Desired(obj.spec) \in GarmPool
  BY <1>2 DEF Pool, PoolSpec, GarmPool, Desired
<1>7. /\ obj' \in Pool /\ patch' \subseteq Fields
      /\ garm' \in [Ids -> GarmPool \cup {Absent}]
      /\ minted' \in 0 .. MaxPools
      /\ owner' \in [Ids -> Names \cup {Nobody}]
  <2>1. CASE ListPools
    BY <1>2, <2>1 DEF ListPools, TypeOK, Pool, Ids, NoId, garmVars
  <2>2. CASE CreatePool
    <3>1. CASE Mint(obj.spec)
      <4>1. /\ minted' \in 0 .. MaxPools /\ minted + 1 \in 0 .. MaxPools
            /\ garm' \in [Ids -> GarmPool \cup {Absent}]
            /\ owner' \in [Ids -> Names \cup {Nobody}]
        BY <1>2, <1>6, <3>1 DEF Mint, TypeOK, Ids
      <4>2. obj' \in Pool /\ patch' \subseteq Fields
        BY <1>2, <2>2, <4>1 DEF CreatePool, TypeOK, Pool
      <4> QED
        BY <4>1, <4>2
    <3>2. CASE UNCHANGED <<obj, garmVars>>
      BY <1>2, <2>2, <3>2 DEF CreatePool, TypeOK, garmVars
    <3> QED
      BY <2>2, <3>1, <3>2 DEF CreatePool
  <2>3. CASE GetPool
    <3>1. obj' \in Pool
      BY <1>2, <2>3 DEF GetPool, Pool, NoId, Ids
    <3>2. patch' \subseteq Fields
      BY <2>3 DEF GetPool, TypeOK, Diff
    <3> QED
      BY <2>3, <3>1, <3>2 DEF GetPool, TypeOK, garmVars
  <2>4. CASE UpdatePool
    <3>1. CASE ApplyPatch
      <4>1. obj.id \in Ids /\ garm[obj.id] \in GarmPool
        BY <1>2, <3>1 DEF ApplyPatch, Live, TypeOK, Pool, Ids
      <4>2. Patched(garm[obj.id], obj.spec, patch) \in GarmPool
        BY <1>6, <4>1 DEF Patched, GarmPool, PoolSpec
      <4> QED
        BY <1>2, <2>4, <3>1, <4>1, <4>2 DEF UpdatePool, ApplyPatch, TypeOK
    <3>2. CASE UNCHANGED garm
      BY <1>2, <2>4, <3>2 DEF UpdatePool, TypeOK
    <3> QED
      BY <2>4, <3>1, <3>2 DEF UpdatePool
  <2>5. CASE SyncInstances
    BY <1>2, <2>5 DEF SyncInstances, TypeOK, garmVars
  <2> QED
    BY <2>1, <2>2, <2>3, <2>4, <2>5
<1> QED
  BY <1>2, <1>3, <1>4, <1>5, <1>7 DEF TypeOK, kube

\* Calls to GARM while draining.
LEMMA DrainCallType ==
  ASSUME TypeOK,
         DrainGet \/ DrainDisable \/ DrainList \/ DrainDelete
  PROVE  TypeOK'
<1>1. pc # "idle"
  BY DEF DrainGet, DrainDisable, DrainList, DrainDelete
<1>2. me \in Names /\ obj \in Pool
  BY <1>1, WorkerHolds
<1>3. /\ UNCHANGED <<cr, cache, stale, scopes, minted, owner, inst>>
  BY DEF DrainGet, DrainDisable, DrainList, DrainDelete, DrainGoto, DrainFailed, kube, garmVars
<1>4. budget' \in 0 .. MaxDisruptions
  <2>1. CASE Disrupt("fault")
    BY <2>1, DisruptType DEF TypeOK
  <2>2. CASE UNCHANGED budget
    BY <2>2 DEF TypeOK
  <2> QED
    BY <2>1, <2>2
    DEF DrainGet, DrainDisable, DrainList, DrainDelete, DrainGoto, DrainFailed, kube
<1>5. garm' \in [Ids -> GarmPool \cup {Absent}]
  <2>1. CASE garm' = [garm EXCEPT ![obj.id] = Absent]
    BY <2>1 DEF TypeOK
  <2>2. CASE Disable
    <3>1. obj.id \in Ids /\ garm[obj.id] \in GarmPool
      BY <2>2 DEF Disable, Live, TypeOK
    <3>2. [garm[obj.id] EXCEPT !.enabled = FALSE] \in GarmPool
      BY <3>1 DEF GarmPool
    <3> QED
      BY <2>2, <3>1, <3>2 DEF Disable, TypeOK
  <2>3. CASE UNCHANGED garm
    BY <2>3 DEF TypeOK
  <2> QED
    BY <2>1, <2>2, <2>3 DEF DrainGet, DrainDisable, DrainList, DrainDelete, garmVars
<1>6. CASE Return
  BY <1>2, <1>3, <1>4, <1>5, <1>6, RequeueType DEF TypeOK
<1>7. CASE /\ pc' \in DrainSteps /\ todo' \subseteq Runners
           /\ UNCHANGED <<queue, me, fresh, obj, patch>>
  BY <1>1, <1>2, <1>3, <1>4, <1>5, <1>7 DEF TypeOK
<1> QED
  <2>1. CASE DrainGet
    BY <1>6, <1>7, <2>1 DEF DrainGet, DrainGoto, DrainFailed, Goto, kube, DrainSteps, TypeOK
  <2>2. CASE DrainDisable
    BY <1>6, <1>7, <2>2 DEF DrainDisable, DrainGoto, DrainFailed, Goto, kube, DrainSteps, TypeOK
  <2>3. CASE DrainList
    <3>1. {r \in Members(obj.id) : Drainable(inst[r].status)} \subseteq Runners
      BY DEF Members
    <3> QED
      BY <1>6, <1>7, <2>3, <3>1
      DEF DrainList, DrainGoto, DrainFailed, Goto, kube, DrainSteps, TypeOK
  <2>4. CASE DrainDelete
    BY <1>6, <1>7, <2>4 DEF DrainDelete, DrainGoto, DrainFailed, Goto, kube, DrainSteps, TypeOK
  <2> QED
    BY <2>1, <2>2, <2>3, <2>4

LEMMA DrainRunnerType ==
  ASSUME TypeOK, NEW r \in Runners, DrainRunner(r)
  PROVE  TypeOK'
<1>1. budget' \in 0 .. MaxDisruptions
  <2>1. CASE Disrupt("fault")
    BY <2>1, DisruptType DEF TypeOK
  <2>2. CASE UNCHANGED budget
    BY <2>2 DEF TypeOK
  <2> QED
    BY <2>1, <2>2 DEF DrainRunner
<1>2. inst' \in [Runners -> Instance \cup {Absent}] /\ todo' \subseteq Runners
  BY DEF DrainRunner, TypeOK
<1>3. UNCHANGED <<kube, pc, me, obj, fresh, patch, scopes, garm, minted, owner>>
  BY DEF DrainRunner
<1> QED
  BY <1>1, <1>2, <1>3 DEF TypeOK, kube

LEMMA RemoveFinalizerType ==
  ASSUME TypeOK, RemoveFinalizer
  PROVE  TypeOK'
<1>1. me \in Names /\ obj \in Pool
  BY WorkerHolds DEF RemoveFinalizer, Release
<1>2. cr' \in [Names -> Pool \cup {Absent}] /\ stale' \subseteq Names
  BY <1>1 DEF RemoveFinalizer, TypeOK, Release
<1>3. budget' \in 0 .. MaxDisruptions
  <2>1. CASE Disrupt("fault")
    BY <2>1, DisruptType DEF TypeOK
  <2>2. CASE UNCHANGED budget
    BY <2>2 DEF TypeOK
  <2> QED
    BY <2>1, <2>2 DEF RemoveFinalizer, Release
<1>4. /\ pc' = "idle" /\ me' = Nobody /\ obj' = Absent /\ fresh' = FALSE
      /\ queue' \subseteq Names /\ patch' \subseteq Fields /\ todo' \subseteq Runners
  BY <1>1 DEF RemoveFinalizer, Requeue, Rest, TypeOK, Release
<1>5. UNCHANGED <<cache, scopes, garm, minted, owner, inst>>
  BY DEF RemoveFinalizer, garmVars, Release
<1> QED
  BY <1>2, <1>3, <1>4, <1>5 DEF TypeOK

LEMMA StartType ==
  ASSUME TypeOK, NEW p \in Names, Start(p)
  PROVE  TypeOK'
<1>1. UNCHANGED <<cr, cache, stale, patch, todo, scopes, garm, minted, owner, inst, budget>>
  BY DEF Start, garmVars, Take
<1>2. queue' \subseteq Names
  BY DEF Start, TypeOK, Take
<1>3. CASE Finished(cache[p])
  BY <1>1, <1>2, <1>3 DEF Start, TypeOK, Take
<1>4. CASE ~Finished(cache[p])
  <2>1. cache[p] \in Pool
    BY <1>4 DEF Finished, TypeOK
  <2>2. FirstStep(cache[p]) \in ReconcileSteps \cup DrainSteps
    BY DEF FirstStep, ReconcileSteps, DrainSteps
  <2>3. /\ pc' \in ReconcileSteps \cup DrainSteps /\ me' \in Names
        /\ obj' \in Pool /\ fresh' \in BOOLEAN
    BY <1>4, <2>1, <2>2 DEF Start, Take
  <2> QED
    BY <1>1, <1>2, <2>3 DEF TypeOK
<1> QED
  BY <1>3, <1>4

LEMMA UserType ==
  ASSUME TypeOK, NEW p \in Names, UserCreate(p) \/ UserEdit(p) \/ UserDelete(p)
  PROVE  TypeOK'
<1>1. CASE UserCreate(p)
  <2>1. PICK s \in Wanted[p] : Touch(p, NewPool(s))
    BY <1>1 DEF UserCreate
  <2>2. NewPool(s) \in Pool
    BY <2>1, NewPoolType, WantedAssumption
  <2> QED
    BY <2>1, <2>2, TouchType
<1>2. CASE UserEdit(p)
  <2>1. cr[p] \in Pool
    BY <1>2 DEF UserEdit, Exists, TypeOK
  <2>2. PICK s \in Wanted[p] : Touch(p, [cr[p] EXCEPT !.spec = s, !.current = FALSE])
    BY <1>2 DEF UserEdit
  <2>3. [cr[p] EXCEPT !.spec = s, !.current = FALSE] \in Pool
    BY <2>1, <2>2, WantedAssumption DEF Pool
  <2> QED
    BY <2>2, <2>3, TouchType
<1>3. CASE UserDelete(p)
  <2>1. cr[p] \in Pool
    BY <1>3 DEF UserDelete, Exists, TypeOK, Deleted
  <2>2. [cr[p] EXCEPT !.deleting = TRUE, !.current = FALSE] \in Pool
    BY <2>1 DEF Pool
  <2> QED
    BY <1>3, <2>2, TouchType DEF UserDelete, Deleted
<1> QED
  BY <1>1, <1>2, <1>3

LEMMA OutsideType ==
  ASSUME TypeOK,
         \/ \E p \in Names : CacheSync(p)
         \/ \E s \in Scopes : ScopeChange(s)
         \/ \E i \in Ids : GarmEdit(i) \/ GarmDelete(i)
         \/ Crash
  PROVE  TypeOK'
<1>1. CASE \E p \in Names : CacheSync(p)
  BY <1>1 DEF CacheSync, TypeOK, worker, garmVars, Refresh
<1>2. CASE \E s \in Scopes : ScopeChange(s)
  BY <1>2, DisruptType DEF ScopeChange, TypeOK, worker, garmVars
<1>3. ASSUME NEW i \in Ids, GarmEdit(i)
      PROVE  TypeOK'
  <2>1. garm[i] \in GarmPool
    BY <1>3 DEF GarmEdit, Live, TypeOK
  <2>2. PICK v \in Settings, e \in BOOLEAN :
          garm' = [garm EXCEPT ![i] = [@ EXCEPT !.settings = v, !.enabled = e]]
    BY <1>3 DEF GarmEdit
  <2>3. [garm[i] EXCEPT !.settings = v, !.enabled = e] \in GarmPool
    BY <2>1, <2>2 DEF GarmPool
  <2>4. garm' \in [Ids -> GarmPool \cup {Absent}]
    BY <2>2, <2>3 DEF TypeOK
  <2> QED
    BY <1>3, <2>4, DisruptType DEF GarmEdit, TypeOK, worker, kube
<1>4. ASSUME NEW i \in Ids, GarmDelete(i)
      PROVE  TypeOK'
  BY <1>4, DisruptType DEF GarmDelete, TypeOK, worker, kube
<1>5. CASE Crash
  BY <1>5, DisruptType DEF Crash, Rest, TypeOK, garmVars, Restart
<1> QED
  BY <1>1, <1>2, <1>3, <1>4, <1>5

LEMMA RunnersType ==
  ASSUME TypeOK,
         \/ \E r \in Runners, i \in Ids : Spawn(r, i)
         \/ \E r \in Runners : Advance(r) \/ Reap(r)
  PROVE  TypeOK'
<1>1. ASSUME NEW r \in Runners, NEW i \in Ids, Spawn(r, i)
      PROVE  inst' \in [Runners -> Instance \cup {Absent}]
  BY <1>1 DEF Spawn, TypeOK, Instance, RunnerStatus
<1>2. ASSUME NEW r \in Runners, Advance(r)
      PROVE  inst' \in [Runners -> Instance \cup {Absent}]
  <2>1. inst[r] \in Instance
    BY <1>2 DEF Advance, TypeOK
  <2>2. PICK s \in Successors(inst[r].status) :
          inst' = [inst EXCEPT ![r] = [pool |-> inst[r].pool, status |-> s]]
    BY <1>2 DEF Advance
  <2>3. s \in RunnerStatus
    BY <2>2 DEF Successors, RunnerStatus
  <2> QED
    BY <2>1, <2>2, <2>3 DEF TypeOK, Instance
<1>3. ASSUME NEW r \in Runners, Reap(r)
      PROVE  inst' \in [Runners -> Instance \cup {Absent}]
  BY <1>3 DEF Reap, TypeOK
<1>4. inst' \in [Runners -> Instance \cup {Absent}]
  BY <1>1, <1>2, <1>3
<1>5. UNCHANGED <<kube, worker, scopes, garm, minted, owner, budget>>
  BY DEF Spawn, Advance, Reap
<1> QED
  BY <1>4, <1>5 DEF TypeOK, kube, worker

LEMMA NextType == TypeOK /\ [Next]_vars => TypeOK'
<1> SUFFICES ASSUME TypeOK, [Next]_vars PROVE TypeOK'
  OBVIOUS
<1>1. CASE \E p \in Names : Start(p)
  BY <1>1, StartType
<1>2. CASE Work
  BY <1>2, WriteType, ReconcileCallType, DrainCallType, DrainRunnerType, RemoveFinalizerType
  DEF Work
<1>3. CASE Environment
  BY <1>3, UserType, OutsideType, RunnersType DEF Environment
<1>4. CASE UNCHANGED vars
  BY <1>4 DEF vars, TypeOK
<1> QED
  BY <1>1, <1>2, <1>3, <1>4 DEF Next

\* Every variable keeps its type; in particular the worker holds a Pool exactly
\* while a reconciliation is under way.
THEOREM TypeCorrect == Spec => []TypeOK
<1> QED
  BY InitType, NextType, PTL DEF Spec

-----------------------------------------------------------------------------
(* Finalizers.  FinalizerInv is preserved by every step.                    *)

LEMMA FinalizerInit == Init => FinalizerInv
<1> SUFFICES ASSUME Init PROVE FinalizerInv
  OBVIOUS
<1>1. \A p \in Names : Exists(p) => \E s : cr[p] = NewPool(s)
  BY DEF Init, Exists
<1>2. ASSUME NEW p \in Names, Exists(p)
      PROVE  ~cr[p].finalizer /\ ~cr[p].deleting /\ cr[p].id = NoId
  <2>1. PICK s : cr[p] = NewPool(s)
    BY <1>1, <1>2
  <2> QED
    BY <2>1 DEF NewPool
<1> QED
  BY <1>2 DEF Init, FinalizerInv, CacheIsCurrent, CachedFinalizerHolds, BareHasNothing,
    FreshCopy, ReconcileUnderFinalizer, DrainCopy, ReleasesNothing, ReconcileSteps,
    DrainSteps, Exists

\* What holds of an idle worker.
LEMMA IdleFacts ==
  ASSUME pc = "idle", fresh = FALSE
  PROVE  FreshCopy /\ ReconcileUnderFinalizer /\ DrainCopy /\ ReleasesNothing
BY DEF FreshCopy, ReconcileUnderFinalizer, DrainCopy, ReleasesNothing, ReconcileSteps, DrainSteps

\* A write that keeps deletion requests and leaves the finalizer in place is safe.
LEMMA FinalizerCommit ==
  ASSUME TypeOK, FinalizerInv, pc # "idle", NEW o \in Pool, Commit(o),
         fresh => o.finalizer
  PROVE  FinalizerInv'
<1>1. me \in Names /\ obj \in Pool
  BY WorkerHolds
<1>2. pc' = "idle" /\ fresh' = FALSE
  BY DEF Commit, Requeue, Rest, Write
<1>3. FreshCopy' /\ ReconcileUnderFinalizer' /\ DrainCopy' /\ ReleasesNothing'
  BY <1>2 DEF FreshCopy, ReconcileUnderFinalizer, DrainCopy, ReleasesNothing,
    ReconcileSteps, DrainSteps
<1>4. CASE UNCHANGED <<cr, stale>>
  <2>1. UNCHANGED <<cr, cache, stale>>
    BY <1>4 DEF Commit, Write
  <2> QED
    BY <1>3, <2>1 DEF FinalizerInv, CacheIsCurrent, CachedFinalizerHolds, BareHasNothing, Exists
<1>5. CASE /\ fresh /\ cr' = [cr EXCEPT ![me] = o]
           /\ stale' = IF o = cr[me] THEN stale ELSE stale \cup {me}
  <2>1. cache' = cache /\ o.finalizer /\ o # Absent
    BY <1>5, AbsentAssumption DEF Commit, Write
  <2>2. cr'[me] = o /\ \A p \in Names : p # me => cr'[p] = cr[p]
    BY <1>1, <1>5 DEF TypeOK
  <2>3. CacheIsCurrent'
    BY <1>1, <1>5, <2>1, <2>2 DEF FinalizerInv, CacheIsCurrent
  <2>4. CachedFinalizerHolds'
    BY <2>1, <2>2 DEF FinalizerInv, CachedFinalizerHolds, Exists
  <2>5. BareHasNothing'
    BY <2>1, <2>2 DEF FinalizerInv, BareHasNothing, Exists
  <2> QED
    BY <1>3, <2>3, <2>4, <2>5 DEF FinalizerInv
<1> QED
  BY <1>4, <1>5 DEF Commit, Write

\* A fresh copy of a Pool that drain works on has the finalizer.
LEMMA DrainHasFinalizer ==
  ASSUME TypeOK, FinalizerInv, pc \in DrainSteps, fresh
  PROVE  obj.finalizer
<1>1. me \in Names
  BY WorkerHolds DEF DrainSteps
<1> QED
  BY <1>1 DEF FinalizerInv, FreshCopy, DrainCopy, BareHasNothing, Exists

LEMMA FinalizerWrites ==
  ASSUME TypeOK, FinalizerInv,
         AddFinalizer \/ MarkReady \/ MarkPoolFalse \/ ClearId \/ DrainMark \/ DrainWait
  PROVE  FinalizerInv'
<1>1. pc # "idle"
  BY DEF AddFinalizer, MarkReady, MarkPoolFalse, ClearId, DrainMark, DrainWait
<1>2. obj \in Pool
  BY <1>1, WorkerHolds
<1>3. CASE AddFinalizer
  <2>1. Defaulted(obj.spec) \in PoolSpec
    BY <1>2 DEF Defaulted, Pool, PoolSpec
  <2> DEFINE o == [obj EXCEPT !.finalizer = TRUE,
                              !.spec = Defaulted(obj.spec),
                              !.current = obj.current /\ Defaulted(obj.spec) = obj.spec]
  <2>2. o \in Pool /\ o.finalizer
    BY <1>2, <2>1 DEF Pool
  <2>3. Commit(o)
    BY <1>3 DEF AddFinalizer
  <2> HIDE DEF o
  <2> QED
    BY <1>1, <2>2, <2>3, FinalizerCommit
<1>4. CASE MarkReady
  <2>1. /\ [obj EXCEPT !.ready = TRUE, !.current = TRUE] \in Pool
        /\ [obj EXCEPT !.ready = TRUE, !.current = TRUE].finalizer = obj.finalizer
    BY <1>2 DEF Pool
  <2>2. obj.finalizer
    BY <1>4 DEF MarkReady, FinalizerInv, ReconcileUnderFinalizer, ReconcileSteps
  <2> QED
    BY <1>1, <1>4, <2>1, <2>2, FinalizerCommit DEF MarkReady
<1>5. CASE MarkPoolFalse
  <2>1. /\ [obj EXCEPT !.ready = FALSE] \in Pool
        /\ [obj EXCEPT !.ready = FALSE].finalizer = obj.finalizer
    BY <1>2 DEF Pool
  <2>2. obj.finalizer
    BY <1>5 DEF MarkPoolFalse, FinalizerInv, ReconcileUnderFinalizer, ReconcileSteps
  <2> QED
    BY <1>1, <1>5, <2>1, <2>2, FinalizerCommit DEF MarkPoolFalse
<1>6. CASE ClearId
  <2>1. obj.finalizer
    BY <1>6 DEF ClearId, FinalizerInv, ReconcileUnderFinalizer, ReconcileSteps
  <2> QED
    BY <1>1, <1>2, <1>6, <2>1, FinalizerCommit DEF ClearId
<1>7. CASE DrainMark
  <2>1. /\ [obj EXCEPT !.draining = "Disabled"] \in Pool
        /\ [obj EXCEPT !.draining = "Disabled"].finalizer = obj.finalizer
    BY <1>2 DEF Pool
  <2>2. fresh => obj.finalizer
    BY <1>7, DrainHasFinalizer DEF DrainMark, DrainSteps
  <2> QED
    BY <1>1, <1>7, <2>1, <2>2, FinalizerCommit DEF DrainMark
<1>8. CASE DrainWait
  <2>1. /\ [obj EXCEPT !.draining = "WaitingForRunners"] \in Pool
        /\ [obj EXCEPT !.draining = "WaitingForRunners"].finalizer = obj.finalizer
    BY <1>2 DEF Pool
  <2>2. fresh => obj.finalizer
    BY <1>8, DrainHasFinalizer DEF DrainWait, DrainSteps
  <2> QED
    BY <1>1, <1>8, <2>1, <2>2, FinalizerCommit DEF DrainWait
<1> QED
  BY <1>3, <1>4, <1>5, <1>6, <1>7, <1>8

\* Calls to GARM on the way to Ready change neither store that matters here,
\* nor what the worker knows of the finalizer.
LEMMA FinalizerReconcileCalls ==
  ASSUME TypeOK, FinalizerInv,
         ListPools \/ CreatePool \/ GetPool \/ UpdatePool \/ SyncInstances
  PROVE  FinalizerInv'
<1>1. pc # "idle" /\ pc \in ReconcileSteps \ {"finalize"}
  BY DEF ListPools, CreatePool, GetPool, UpdatePool, SyncInstances, ReconcileSteps
<1>2. me \in Names /\ obj \in Pool
  BY <1>1, WorkerHolds
<1>3. UNCHANGED <<cr, cache, stale, me, fresh>>
  BY DEF ListPools, CreatePool, GetPool, UpdatePool, SyncInstances, Goto, kube
<1>4. pc' \in ReconcileSteps \ {"finalize"}
  BY DEF ListPools, CreatePool, GetPool, UpdatePool, SyncInstances, Goto, ReconcileSteps
<1>5. obj'.finalizer = obj.finalizer /\ obj'.deleting = obj.deleting
  BY <1>2 DEF ListPools, CreatePool, GetPool, UpdatePool, SyncInstances, Pool
<1>6. CacheIsCurrent' /\ CachedFinalizerHolds' /\ BareHasNothing'
  BY <1>3 DEF FinalizerInv, CacheIsCurrent, CachedFinalizerHolds, BareHasNothing, Exists
<1>7. FreshCopy' /\ ReconcileUnderFinalizer'
  BY <1>1, <1>3, <1>5 DEF FinalizerInv, FreshCopy, ReconcileUnderFinalizer, Exists
<1>8. DrainCopy' /\ ReleasesNothing'
  BY <1>4 DEF DrainCopy, ReleasesNothing, ReconcileSteps, DrainSteps
<1> QED
  BY <1>6, <1>7, <1>8 DEF FinalizerInv

LEMMA FinalizerDrainCalls ==
  ASSUME TypeOK, FinalizerInv,
         \/ DrainGet \/ DrainDisable \/ DrainList \/ DrainDelete
         \/ \E r \in Runners : DrainRunner(r)
  PROVE  FinalizerInv'
<1>1. pc # "idle" /\ pc \in DrainSteps
  BY DEF DrainGet, DrainDisable, DrainList, DrainDelete, DrainRunner, DrainSteps
<1>2. me \in Names /\ obj \in Pool
  BY <1>1, WorkerHolds
<1>3. UNCHANGED <<cr, cache, stale>>
  BY DEF DrainGet, DrainDisable, DrainList, DrainDelete, DrainRunner, DrainGoto,
    DrainFailed, kube
<1>4. CacheIsCurrent' /\ CachedFinalizerHolds' /\ BareHasNothing'
  BY <1>3 DEF FinalizerInv, CacheIsCurrent, CachedFinalizerHolds, BareHasNothing, Exists
<1>5. CASE Return
  <2>1. pc' = "idle" /\ fresh' = FALSE
    BY <1>5 DEF Return, Requeue, Rest
  <2> QED
    BY <1>4, <2>1 DEF FinalizerInv, FreshCopy, ReconcileUnderFinalizer, DrainCopy,
      ReleasesNothing, ReconcileSteps, DrainSteps
<1>6. CASE /\ pc' \in DrainSteps /\ UNCHANGED <<me, obj, fresh>>
           /\ pc' = "unfinalize" => ~Live(obj.id)'
  <2>1. FreshCopy' /\ DrainCopy'
    BY <1>1, <1>3, <1>6 DEF FinalizerInv, FreshCopy, DrainCopy, Exists
  <2>2. ReconcileUnderFinalizer'
    BY <1>6 DEF ReconcileUnderFinalizer, ReconcileSteps, DrainSteps
  <2>3. ReleasesNothing'
    BY <1>6 DEF ReleasesNothing, Live
  <2> QED
    BY <1>4, <2>1, <2>2, <2>3 DEF FinalizerInv
<1> QED
  <2>1. CASE DrainGet
    BY <1>5, <1>6, <2>1 DEF DrainGet, DrainGoto, DrainFailed, Goto, DrainSteps, garmVars, Live
  <2>2. CASE DrainDisable
    BY <1>5, <1>6, <2>2 DEF DrainDisable, DrainGoto, DrainFailed, Goto, DrainSteps
  <2>3. CASE DrainList
    BY <1>5, <1>6, <2>3 DEF DrainList, DrainGoto, DrainFailed, Goto, DrainSteps
  <2>4. CASE DrainDelete
    <3>1. CASE /\ garm' = [garm EXCEPT ![obj.id] = Absent]
               /\ DrainGoto("unfinalize")
      <4>1. ~Live(obj.id)'
        BY <3>1 DEF Live, TypeOK, DrainGoto
      <4> QED
        BY <1>6, <3>1, <4>1 DEF DrainGoto, Goto, DrainSteps
    <3> QED
      BY <1>5, <2>4, <3>1 DEF DrainDelete, DrainFailed
  <2>5. CASE \E r \in Runners : DrainRunner(r)
    BY <1>6, <2>5 DEF DrainRunner, DrainSteps
  <2> QED
    BY <2>1, <2>2, <2>3, <2>4, <2>5

LEMMA FinalizerRemove ==
  ASSUME TypeOK, FinalizerInv, RemoveFinalizer
  PROVE  FinalizerInv'
<1>1. me \in Names /\ pc \in DrainSteps
  BY WorkerHolds DEF RemoveFinalizer, DrainSteps, Release
<1>2. pc' = "idle" /\ fresh' = FALSE /\ cache' = cache
  BY DEF RemoveFinalizer, Requeue, Rest, Release
<1>3. FreshCopy' /\ ReconcileUnderFinalizer' /\ DrainCopy' /\ ReleasesNothing'
  BY <1>2 DEF FreshCopy, ReconcileUnderFinalizer, DrainCopy, ReleasesNothing,
    ReconcileSteps, DrainSteps
<1>4. CASE UNCHANGED <<cr, stale>>
  BY <1>2, <1>3, <1>4
  DEF FinalizerInv, CacheIsCurrent, CachedFinalizerHolds, BareHasNothing, Exists
<1>5. CASE fresh /\ cr' = [cr EXCEPT ![me] = Absent] /\ stale' = stale \cup {me}
  <2>1. cr'[me] = Absent /\ \A p \in Names : p # me => cr'[p] = cr[p]
    BY <1>1, <1>5 DEF TypeOK
  <2>2. cache[me] # Absent /\ cache[me].deleting
    BY <1>1, <1>5 DEF FinalizerInv, DrainCopy
  <2>3. CacheIsCurrent' /\ CachedFinalizerHolds' /\ BareHasNothing'
    BY <1>2, <1>5, <2>1, <2>2
    DEF FinalizerInv, CacheIsCurrent, CachedFinalizerHolds, BareHasNothing, Exists
  <2> QED
    BY <1>3, <2>3 DEF FinalizerInv
<1> QED
  BY <1>4, <1>5 DEF RemoveFinalizer, Release

LEMMA FinalizerStart ==
  ASSUME TypeOK, FinalizerInv, NEW p \in Names, Start(p)
  PROVE  FinalizerInv'
<1>1. UNCHANGED <<cr, cache, stale, garm>>
  BY DEF Start, garmVars, Take
<1>2. CacheIsCurrent' /\ CachedFinalizerHolds' /\ BareHasNothing'
  BY <1>1 DEF FinalizerInv, CacheIsCurrent, CachedFinalizerHolds, BareHasNothing, Exists
<1>3. CASE Finished(cache[p])
  BY <1>1, <1>2, <1>3 DEF Start, FinalizerInv, FreshCopy, ReconcileUnderFinalizer,
    DrainCopy, ReleasesNothing, Exists, Live, Take
<1>4. CASE ~Finished(cache[p])
  <2>1. /\ pc' = FirstStep(cache[p]) /\ me' = p /\ obj' = cache[p]
        /\ fresh' = (p \notin stale)
    BY <1>4 DEF Start, Take
  <2>2. cache[p] \in Pool /\ cache[p] # Absent
    BY <1>4 DEF Finished, TypeOK
  <2>3. fresh' => cr[p] = cache[p]
    BY <2>1 DEF FinalizerInv, CacheIsCurrent
  <2>4. FreshCopy'
    BY <1>1, <2>1, <2>2, <2>3 DEF FreshCopy, Exists
  <2>5. ReconcileUnderFinalizer'
    <3> SUFFICES ASSUME pc' \in ReconcileSteps \ {"finalize"}
                 PROVE  /\ cache[p].finalizer /\ ~cache[p].deleting
                        /\ Exists(p) /\ cr[p].finalizer
      BY <1>1, <2>1 DEF ReconcileUnderFinalizer, Exists
    <3>1. cache[p].finalizer /\ ~cache[p].deleting
      BY <2>1 DEF FirstStep, ReconcileSteps
    <3> QED
      BY <2>2, <3>1 DEF FinalizerInv, CachedFinalizerHolds
  <2>6. DrainCopy'
    <3>1. pc' \in DrainSteps => cache[p].deleting
      BY <2>1 DEF FirstStep, DrainSteps
    <3> QED
      BY <1>1, <2>1, <2>2, <2>3, <3>1 DEF DrainCopy
  <2>7. ReleasesNothing'
    BY <2>1 DEF ReleasesNothing, FirstStep
  <2> QED
    BY <1>2, <2>4, <2>5, <2>6, <2>7 DEF FinalizerInv
<1> QED
  BY <1>3, <1>4

\* Users never take the finalizer away: a Pool that loses its object without
\* the worker's doing had none.
LEMMA FinalizerTouch ==
  ASSUME TypeOK, FinalizerInv, NEW p \in Names, NEW o, Touch(p, o),
         Exists(p) /\ cr[p].finalizer => o # Absent /\ o.finalizer,
         o # Absent /\ ~o.finalizer => o.id = NoId /\ ~o.deleting
  PROVE  FinalizerInv'
<1>1. /\ UNCHANGED <<cache, pc, me, obj, garm>>
      /\ stale' = stale \cup {p} /\ fresh' = (fresh /\ me # p)
  BY DEF Touch, garmVars, Change
<1>2. cr'[p] = o /\ \A q \in Names : q # p => cr'[q] = cr[q]
  BY DEF Touch, TypeOK, Change
<1>3. CacheIsCurrent' /\ CachedFinalizerHolds' /\ BareHasNothing'
  BY <1>1, <1>2
  DEF FinalizerInv, CacheIsCurrent, CachedFinalizerHolds, BareHasNothing, Exists
<1>4. pc # "idle" => me \in Names
  BY WorkerHolds
<1>5. fresh => pc # "idle"
  BY DEF TypeOK, ReconcileSteps, DrainSteps
<1>6. FreshCopy'
  BY <1>1, <1>2, <1>4, <1>5 DEF FinalizerInv, FreshCopy, Exists
<1>7. ReconcileUnderFinalizer'
  BY <1>1, <1>2, <1>4 DEF FinalizerInv, ReconcileUnderFinalizer, Exists, ReconcileSteps
<1>8. DrainCopy' /\ ReleasesNothing'
  BY <1>1, <1>2, <1>4, <1>5 DEF FinalizerInv, DrainCopy, ReleasesNothing, Live
<1> QED
  BY <1>3, <1>6, <1>7, <1>8 DEF FinalizerInv

LEMMA FinalizerUser ==
  ASSUME TypeOK, FinalizerInv, NEW p \in Names,
         UserCreate(p) \/ UserEdit(p) \/ UserDelete(p)
  PROVE  FinalizerInv'
<1>1. CASE UserCreate(p)
  <2>1. PICK s \in Wanted[p] : Touch(p, NewPool(s))
    BY <1>1 DEF UserCreate
  <2>2. ~NewPool(s).finalizer /\ NewPool(s).id = NoId /\ ~NewPool(s).deleting
    BY DEF NewPool
  <2>3. ~Exists(p)
    BY <1>1 DEF UserCreate
  <2> QED
    BY <2>1, <2>2, <2>3, FinalizerTouch
<1>2. CASE UserEdit(p)
  <2>1. PICK s \in Wanted[p] : Touch(p, [cr[p] EXCEPT !.spec = s, !.current = FALSE])
    BY <1>2 DEF UserEdit
  <2> DEFINE o == [cr[p] EXCEPT !.spec = s, !.current = FALSE]
  <2>2. cr[p] \in Pool
    BY <1>2 DEF UserEdit, Exists, TypeOK
  <2>3. /\ o \in Pool /\ o.finalizer = cr[p].finalizer
        /\ o.id = cr[p].id /\ o.deleting = cr[p].deleting
    BY <2>1, <2>2, WantedAssumption DEF Pool
  <2>4. o # Absent
    BY <2>3, AbsentAssumption
  <2>5. ~o.finalizer => o.id = NoId /\ ~o.deleting
    BY <1>2, <2>3 DEF UserEdit, FinalizerInv, BareHasNothing
  <2>6. Touch(p, o)
    BY <2>1
  <2> HIDE DEF o
  <2> QED
    BY <2>3, <2>4, <2>5, <2>6, FinalizerTouch
<1>3. CASE UserDelete(p)
  <2>1. cr[p] \in Pool
    BY <1>3 DEF UserDelete, Exists, TypeOK, Deleted
  <2>2. CASE cr[p].finalizer
    <3> DEFINE o == [cr[p] EXCEPT !.deleting = TRUE, !.current = FALSE]
    <3>1. o \in Pool /\ o.finalizer
      BY <2>1, <2>2 DEF Pool
    <3>2. o # Absent /\ Touch(p, o)
      BY <1>3, <2>2, <3>1, AbsentAssumption DEF UserDelete, Deleted
    <3> HIDE DEF o
    <3> QED
      BY <3>1, <3>2, FinalizerTouch
  <2>3. CASE ~cr[p].finalizer
    <3>1. Touch(p, Absent)
      BY <1>3, <2>3 DEF UserDelete, Deleted
    <3> QED
      BY <2>3, <3>1, FinalizerTouch
  <2> QED
    BY <2>2, <2>3
<1> QED
  BY <1>1, <1>2, <1>3

LEMMA FinalizerOutside ==
  ASSUME TypeOK, FinalizerInv,
         \/ \E p \in Names : CacheSync(p)
         \/ \E s \in Scopes : ScopeChange(s)
         \/ \E i \in Ids : GarmEdit(i) \/ GarmDelete(i)
         \/ \E r \in Runners, i \in Ids : Spawn(r, i)
         \/ \E r \in Runners : Advance(r) \/ Reap(r)
         \/ Crash
  PROVE  FinalizerInv'
<1>1. ASSUME NEW p \in Names, CacheSync(p)
      PROVE  FinalizerInv'
  <2>1. UNCHANGED <<cr, pc, me, obj, fresh, garm>> /\ stale' = stale \ {p}
    BY <1>1 DEF CacheSync, worker, garmVars, Refresh
  <2>2. cache'[p] = cr[p] /\ \A q \in Names : q # p => cache'[q] = cache[q]
    BY <1>1 DEF CacheSync, TypeOK, Refresh
  <2>3. CacheIsCurrent' /\ CachedFinalizerHolds' /\ BareHasNothing'
    BY <2>1, <2>2
    DEF FinalizerInv, CacheIsCurrent, CachedFinalizerHolds, BareHasNothing, Exists
  <2>4. FreshCopy' /\ ReconcileUnderFinalizer' /\ ReleasesNothing'
    BY <2>1 DEF FinalizerInv, FreshCopy, ReconcileUnderFinalizer, ReleasesNothing, Exists, Live
  <2>5. DrainCopy'
    <3>1. pc \in DrainSteps => me \in Names
      BY WorkerHolds DEF DrainSteps
    <3> QED
      BY <2>1, <2>2, <3>1 DEF FinalizerInv, DrainCopy, FreshCopy, Exists
  <2> QED
    BY <2>3, <2>4, <2>5 DEF FinalizerInv
<1>2. ASSUME UNCHANGED <<kube, worker, garm>>
      PROVE  FinalizerInv'
  BY <1>2 DEF kube, worker, FinalizerInv, CacheIsCurrent, CachedFinalizerHolds,
    BareHasNothing, FreshCopy, ReconcileUnderFinalizer, DrainCopy, ReleasesNothing, Exists, Live
<1>3. CASE \E s \in Scopes : ScopeChange(s)
  BY <1>3 DEF ScopeChange, worker, garmVars, FinalizerInv, CacheIsCurrent,
    CachedFinalizerHolds, BareHasNothing, FreshCopy, ReconcileUnderFinalizer, DrainCopy,
    ReleasesNothing, Exists, Live
<1>4. ASSUME NEW i \in Ids, GarmEdit(i) \/ GarmDelete(i)
      PROVE  FinalizerInv'
  <2>1. UNCHANGED <<kube, worker>>
    BY <1>4 DEF GarmEdit, GarmDelete
  <2>2. \A j : Live(j)' => Live(j)
    BY <1>4 DEF GarmEdit, GarmDelete, Live, TypeOK
  <2> QED
    BY <2>1, <2>2 DEF kube, worker, FinalizerInv, CacheIsCurrent, CachedFinalizerHolds,
      BareHasNothing, FreshCopy, ReconcileUnderFinalizer, DrainCopy, ReleasesNothing, Exists
<1>5. CASE Crash
  <2>1. pc' = "idle" /\ fresh' = FALSE /\ cr' = cr /\ cache' = cr
    BY <1>5 DEF Crash, Rest, Restart
  <2>2. CacheIsCurrent' /\ CachedFinalizerHolds' /\ BareHasNothing'
    BY <2>1 DEF FinalizerInv, CacheIsCurrent, CachedFinalizerHolds, BareHasNothing, Exists
  <2> QED
    BY <2>1, <2>2 DEF FinalizerInv, FreshCopy, ReconcileUnderFinalizer, DrainCopy,
      ReleasesNothing, ReconcileSteps, DrainSteps
<1> QED
  BY <1>1, <1>2, <1>3, <1>4, <1>5 DEF Spawn, Advance, Reap

LEMMA FinalizerNext == TypeOK /\ FinalizerInv /\ [Next]_vars => FinalizerInv'
<1> SUFFICES ASSUME TypeOK, FinalizerInv, [Next]_vars PROVE FinalizerInv'
  OBVIOUS
<1>1. CASE \E p \in Names : Start(p)
  BY <1>1, FinalizerStart
<1>2. CASE Work
  BY <1>2, FinalizerWrites, FinalizerReconcileCalls, FinalizerDrainCalls, FinalizerRemove
  DEF Work
<1>3. CASE Environment
  BY <1>3, FinalizerUser, FinalizerOutside DEF Environment
<1>4. CASE UNCHANGED vars
  BY <1>4 DEF vars, FinalizerInv, CacheIsCurrent, CachedFinalizerHolds, BareHasNothing,
    FreshCopy, ReconcileUnderFinalizer, DrainCopy, ReleasesNothing, Exists, Live
<1> QED
  BY <1>1, <1>2, <1>3, <1>4 DEF Next

\* The invariant behind the two theorems below: what the worker's and the
\* informer's copies, however old, still say truly about the API server.
THEOREM FinalizerInvariant == Spec => [](TypeOK /\ FinalizerInv)
<1>1. Init => TypeOK /\ FinalizerInv
  BY InitType, FinalizerInit
<1>2. TypeOK /\ FinalizerInv /\ [Next]_vars => (TypeOK /\ FinalizerInv)'
  BY NextType, FinalizerNext
<1> QED
  BY <1>1, <1>2, PTL DEF Spec

\* Only CreatePool hands out an id.
LEMMA OnlyCreateMints ==
  ASSUME [Next]_vars, minted' # minted
  PROVE  CreatePool
<1>1. CASE \E p \in Names : Start(p)
  BY <1>1 DEF Start, garmVars, Take
<1>2. CASE Work
  <2>1. CASE AddFinalizer \/ MarkReady \/ MarkPoolFalse \/ ClearId \/ DrainMark \/ DrainWait
    BY <2>1 DEF AddFinalizer, MarkReady, MarkPoolFalse, ClearId, DrainMark, DrainWait,
      Commit, garmVars, Write
  <2>2. CASE ListPools \/ GetPool \/ UpdatePool \/ SyncInstances
    BY <2>2 DEF ListPools, GetPool, UpdatePool, SyncInstances, garmVars
  <2>3. CASE DrainGet \/ DrainDisable \/ DrainList \/ DrainDelete \/ RemoveFinalizer
    BY <2>3 DEF DrainGet, DrainDisable, DrainList, DrainDelete, RemoveFinalizer, garmVars, Release
  <2>4. CASE \E r \in Runners : DrainRunner(r)
    BY <2>4 DEF DrainRunner
  <2> QED
    BY <1>2, <2>1, <2>2, <2>3, <2>4 DEF Work
<1>3. CASE Environment
  BY <1>3 DEF Environment, CacheSync, UserCreate, UserEdit, UserDelete, Touch, ScopeChange,
    GarmEdit, GarmDelete, Spawn, Advance, Reap, Crash, garmVars, Refresh, Change, Restart, Deleted
<1>4. CASE UNCHANGED vars
  BY <1>4 DEF vars
<1> QED
  BY <1>1, <1>2, <1>3, <1>4 DEF Next

\* A GARM pool is created only for a Pool that exists, at that moment, with its
\* finalizer on the API server.
THEOREM FinalizerBeforeCreation == Spec => CreateOnlyUnderFinalizer
<1>1. TypeOK /\ FinalizerInv /\ [Next]_vars
        => [minted' # minted => Exists(me) /\ cr[me].finalizer]_vars
  <2> SUFFICES ASSUME FinalizerInv, [Next]_vars, minted' # minted
               PROVE  Exists(me) /\ cr[me].finalizer
    OBVIOUS
  <2>1. pc = "create"
    BY OnlyCreateMints DEF CreatePool
  <2> QED
    BY <2>1 DEF FinalizerInv, ReconcileUnderFinalizer, ReconcileSteps
<1> QED
  BY <1>1, FinalizerInvariant, PTL DEF Spec, CreateOnlyUnderFinalizer

\* A Pool disappears in two ways: the worker removes the finalizer, or a user
\* deletes a Pool that has none.
LEMMA OnlyTwoRemovals ==
  ASSUME TypeOK, [Next]_vars, NEW p \in Names, Exists(p), cr'[p] = Absent
  PROVE  \/ RemoveFinalizer /\ fresh /\ p = me
         \/ ~cr[p].finalizer
<1>1. CASE \E q \in Names : Start(q)
  BY <1>1 DEF Start, Exists, Take
<1>2. ASSUME NEW o \in Pool, Commit(o), pc # "idle" PROVE FALSE
  <2>1. me \in Names
    BY <1>2, WorkerHolds
  <2>2. cr' = cr \/ cr' = [cr EXCEPT ![me] = o]
    BY <1>2 DEF Commit, Write
  <2> QED
    BY <1>2, <2>1, <2>2, AbsentAssumption DEF Exists, TypeOK
<1>3. CASE AddFinalizer \/ MarkReady \/ MarkPoolFalse \/ ClearId \/ DrainMark \/ DrainWait
  <2>1. pc # "idle"
    BY <1>3 DEF AddFinalizer, MarkReady, MarkPoolFalse, ClearId, DrainMark, DrainWait
  <2>2. obj \in Pool
    BY <2>1, WorkerHolds
  <2>3. Defaulted(obj.spec) \in PoolSpec
    BY <2>2 DEF Defaulted, Pool, PoolSpec
  <2>4. /\ [obj EXCEPT !.finalizer = TRUE,
                       !.spec = Defaulted(obj.spec),
                       !.current = obj.current /\ Defaulted(obj.spec) = obj.spec] \in Pool
        /\ [obj EXCEPT !.ready = TRUE, !.current = TRUE] \in Pool
        /\ [obj EXCEPT !.ready = FALSE] \in Pool
        /\ [obj EXCEPT !.draining = "Disabled"] \in Pool
        /\ [obj EXCEPT !.draining = "WaitingForRunners"] \in Pool
    BY <2>2, <2>3 DEF Pool
  <2> QED
    BY <1>2, <1>3, <2>1, <2>2, <2>4
    DEF AddFinalizer, MarkReady, MarkPoolFalse, ClearId, DrainMark, DrainWait
<1>4. CASE ListPools \/ CreatePool \/ GetPool \/ UpdatePool \/ SyncInstances
  BY <1>4 DEF ListPools, CreatePool, GetPool, UpdatePool, SyncInstances, kube, Exists
<1>5. CASE DrainGet \/ DrainDisable \/ DrainList \/ DrainDelete
  BY <1>5 DEF DrainGet, DrainDisable, DrainList, DrainDelete, DrainGoto, DrainFailed,
    kube, Exists
<1>6. CASE \E r \in Runners : DrainRunner(r)
  BY <1>6 DEF DrainRunner, kube, Exists
<1>7. CASE RemoveFinalizer
  BY <1>7 DEF RemoveFinalizer, Exists, TypeOK, Release
<1>8. ASSUME NEW q \in Names, UserCreate(q) \/ UserEdit(q) \/ UserDelete(q)
      PROVE  ~cr[p].finalizer
  <2>1. CASE UserCreate(q)
    BY <1>8, <2>1 DEF UserCreate, Touch, Exists, TypeOK, Change
  <2>2. CASE UserEdit(q)
    <3>1. cr[q] \in Pool
      BY <2>2 DEF UserEdit, Exists, TypeOK
    <3>2. PICK s \in Wanted[q] : cr' = [cr EXCEPT ![q] = [cr[q] EXCEPT !.spec = s, !.current = FALSE]]
      BY <2>2 DEF UserEdit, Touch, Change
    <3>3. [cr[q] EXCEPT !.spec = s, !.current = FALSE] \in Pool
      BY <3>1, <3>2, WantedAssumption DEF Pool
    <3> QED
      BY <3>2, <3>3, AbsentAssumption DEF Exists, TypeOK
  <2>3. CASE UserDelete(q)
    <3>1. cr[q] \in Pool
      BY <2>3 DEF UserDelete, Exists, TypeOK, Deleted
    <3>2. [cr[q] EXCEPT !.deleting = TRUE, !.current = FALSE] \in Pool
      BY <3>1 DEF Pool
    <3> QED
      BY <2>3, <3>2, AbsentAssumption DEF UserDelete, Touch, Exists, TypeOK, Change, Deleted
  <2> QED
    BY <1>8, <2>1, <2>2, <2>3
<1>9. CASE Environment
  BY <1>8, <1>9 DEF Environment, CacheSync, ScopeChange, GarmEdit, GarmDelete,
    Spawn, Advance, Reap, Crash, kube, Exists, Refresh, Restart
<1>10. CASE UNCHANGED vars
  BY <1>10 DEF vars, Exists
<1> QED
  BY <1>1, <1>3, <1>4, <1>5, <1>6, <1>7, <1>9, <1>10 DEF Next, Work

\* A Pool resource goes away only after the GARM pool its status records is gone.
THEOREM DrainBeforeRelease == Spec => RecordedPoolGoesFirst
<1>1. TypeOK /\ FinalizerInv /\ [Next]_vars
        => [\A p \in Names : Exists(p) /\ cr'[p] = Absent /\ cr[p].id # NoId
              => garm[cr[p].id] = Absent]_vars
  <2> SUFFICES ASSUME TypeOK, FinalizerInv, [Next]_vars,
                      NEW p \in Names, Exists(p), cr'[p] = Absent, cr[p].id # NoId
               PROVE  garm[cr[p].id] = Absent
    OBVIOUS
  <2>1. RemoveFinalizer /\ fresh /\ p = me
    BY OnlyTwoRemovals DEF FinalizerInv, BareHasNothing
  <2>2. cr[p].id = obj.id
    BY <2>1 DEF RemoveFinalizer, FinalizerInv, DrainCopy, DrainSteps, Release
  <2>3. ~Live(cr[p].id)
    BY <2>1, <2>2 DEF RemoveFinalizer, FinalizerInv, ReleasesNothing, Release
  <2>4. cr[p].id \in Ids
    <3>1. cr[p] \in Pool
      BY DEF Exists, TypeOK
    <3> QED
      BY <3>1 DEF Pool, Ids, NoId
  <2> QED
    BY <2>3, <2>4 DEF Live
<1> QED
  BY <1>1, FinalizerInvariant, PTL DEF Spec, RecordedPoolGoesFirst

-----------------------------------------------------------------------------
(* The work queue.                                                          *)

LEMMA QueueNext ==
  TypeOK /\ FinalizerInv /\ NeverForgotten /\ [Next]_vars => NeverForgotten'
<1> SUFFICES ASSUME TypeOK, FinalizerInv, NeverForgotten, [Next]_vars PROVE NeverForgotten'
  OBVIOUS
<1>1. ASSUME NEW p \in Names, Start(p) PROVE NeverForgotten'
  <2>1. queue' = queue \ {p} /\ cr' = cr /\ stale' = stale /\ me \notin Names
    BY <1>1, NobodyAssumption DEF Start, TypeOK, ReconcileSteps, DrainSteps, Take
  <2>2. CASE Finished(cache[p])
    <3>1. Exists(p) => p \in stale
      BY <2>2 DEF Finished, FinalizerInv, CacheIsCurrent, BareHasNothing, Exists
    <3> QED
      BY <2>1, <3>1 DEF NeverForgotten, Exists
  <2>3. CASE ~Finished(cache[p])
    BY <1>1, <2>1, <2>3 DEF Start, NeverForgotten, Exists, Take
  <2> QED
    BY <2>2, <2>3
<1>2. ASSUME NEW o, Commit(o), pc # "idle" PROVE NeverForgotten'
  <2>1. me \in Names
    BY <1>2, WorkerHolds
  <2>2. queue' = queue \cup {me} /\ stale \subseteq stale'
    BY <1>2 DEF Commit, Requeue, Write
  <2>3. \A p \in Names : p # me => cr'[p] = cr[p]
    BY <1>2, <2>1 DEF Commit, TypeOK, Write
  <2> QED
    BY <2>1, <2>2, <2>3 DEF NeverForgotten, Exists
<1>3. CASE AddFinalizer \/ MarkReady \/ MarkPoolFalse \/ ClearId \/ DrainMark \/ DrainWait
  BY <1>2, <1>3 DEF AddFinalizer, MarkReady, MarkPoolFalse, ClearId, DrainMark, DrainWait
<1>4. CASE ListPools \/ CreatePool \/ GetPool \/ UpdatePool \/ SyncInstances
  BY <1>4 DEF ListPools, CreatePool, GetPool, UpdatePool, SyncInstances, Goto, kube,
    NeverForgotten, Exists
<1>5. CASE DrainGet \/ DrainDisable \/ DrainList \/ DrainDelete
  <2>1. cr' = cr /\ stale' = stale
    BY <1>5 DEF DrainGet, DrainDisable, DrainList, DrainDelete, DrainGoto, DrainFailed, kube
  <2>2. (me' = me /\ queue' = queue) \/ queue' = queue \cup {me}
    BY <1>5 DEF DrainGet, DrainDisable, DrainList, DrainDelete, DrainGoto, DrainFailed,
      Goto, Requeue, kube, Return
  <2> QED
    BY <2>1, <2>2 DEF NeverForgotten, Exists
<1>6. CASE \E r \in Runners : DrainRunner(r)
  BY <1>6 DEF DrainRunner, kube, NeverForgotten, Exists
<1>7. CASE RemoveFinalizer
  <2>1. CASE fresh /\ cr' = [cr EXCEPT ![me] = Absent] /\ stale' = stale \cup {me}
             /\ queue' = queue
    BY <2>1 DEF NeverForgotten, Exists, TypeOK
  <2>2. CASE cr' = cr /\ stale' = stale /\ queue' = queue \cup {me}
    BY <2>2 DEF NeverForgotten, Exists
  <2> QED
    BY <1>7, <2>1, <2>2 DEF RemoveFinalizer, Requeue, Release
<1>8. ASSUME NEW p \in Names, NEW o, Touch(p, o) PROVE NeverForgotten'
  <2>1. stale' = stale \cup {p} /\ queue' = queue /\ me' = me
    BY <1>8 DEF Touch, Change
  <2>2. \A q \in Names : q # p => cr'[q] = cr[q]
    BY <1>8 DEF Touch, TypeOK, Change
  <2> QED
    BY <2>1, <2>2 DEF NeverForgotten, Exists
<1>9. CASE Environment
  <2>1. CASE \E p \in Names : UserCreate(p) \/ UserEdit(p) \/ UserDelete(p)
    BY <1>8, <2>1 DEF UserCreate, UserEdit, UserDelete, Deleted
  <2>2. CASE \/ \E p \in Names : CacheSync(p)
             \/ \E s \in Scopes : ScopeChange(s)
    BY <2>2 DEF CacheSync, ScopeChange, worker, NeverForgotten, Exists, Refresh
  <2>3. CASE \/ \E i \in Ids : GarmEdit(i) \/ GarmDelete(i)
             \/ \E r \in Runners, i \in Ids : Spawn(r, i)
             \/ \E r \in Runners : Advance(r) \/ Reap(r)
    BY <2>3 DEF GarmEdit, GarmDelete, Spawn, Advance, Reap, worker, kube,
      NeverForgotten, Exists
  <2>4. CASE Crash
    BY <2>4 DEF Crash, Rest, NeverForgotten, Exists, Restart
  <2> QED
    BY <1>9, <2>1, <2>2, <2>3, <2>4 DEF Environment
<1>10. CASE UNCHANGED vars
  BY <1>10 DEF vars, NeverForgotten, Exists
<1> QED
  BY <1>1, <1>3, <1>4, <1>5, <1>6, <1>7, <1>9, <1>10 DEF Next, Work

\* No Pool that exists is ever forgotten, whatever conflicts, faults and crashes
\* ended its reconciliations.
THEOREM QueueComplete == Spec => []NeverForgotten
<1>1. Init => NeverForgotten
  BY DEF Init, NeverForgotten, Exists
<1> QED
  BY <1>1, QueueNext, FinalizerInvariant, PTL DEF Spec

-----------------------------------------------------------------------------
(* Only a deleted Pool is drained.                                           *)

LEMMA DeletionFrame ==
  ASSUME DeletionInv, UNCHANGED <<cr, cache>>,
         pc' \in DrainSteps => pc \in DrainSteps /\ me' = me,
         fresh' => fresh /\ me' = me /\ stale' = stale
  PROVE  DeletionInv'
BY DEF DeletionInv, Succeeded, Exists

\* A write keeps the deletion request that its copy shows; without one, the informer
\* shows none either.
LEMMA DeletionCommit ==
  ASSUME TypeOK, FinalizerInv, DeletionInv, pc # "idle", NEW o \in Pool, Commit(o),
         o.deleting = obj.deleting
  PROVE  DeletionInv'
<1>1. me \in Names /\ obj \in Pool
  BY WorkerHolds
<1>2. pc' = "idle" /\ fresh' = FALSE /\ cache' = cache
  BY DEF Commit, Requeue, Rest, Write
<1>3. CASE cr' = cr
  BY <1>2, <1>3, DeletionFrame DEF DrainSteps
<1>4. CASE fresh /\ cr' = [cr EXCEPT ![me] = o]
  <2>1. cache[me] = cr[me] /\ cr[me].deleting = obj.deleting
    BY <1>1, <1>4 DEF DeletionInv, FinalizerInv, CacheIsCurrent, FreshCopy
  <2>2. cr'[me] = o /\ \A p \in Names : p # me => cr'[p] = cr[p]
    BY <1>1, <1>4 DEF TypeOK
  <2>3. ASSUME NEW p \in Names, cache[p] # Absent, cache[p].deleting, cr'[p] # Absent
        PROVE  cr'[p].deleting \/ cr'[p].id = NoId
    BY <2>1, <2>2, <2>3 DEF DeletionInv, Succeeded, Exists
  <2> QED
    BY <1>2, <2>3 DEF DeletionInv, Succeeded, Exists, DrainSteps
<1> QED
  BY <1>3, <1>4 DEF Commit, Write

LEMMA DeletionWrites ==
  ASSUME TypeOK, FinalizerInv, DeletionInv,
         AddFinalizer \/ MarkReady \/ MarkPoolFalse \/ ClearId \/ DrainMark \/ DrainWait
  PROVE  DeletionInv'
<1>1. pc # "idle"
  BY DEF AddFinalizer, MarkReady, MarkPoolFalse, ClearId, DrainMark, DrainWait
<1>2. obj \in Pool
  BY <1>1, WorkerHolds
<1>3. Defaulted(obj.spec) \in PoolSpec
  BY <1>2 DEF Defaulted, Pool, PoolSpec
<1>4. CASE AddFinalizer
  <2> DEFINE o == [obj EXCEPT !.finalizer = TRUE,
                              !.spec = Defaulted(obj.spec),
                              !.current = obj.current /\ Defaulted(obj.spec) = obj.spec]
  <2>1. o \in Pool /\ o.deleting = obj.deleting
    BY <1>2, <1>3 DEF Pool
  <2>2. Commit(o)
    BY <1>4 DEF AddFinalizer
  <2> HIDE DEF o
  <2> QED
    BY <1>1, <2>1, <2>2, DeletionCommit
<1>5. CASE MarkReady
  <2> DEFINE o == [obj EXCEPT !.ready = TRUE, !.current = TRUE]
  <2>1. o \in Pool /\ o.deleting = obj.deleting
    BY <1>2 DEF Pool
  <2>2. Commit(o)
    BY <1>5 DEF MarkReady
  <2> HIDE DEF o
  <2> QED
    BY <1>1, <2>1, <2>2, DeletionCommit
<1>6. CASE MarkPoolFalse
  <2> DEFINE o == [obj EXCEPT !.ready = FALSE]
  <2>1. o \in Pool /\ o.deleting = obj.deleting
    BY <1>2 DEF Pool
  <2>2. Commit(o)
    BY <1>6 DEF MarkPoolFalse
  <2> HIDE DEF o
  <2> QED
    BY <1>1, <2>1, <2>2, DeletionCommit
<1>7. CASE ClearId
  BY <1>1, <1>2, <1>7, DeletionCommit DEF ClearId
<1>8. CASE DrainMark
  <2> DEFINE o == [obj EXCEPT !.draining = "Disabled"]
  <2>1. o \in Pool /\ o.deleting = obj.deleting
    BY <1>2 DEF Pool
  <2>2. Commit(o)
    BY <1>8 DEF DrainMark
  <2> HIDE DEF o
  <2> QED
    BY <1>1, <2>1, <2>2, DeletionCommit
<1>9. CASE DrainWait
  <2> DEFINE o == [obj EXCEPT !.draining = "WaitingForRunners"]
  <2>1. o \in Pool /\ o.deleting = obj.deleting
    BY <1>2 DEF Pool
  <2>2. Commit(o)
    BY <1>9 DEF DrainWait
  <2> HIDE DEF o
  <2> QED
    BY <1>1, <2>1, <2>2, DeletionCommit
<1> QED
  BY <1>4, <1>5, <1>6, <1>7, <1>8, <1>9

\* Whoever changes a Pool keeps its deletion request; a new Pool records nothing.
LEMMA DeletionTouch ==
  ASSUME TypeOK, DeletionInv, NEW p \in Names, NEW o, Touch(p, o),
         o # Absent => o.id = NoId \/ (Exists(p) /\ o.id = cr[p].id /\ (cr[p].deleting => o.deleting))
  PROVE  DeletionInv'
<1>1. UNCHANGED <<cache, pc, me>> /\ stale' = stale \cup {p} /\ (fresh' => fresh /\ me # p)
  BY DEF Touch, Change
<1>2. cr'[p] = o /\ \A q \in Names : q # p => cr'[q] = cr[q]
  BY DEF Touch, Change, TypeOK
<1>3. \A q \in Names : Succeeded(q) /\ cr'[q] # Absent => cr'[q].deleting \/ cr'[q].id = NoId
  BY <1>2 DEF Succeeded, Exists
<1>4. pc \in DrainSteps => me \in Names
  BY WorkerHolds DEF DrainSteps
<1> QED
  BY <1>1, <1>3, <1>4 DEF DeletionInv, Succeeded, Exists

LEMMA DeletionUser ==
  ASSUME TypeOK, DeletionInv, NEW p \in Names,
         UserCreate(p) \/ UserEdit(p) \/ UserDelete(p)
  PROVE  DeletionInv'
<1>1. CASE UserCreate(p)
  <2>1. PICK s \in Wanted[p] : Touch(p, NewPool(s))
    BY <1>1 DEF UserCreate
  <2>2. NewPool(s).id = NoId
    BY DEF NewPool
  <2> QED
    BY <2>1, <2>2, DeletionTouch
<1>2. CASE UserEdit(p)
  <2>1. PICK s \in Wanted[p] : Touch(p, [cr[p] EXCEPT !.spec = s, !.current = FALSE])
    BY <1>2 DEF UserEdit
  <2> DEFINE o == [cr[p] EXCEPT !.spec = s, !.current = FALSE]
  <2>2. Exists(p) /\ cr[p] \in Pool
    BY <1>2 DEF UserEdit, Exists, TypeOK
  <2>3. o.id = cr[p].id /\ o.deleting = cr[p].deleting
    BY <2>2 DEF Pool
  <2>4. Touch(p, o)
    BY <2>1
  <2> HIDE DEF o
  <2> QED
    BY <2>2, <2>3, <2>4, DeletionTouch
<1>3. CASE UserDelete(p)
  <2> DEFINE o == Deleted(cr[p])
  <2>1. Exists(p) /\ cr[p] \in Pool
    BY <1>3 DEF UserDelete, Exists, TypeOK
  <2>2. o # Absent => o.id = cr[p].id /\ o.deleting
    BY <2>1 DEF Deleted, Pool
  <2>3. Touch(p, o)
    BY <1>3 DEF UserDelete
  <2> HIDE DEF o
  <2> QED
    BY <2>1, <2>2, <2>3, DeletionTouch
<1> QED
  BY <1>1, <1>2, <1>3

\* Steps that write nothing to Kubernetes.
LEMMA DeletionCalls ==
  ASSUME DeletionInv,
         \/ ListPools \/ CreatePool \/ GetPool \/ UpdatePool \/ SyncInstances
         \/ DrainGet \/ DrainDisable \/ DrainList \/ DrainDelete
         \/ \E r \in Runners : DrainRunner(r)
  PROVE  DeletionInv'
<1>1. CASE ListPools \/ CreatePool \/ GetPool \/ UpdatePool \/ SyncInstances
  BY <1>1, DeletionFrame DEF ListPools, CreatePool, GetPool, UpdatePool, SyncInstances, Goto,
    kube, DrainSteps
<1>2. CASE DrainGet \/ DrainDisable \/ DrainList \/ DrainDelete
  <2>1. UNCHANGED <<cr, cache, stale>> /\ pc \in DrainSteps
    BY <1>2 DEF DrainGet, DrainDisable, DrainList, DrainDelete, DrainGoto, DrainFailed, kube,
      DrainSteps
  <2>2. UNCHANGED <<me, fresh>> \/ (pc' = "idle" /\ fresh' = FALSE)
    BY <1>2 DEF DrainGet, DrainDisable, DrainList, DrainDelete, DrainGoto, DrainFailed,
      Goto, Return, Requeue, Rest
  <2> QED
    BY <2>1, <2>2, DeletionFrame DEF DrainSteps
<1>3. CASE \E r \in Runners : DrainRunner(r)
  BY <1>3, DeletionFrame DEF DrainRunner, kube
<1> QED
  BY <1>1, <1>2, <1>3

LEMMA DeletionOutside ==
  ASSUME DeletionInv,
         \/ \E s \in Scopes : ScopeChange(s)
         \/ \E i \in Ids : GarmEdit(i) \/ GarmDelete(i)
         \/ \E r \in Runners, i \in Ids : Spawn(r, i)
         \/ \E r \in Runners : Advance(r) \/ Reap(r)
  PROVE  DeletionInv'
<1>1. UNCHANGED <<cr, cache, stale, pc, me, fresh>>
  BY DEF ScopeChange, GarmEdit, GarmDelete, Spawn, Advance, Reap, kube, worker
<1> QED
  BY <1>1, DeletionFrame

LEMMA DeletionNext == TypeOK /\ FinalizerInv /\ DeletionInv /\ [Next]_vars => DeletionInv'
<1> SUFFICES ASSUME TypeOK, FinalizerInv, DeletionInv, [Next]_vars PROVE DeletionInv'
  OBVIOUS
<1>1. ASSUME NEW p \in Names, Start(p) PROVE DeletionInv'
  <2>1. UNCHANGED <<cr, cache, stale>>
    BY <1>1 DEF Start, Take
  <2>2. CASE Finished(cache[p])
    BY <1>1, <2>1, <2>2, DeletionFrame DEF Start, Take, DrainSteps
  <2>3. CASE ~Finished(cache[p])
    <3>1. pc' = FirstStep(cache[p]) /\ me' = p /\ fresh' = (p \notin stale) /\ cache[p] # Absent
      BY <1>1, <2>3 DEF Start, Take, Finished
    <3>2. pc' \in DrainSteps => cache[p].deleting
      BY <3>1 DEF FirstStep, DrainSteps
    <3> QED
      BY <2>1, <3>1, <3>2 DEF DeletionInv, Succeeded, Exists
  <2> QED
    BY <2>2, <2>3
<1>2. CASE RemoveFinalizer
  <2>1. me \in Names
    BY <1>2, WorkerHolds DEF RemoveFinalizer
  <2>2. pc' = "idle" /\ fresh' = FALSE /\ UNCHANGED cache
    BY <1>2 DEF RemoveFinalizer, Release, Requeue, Rest
  <2>3. \A p \in Names : cr'[p] = cr[p] \/ cr'[p] = Absent
    BY <1>2, <2>1 DEF RemoveFinalizer, Release, TypeOK
  <2> QED
    BY <2>2, <2>3 DEF DeletionInv, Succeeded, Exists, DrainSteps
<1>3. ASSUME NEW p \in Names, CacheSync(p) PROVE DeletionInv'
  <2>1. UNCHANGED <<cr, pc, me, fresh>> /\ stale' = stale \ {p}
    BY <1>3 DEF CacheSync, Refresh
  <2>2. \A q \in Names : cache'[q] = cache[q] \/ cache'[q] = cr[q]
    BY <1>3 DEF CacheSync, Refresh, TypeOK
  <2> QED
    BY <2>1, <2>2 DEF DeletionInv, Succeeded, Exists
<1>4. CASE Crash
  BY <1>4 DEF Crash, Restart, Rest, DeletionInv, Succeeded, Exists, DrainSteps
<1>5. CASE UNCHANGED vars
  BY <1>5, DeletionFrame DEF vars
<1>6. CASE Work
  BY <1>2, <1>6, DeletionWrites, DeletionCalls DEF Work
<1>7. CASE \E p \in Names : CacheSync(p) \/ UserCreate(p) \/ UserEdit(p) \/ UserDelete(p)
  BY <1>3, <1>7, DeletionUser
<1>8. CASE Environment
  BY <1>4, <1>7, <1>8, DeletionOutside DEF Environment
<1> QED
  BY <1>1, <1>5, <1>6, <1>8 DEF Next

\* A copy that shows a deletion request never stands for a Pool that records a GARM
\* pool and is not being deleted, though names are used again.
THEOREM DeletionInvariant == Spec => []DeletionInv
<1>1. Init => DeletionInv
  BY DEF Init, DeletionInv, Succeeded, Exists, DrainSteps
<1> QED
  BY <1>1, DeletionNext, FinalizerInvariant, PTL DEF Spec

-----------------------------------------------------------------------------
(* No runner loses its pool.                                                 *)

\* Steps that neither add a runner nor let go of a pool that has some.
LEMMA DrainFrame ==
  ASSUME TypeOK, DrainInv,
         \A r \in Runners : inst'[r] # Absent =>
           inst[r] # Absent /\ inst'[r].pool = inst[r].pool,
         \A i \in Ids : garm[i] # Absent /\ garm'[i] = Absent => Members(i) = {},
         pc' \in {"drainList", "drainRunners", "drainDelete"} =>
           /\ obj' = obj
           /\ obj.id \in Ids /\ garm'[obj.id] # Absent => ~garm'[obj.id].enabled,
         pc' = "drainDelete" => Members(obj.id) = {}
  PROVE  DrainInv'
<1>1. ASSUME NEW r \in Runners, inst'[r] # Absent
      PROVE  inst'[r].pool \in Ids /\ garm'[inst'[r].pool] # Absent
  <2>1. /\ inst[r] # Absent /\ inst'[r].pool = inst[r].pool
        /\ inst[r].pool \in Ids /\ garm[inst[r].pool] # Absent
    BY <1>1 DEF DrainInv, NoStrandedRunner, Live
  <2>2. r \in Members(inst[r].pool)
    BY <2>1 DEF Members
  <2> QED
    BY <2>1, <2>2
<1>2. pc' = "drainDelete" => \A r \in Runners : ~(inst'[r] # Absent /\ inst'[r].pool = obj'.id)
  BY DEF Members
<1> QED
  BY <1>1, <1>2 DEF DrainInv, NoStrandedRunner, Live, Members

\* Steps of the reconciler before and after a drain, and of Kubernetes.
LEMMA DrainApart ==
  ASSUME TypeOK, DrainInv, UNCHANGED <<garm, inst>>,
         pc' \in {"drainList", "drainRunners", "drainDelete"} => UNCHANGED <<pc, obj>>
  PROVE  DrainInv'
<1>1. pc' \in {"drainList", "drainRunners", "drainDelete"} =>
        /\ obj' = obj
        /\ obj.id \in Ids /\ garm'[obj.id] # Absent => ~garm'[obj.id].enabled
  BY DEF DrainInv, Live
<1>2. pc' = "drainDelete" => Members(obj.id) = {}
  BY DEF DrainInv
<1> QED
  BY <1>1, <1>2, DrainFrame

LEMMA DrainReconciles ==
  ASSUME TypeOK, DrainInv,
         \/ \E p \in Names : Start(p)
         \/ AddFinalizer \/ MarkReady \/ MarkPoolFalse \/ ClearId \/ DrainMark \/ DrainWait
         \/ ListPools \/ GetPool \/ SyncInstances \/ RemoveFinalizer
  PROVE  DrainInv'
<1>1. UNCHANGED <<garm, inst>>
  BY DEF Start, AddFinalizer, MarkReady, MarkPoolFalse, ClearId, DrainMark, DrainWait, Commit,
    ListPools, GetPool, SyncInstances, RemoveFinalizer, garmVars
<1>2. CASE \E p \in Names : Start(p)
  BY <1>1, <1>2, DrainApart DEF Start, Take, FirstStep
<1>3. CASE AddFinalizer \/ MarkReady \/ MarkPoolFalse \/ ClearId \/ DrainMark \/ DrainWait
  <2>1. pc' = "idle"
    BY <1>3 DEF AddFinalizer, MarkReady, MarkPoolFalse, ClearId, DrainMark, DrainWait, Commit,
      Write, Requeue, Rest
  <2> QED
    BY <1>1, <2>1, DrainApart
<1>4. CASE ListPools \/ GetPool \/ SyncInstances \/ RemoveFinalizer
  BY <1>1, <1>4, DrainApart DEF ListPools, GetPool, SyncInstances, RemoveFinalizer, Release,
    Requeue, Rest, Goto
<1> QED
  BY <1>2, <1>3, <1>4

\* Creating and changing a pool.
LEMMA DrainChanges ==
  ASSUME TypeOK, DrainInv, CreatePool \/ UpdatePool \/ DrainDisable
  PROVE  DrainInv'
<1>1. pc # "idle" /\ obj \in Pool /\ UNCHANGED inst
  BY WorkerHolds DEF CreatePool, UpdatePool, DrainDisable, Mint, garmVars
<1>2. pc' \notin {"drainList", "drainRunners", "drainDelete"}
  BY DEF CreatePool, UpdatePool, DrainDisable, DrainGoto, DrainFailed, Goto, Return, Requeue, Rest
<1>3. CASE UNCHANGED garm
  BY <1>1, <1>2, <1>3, DrainApart
<1>4. ASSUME NEW i, NEW g \in GarmPool, garm' = [garm EXCEPT ![i] = g] PROVE DrainInv'
  <2>1. \A j \in Ids : garm[j] # Absent => garm'[j] # Absent
    BY <1>4, AbsentAssumption DEF TypeOK
  <2> QED
    BY <1>1, <1>2, <2>1, DrainFrame
<1>5. CASE Mint(obj.spec)
  <2>1. Desired(obj.spec) \in GarmPool
    BY <1>1 DEF Pool, PoolSpec, Desired, GarmPool
  <2> QED
    BY <1>4, <1>5, <2>1 DEF Mint
<1>6. CASE ApplyPatch
  <2>1. garm[obj.id] \in GarmPool
    BY <1>6 DEF ApplyPatch, Live, TypeOK
  <2>2. obj.spec \in PoolSpec
    BY <1>1 DEF Pool
  <2>3. Patched(garm[obj.id], obj.spec, patch) \in GarmPool
    BY <2>1, <2>2 DEF Patched, GarmPool, PoolSpec
  <2> QED
    BY <1>4, <1>6, <2>3 DEF ApplyPatch
<1>7. CASE Disable
  <2>1. garm[obj.id] \in GarmPool /\ obj.id \in Ids
    BY <1>7 DEF Disable, Live, TypeOK
  <2> DEFINE g == [garm[obj.id] EXCEPT !.enabled = FALSE]
  <2>2. g \in GarmPool
    BY <2>1 DEF GarmPool
  <2>3. garm' = [garm EXCEPT ![obj.id] = g]
    BY <1>7, <2>1 DEF Disable, TypeOK
  <2> HIDE DEF g
  <2> QED
    BY <1>4, <2>2, <2>3
<1> QED
  BY <1>3, <1>5, <1>6, <1>7 DEF CreatePool, UpdatePool, DrainDisable, garmVars

\* The calls of drain.
LEMMA DrainCalls ==
  ASSUME TypeOK, DrainInv, DrainGet \/ DrainList \/ DrainDelete \/ (\E r \in Runners : DrainRunner(r))
  PROVE  DrainInv'
<1>1. CASE DrainGet
  <2>1. UNCHANGED <<garm, inst>> /\ pc' \notin {"drainRunners", "drainDelete"}
    BY <1>1 DEF DrainGet, garmVars, DrainGoto, DrainFailed, Goto, Return, Requeue, Rest
  <2>2. pc' = "drainList" => obj' = obj /\ ~garm[obj.id].enabled
    BY <1>1 DEF DrainGet, DrainGoto, DrainFailed, Goto, Return, Requeue, Rest
  <2> QED
    BY <2>1, <2>2, DrainFrame
<1>2. CASE DrainList
  <2>1. UNCHANGED <<garm, inst>> /\ pc = "drainList"
    BY <1>2 DEF DrainList, garmVars
  <2>2. pc' # "idle" => obj' = obj
    BY <1>2 DEF DrainList, DrainGoto, DrainFailed, Return, Requeue, Rest
  <2>3. pc' = "drainDelete" => Members(obj.id) = {}
    BY <1>2 DEF DrainList, DrainGoto, DrainFailed, Goto, Return, Requeue, Rest
  <2>4. obj.id \in Ids /\ garm[obj.id] # Absent => ~garm[obj.id].enabled
    BY <2>1 DEF DrainInv, Live
  <2> QED
    BY <2>1, <2>2, <2>3, <2>4, DrainFrame
<1>3. CASE DrainDelete
  <2>1. UNCHANGED inst /\ pc' \notin {"drainList", "drainRunners", "drainDelete"}
    BY <1>3 DEF DrainDelete, DrainGoto, DrainFailed, Goto, Return, Requeue, Rest
  <2>2. Members(obj.id) = {}
    BY <1>3 DEF DrainDelete, DrainInv
  <2>3. \A i \in Ids : i # obj.id => garm'[i] = garm[i]
    BY <1>3 DEF DrainDelete, TypeOK
  <2> QED
    BY <2>1, <2>2, <2>3, DrainFrame
<1>4. ASSUME NEW r \in Runners, DrainRunner(r) PROVE DrainInv'
  <2>1. UNCHANGED <<garm, pc, obj>> /\ pc = "drainRunners"
    BY <1>4 DEF DrainRunner
  <2>2. \A q \in Runners : inst'[q] = inst[q] \/ inst'[q] = Absent
    BY <1>4 DEF DrainRunner, TypeOK
  <2>3. obj.id \in Ids /\ garm[obj.id] # Absent => ~garm[obj.id].enabled
    BY <2>1 DEF DrainInv, Live
  <2> QED
    BY <2>1, <2>2, <2>3, DrainFrame
<1> QED
  BY <1>1, <1>2, <1>3, <1>4

\* GARM, its administrator and its runners.
LEMMA DrainGarm ==
  ASSUME TypeOK, DrainInv, ~Reenabled,
         \/ \E i \in Ids : GarmEdit(i) \/ GarmDelete(i)
         \/ \E r \in Runners, i \in Ids : Spawn(r, i)
         \/ \E r \in Runners : Advance(r) \/ Reap(r)
  PROVE  DrainInv'
<1>1. UNCHANGED <<pc, obj>>
  BY DEF GarmEdit, GarmDelete, Spawn, Advance, Reap, worker
<1>2. pc = "drainDelete" => Members(obj.id) = {}
  BY DEF DrainInv
<1>3. pc \in {"drainList", "drainRunners", "drainDelete"} =>
        (obj.id \in Ids /\ garm[obj.id] # Absent => ~garm[obj.id].enabled)
  BY DEF DrainInv, Live
<1>4. ASSUME NEW i \in Ids, GarmEdit(i) PROVE DrainInv'
  <2>1. garm[i] \in GarmPool /\ UNCHANGED inst
    BY <1>4 DEF GarmEdit, Live, TypeOK
  <2>2. PICK v \in Settings, e \in BOOLEAN :
          garm' = [garm EXCEPT ![i] = [@ EXCEPT !.settings = v, !.enabled = e]]
    BY <1>4 DEF GarmEdit
  <2>3. [garm[i] EXCEPT !.settings = v, !.enabled = e] \in GarmPool
    BY <2>1 DEF GarmPool
  <2>4. \A j \in Ids : garm[j] # Absent <=> garm'[j] # Absent
    BY <2>1, <2>2, <2>3, AbsentAssumption DEF TypeOK
  <2>5. pc \in {"drainList", "drainRunners", "drainDelete"} =>
          (obj.id \in Ids /\ garm'[obj.id] # Absent => ~garm'[obj.id].enabled)
    BY <1>3, <2>4 DEF Reenabled, DrainSteps, Live
  <2> QED
    BY <1>1, <1>2, <2>1, <2>4, <2>5, DrainFrame
<1>5. ASSUME NEW i \in Ids, GarmDelete(i) PROVE DrainInv'
  <2>1. Members(i) = {} /\ UNCHANGED inst
    BY <1>5 DEF GarmDelete
  <2>2. garm'[i] = Absent /\ \A j \in Ids : j # i => garm'[j] = garm[j]
    BY <1>5 DEF GarmDelete, TypeOK
  <2> QED
    BY <1>1, <1>2, <1>3, <2>1, <2>2, DrainFrame
<1>6. ASSUME NEW r \in Runners, NEW i \in Ids, Spawn(r, i) PROVE DrainInv'
  <2>1. /\ garm[i] # Absent /\ garm[i].enabled /\ UNCHANGED garm
        /\ inst'[r] = [pool |-> i, status |-> "pending"]
        /\ \A q \in Runners : q # r => inst'[q] = inst[q]
    BY <1>6 DEF Spawn, Live, TypeOK
  <2>2. ASSUME NEW q \in Runners, inst'[q] # Absent
        PROVE  inst'[q].pool \in Ids /\ garm[inst'[q].pool] # Absent
    BY <2>1, <2>2 DEF DrainInv, NoStrandedRunner, Live
  <2>3. ASSUME pc = "drainDelete", NEW q \in Runners, inst'[q] # Absent
        PROVE  inst'[q].pool # obj.id
    <3>1. CASE q = r
      BY <1>3, <2>1, <2>3, <3>1
    <3>2. CASE q # r
      BY <1>2, <2>1, <2>3, <3>2 DEF Members
    <3> QED
      BY <3>1, <3>2
  <2> QED
    BY <1>1, <1>3, <2>1, <2>2, <2>3 DEF DrainInv, NoStrandedRunner, Live, Members
<1>7. ASSUME NEW r \in Runners, Advance(r) PROVE DrainInv'
  <2>1. \A q \in Runners : inst'[q] # Absent =>
          inst[q] # Absent /\ inst'[q].pool = inst[q].pool
    BY <1>7 DEF Advance, TypeOK
  <2>2. UNCHANGED garm
    BY <1>7 DEF Advance
  <2> QED
    BY <1>1, <1>2, <1>3, <2>1, <2>2, DrainFrame
<1>8. ASSUME NEW r \in Runners, Reap(r) PROVE DrainInv'
  <2>1. \A q \in Runners : inst'[q] = inst[q] \/ inst'[q] = Absent
    BY <1>8 DEF Reap, TypeOK
  <2>2. UNCHANGED garm
    BY <1>8 DEF Reap
  <2> QED
    BY <1>1, <1>2, <1>3, <2>1, <2>2, DrainFrame
<1> QED
  BY <1>4, <1>5, <1>6, <1>7, <1>8

LEMMA DrainNext == TypeOK /\ DrainInv /\ ~Reenabled /\ [Next]_vars => DrainInv'
<1> SUFFICES ASSUME TypeOK, DrainInv, ~Reenabled, [Next]_vars PROVE DrainInv'
  OBVIOUS
<1>1. CASE (\E p \in Names : Start(p)) \/ Work
  BY <1>1, DrainReconciles, DrainChanges, DrainCalls DEF Work
<1>2. CASE Environment
  <2>1. CASE \/ \E p \in Names : CacheSync(p) \/ UserCreate(p) \/ UserEdit(p) \/ UserDelete(p)
             \/ \E s \in Scopes : ScopeChange(s)
    <3>1. UNCHANGED <<garm, inst, pc, obj>>
      BY <2>1 DEF CacheSync, Refresh, UserCreate, UserEdit, UserDelete, Touch, Change,
        ScopeChange, garmVars, worker
    <3> QED
      BY <3>1, DrainApart
  <2>2. CASE Crash
    BY <2>2, DrainApart DEF Crash, Restart, Rest, garmVars
  <2> QED
    BY <1>2, <2>1, <2>2, DrainGarm DEF Environment
<1>3. CASE UNCHANGED vars
  BY <1>3, DrainApart DEF vars
<1> QED
  BY <1>1, <1>2, <1>3 DEF Next

\* If nobody enables a pool in GARM again while it is being drained, DeletePool meets
\* a pool without runners, so no runner is left without its pool.
THEOREM RunnersKeepTheirPool == Spec /\ [][~Reenabled]_vars => []NoStrandedRunner
<1>1. Init => DrainInv
  BY DEF Init, DrainInv, NoStrandedRunner
<1>2. TypeOK /\ DrainInv /\ [Next]_vars /\ [~Reenabled]_vars => DrainInv'
  <2>1. UNCHANGED vars => ~Reenabled
    BY DEF vars, Reenabled
  <2> QED
    BY <2>1, DrainNext
<1>3. DrainInv => NoStrandedRunner
  BY DEF DrainInv
<1> QED
  BY <1>1, <1>2, <1>3, TypeCorrect, PTL DEF Spec
=============================================================================
