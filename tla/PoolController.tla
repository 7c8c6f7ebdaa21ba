--------------------------- MODULE PoolController ---------------------------
(***************************************************************************)
(* The Pool reconciler (operator/internal/controller/pool_controller.go)    *)
(* between its two stores: Kubernetes, where users keep Pool resources and  *)
(* the operator keeps their status, and GARM, where the runner pools live.  *)
(*                                                                          *)
(* A reconciliation reads the Pool from the informer cache and then makes   *)
(* remote calls, one action each; everything else moves in between.         *)
(***************************************************************************)
EXTENDS Kubernetes

CONSTANTS
  Scopes,           \* organizations, repositories, enterprises
  Prefixes,         \* spec.runnerPrefix
  Settings,         \* the other fields poolDiff compares, as one value
  Runners,          \* names of runner instances
  Wanted,           \* Wanted[p]: the specs users may give to the Pool named p
  Preexisting,      \* pools an administrator may have left in GARM
  MaxPools          \* bound: ids GARM hands out

PoolSpec == [scope : Scopes, prefix : Prefixes, settings : Settings, enabled : BOOLEAN]

\* A pool as GARM records it.
GarmPool == [scope : Scopes, prefix : Prefixes, settings : Settings, enabled : BOOLEAN]

\* current: status.observedGeneration equals metadata.generation.
Pool == [spec : PoolSpec, deleting : BOOLEAN, finalizer : BOOLEAN,
         id : 0 .. MaxPools, ready : BOOLEAN, current : BOOLEAN,
         draining : {"no", "Disabled", "WaitingForRunners"}]

Ids == 1 .. MaxPools

RunnerStatus == {"pending", "installing", "idle", "active", "failed", "terminated"}
Instance == [pool : Ids, status : RunnerStatus]

ASSUME MaxPoolsAssumption == MaxPools \in Nat
ASSUME WantedAssumption == Wanted \in [Names -> SUBSET PoolSpec]
ASSUME PreexistingAssumption == Preexisting \subseteq GarmPool
ASSUME AbsentAssumption == /\ Absent \notin Pool
                           /\ Absent \notin GarmPool
                           /\ Absent \notin Instance

VARIABLES
  patch,    \* fields of the pending PoolUpdate
  todo,     \* listed runners that drain is about to delete
  scopes,   \* scopes whose resource has a status.id in the cache
  garm,     \* GARM's pools
  minted,   \* number of ids GARM has handed out
  owner,    \* history: the Pool each GARM pool was created for
  inst      \* GARM's runner instances

worker == <<pc, me, obj, fresh, patch, todo>>
garmVars == <<garm, minted, owner, inst>>
vars == <<cr, cache, stale, queue, pc, me, obj, fresh, patch, todo, scopes,
          garm, minted, owner, inst, budget>>

ReconcileSteps == {"finalize", "list", "create", "get", "update", "instances",
                   "ready", "false", "clear"}
DrainSteps == {"drainGet", "drainDisable", "drainMark", "drainList",
               "drainRunners", "drainDelete", "unfinalize"}
Fields == {"prefix", "settings", "enabled"}

TypeOK ==
  /\ cr \in [Names -> Pool \cup {Absent}]
  /\ cache \in [Names -> Pool \cup {Absent}]
  /\ stale \subseteq Names
  /\ queue \subseteq Names
  /\ \/ pc = "idle" /\ me = Nobody /\ obj = Absent /\ fresh = FALSE
     \/ pc \in ReconcileSteps \cup DrainSteps /\ me \in Names /\ obj \in Pool
  /\ fresh \in BOOLEAN
  /\ patch \subseteq Fields
  /\ todo \subseteq Runners
  /\ scopes \subseteq Scopes
  /\ garm \in [Ids -> GarmPool \cup {Absent}]
  /\ minted \in 0 .. MaxPools
  /\ owner \in [Ids -> Names \cup {Nobody}]
  /\ inst \in [Runners -> Instance \cup {Absent}]
  /\ budget \in 0 .. MaxDisruptions

-----------------------------------------------------------------------------
(* The resources as users and the administrator see them.                   *)

NewPool(spec) ==
  [spec |-> spec, deleting |-> FALSE, finalizer |-> FALSE, id |-> NoId,
   ready |-> FALSE, current |-> FALSE, draining |-> "no"]

Live(i) == i \in Ids /\ garm[i] # Absent

\* The GARM pool that buildPoolCreate asks for.
Desired(spec) ==
  [scope |-> spec.scope, prefix |-> spec.prefix,
   settings |-> spec.settings, enabled |-> spec.enabled]

\* Writing a Pool with Update omits a false spec.enabled (omitempty), and the
\* API server then fills in the default of the CRD, true.
Defaulted(spec) == [spec EXCEPT !.enabled = TRUE]

Init ==
  /\ cr \in [Names -> {Absent} \cup {NewPool(s) : s \in UNION {Wanted[p] : p \in Names}}]
  /\ \A p \in Names : Exists(p) => cr[p].spec \in Wanted[p]
  /\ cache = cr
  /\ stale = {}
  /\ queue = {p \in Names : Exists(p)}
  /\ pc = "idle" /\ me = Nobody /\ obj = Absent /\ fresh = FALSE
  /\ patch = {} /\ todo = {}
  /\ scopes \in SUBSET Scopes
  /\ \/ minted = 0 /\ garm = [i \in Ids |-> Absent]
     \/ \E g \in Preexisting : /\ 1 <= MaxPools
                               /\ minted = 1
                               /\ garm = [i \in Ids |-> IF i = 1 THEN g ELSE Absent]
  /\ owner = [i \in Ids |-> Nobody]
  /\ inst = [r \in Runners |-> Absent]
  /\ budget = MaxDisruptions

-----------------------------------------------------------------------------
(* How a reconciliation ends.                                               *)

\* Reconcile returns and is to be called again.
Return == Requeue /\ patch' = {} /\ todo' = {}

\* Each of Reconcile's writes is its last call and is followed by a requeue.
Commit(o) == Write(o) /\ patch' = {} /\ todo' = {} /\ UNCHANGED <<scopes, garmVars>>

-----------------------------------------------------------------------------
(* Reconcile, up to its first remote call.                                  *)

\* resolvePoolScope finds the scope's id.  What resolveRunnerTemplate does when
\* the template is missing or not ready leads to the same step.
Resolves(spec) == spec.scope \in scopes

\* Mutant of FirstStep: the finalizer is added only once there is an id to guard.
FirstStepLateFinalizer(o) ==
  IF o.deleting
  THEN IF o.id = NoId THEN "unfinalize" ELSE "drainGet"
  ELSE IF ~o.finalizer /\ o.id # NoId THEN "finalize"
  ELSE IF ~Resolves(o.spec) THEN "false"
  ELSE IF o.id = NoId THEN "list" ELSE "get"

FirstStep(o) ==
  IF o.deleting
  THEN IF o.id = NoId THEN "unfinalize" ELSE "drainGet"
  ELSE IF ~o.finalizer THEN "finalize"
  ELSE IF ~Resolves(o.spec) THEN "false"
  ELSE IF o.id = NoId THEN "list" ELSE "get"

\* Mutant of Start: the error of a Pool that is not found is swallowed, and the
\* reconciliation goes on with an empty object.
StartNotFound(p) ==
  /\ pc = "idle" /\ p \in queue
  /\ queue' = queue \ {p}
  /\ pc' = IF cache[p] = Absent THEN "finalize" ELSE FirstStep(cache[p])
  /\ me' = p /\ obj' = cache[p] /\ fresh' = (p \notin stale)
  /\ UNCHANGED <<cr, cache, stale, patch, todo, scopes, garmVars, budget>>

Start(p) ==
  /\ Take(p, FirstStep(cache[p]))
  /\ UNCHANGED <<patch, todo, scopes, garmVars>>

AddFinalizer ==
  /\ pc = "finalize"
  /\ Commit([obj EXCEPT !.finalizer = TRUE,
                        !.spec = Defaulted(obj.spec),
                        !.current = obj.current /\ Defaulted(obj.spec) = obj.spec])

-----------------------------------------------------------------------------
(* adoptOrCreatePool                                                        *)

\* Mutants of Matches: adoption never happens; adoption forgets the prefix.
MatchesNothing(spec) == {}
MatchesByScope(spec) == {i \in Ids : Live(i) /\ garm[i].scope = spec.scope}

Matches(spec) ==
  {i \in Ids : Live(i) /\ garm[i].scope = spec.scope /\ garm[i].prefix = spec.prefix}

ListPools ==
  /\ pc = "list"
  /\ \/ /\ Matches(obj.spec) = {}
        /\ Goto("create") /\ UNCHANGED <<obj, budget>>
     \/ \E i \in Ids : /\ Matches(obj.spec) = {i}
                       /\ obj' = [obj EXCEPT !.id = i]
                       /\ Goto("instances") /\ UNCHANGED budget
     \/ /\ \E i, j \in Matches(obj.spec) : i # j
        /\ Goto("false") /\ UNCHANGED <<obj, budget>>
     \/ Disrupt("fault") /\ Goto("false") /\ UNCHANGED obj
  /\ UNCHANGED <<kube, patch, todo, scopes, garmVars>>

Mint(spec) ==
  /\ minted < MaxPools
  /\ minted' = minted + 1
  /\ garm' = [garm EXCEPT ![minted + 1] = Desired(spec)]
  /\ owner' = [owner EXCEPT ![minted + 1] = me]
  /\ UNCHANGED inst

\* The call succeeds, is refused, or takes effect and its answer is lost.
CreatePool ==
  /\ pc = "create"
  /\ \/ /\ Mint(obj.spec)
        /\ obj' = [obj EXCEPT !.id = minted + 1]
        /\ Goto("instances") /\ UNCHANGED budget
     \/ Disrupt("fault") /\ Goto("false") /\ UNCHANGED <<obj, garmVars>>
     \/ Disrupt("fault") /\ Mint(obj.spec) /\ Goto("false") /\ UNCHANGED obj
  /\ UNCHANGED <<kube, patch, todo, scopes>>

-----------------------------------------------------------------------------
(* Drift correction                                                         *)

\* Mutant of Diff: the switch is not compared.
DiffButEnabled(g, spec) ==
  {f \in Fields : CASE f = "prefix" -> g.prefix # spec.prefix
                    [] f = "settings" -> g.settings # spec.settings
                    [] OTHER -> FALSE}

\* poolDiff: the fields of g that the spec asks to change.  The scope is not
\* among them.
Diff(g, spec) ==
  {f \in Fields : CASE f = "prefix" -> g.prefix # spec.prefix
                    [] f = "settings" -> g.settings # spec.settings
                    [] f = "enabled" -> g.enabled # spec.enabled}

Patched(g, spec, fields) ==
  [scope |-> g.scope,
   prefix |-> IF "prefix" \in fields THEN spec.prefix ELSE g.prefix,
   settings |-> IF "settings" \in fields THEN spec.settings ELSE g.settings,
   enabled |-> IF "enabled" \in fields THEN spec.enabled ELSE g.enabled]

GetPool ==
  /\ pc = "get"
  /\ \/ /\ ~Live(obj.id)
        /\ obj' = [obj EXCEPT !.id = NoId]
        /\ Goto("clear") /\ UNCHANGED <<patch, budget>>
     \/ /\ Live(obj.id)
        /\ patch' = Diff(garm[obj.id], obj.spec)
        /\ Goto(IF patch' = {} THEN "instances" ELSE "update")
        /\ UNCHANGED <<obj, budget>>
     \/ Disrupt("fault") /\ Goto("false") /\ UNCHANGED <<obj, patch>>
  /\ UNCHANGED <<kube, todo, scopes, garmVars>>

ApplyPatch ==
  /\ Live(obj.id)
  /\ garm' = [garm EXCEPT ![obj.id] = Patched(garm[obj.id], obj.spec, patch)]

UpdatePool ==
  /\ pc = "update"
  /\ \/ ApplyPatch /\ Goto("instances") /\ UNCHANGED budget
     \/ ~Live(obj.id) /\ Goto("false") /\ UNCHANGED <<garm, budget>>
     \/ Disrupt("fault") /\ Goto("false") /\ UNCHANGED garm
     \/ Disrupt("fault") /\ ApplyPatch /\ Goto("false")
  /\ patch' = {}
  /\ UNCHANGED <<kube, obj, todo, scopes, minted, owner, inst>>

\* ListPoolInstances and syncRunnerMirrors.  A failed list is only logged; a
\* failed mirror is an error.
SyncInstances ==
  /\ pc = "instances"
  /\ \/ Goto("ready") /\ UNCHANGED budget
     \/ Disrupt("fault") /\ Goto("false")
  /\ UNCHANGED <<kube, obj, patch, todo, scopes, garmVars>>

\* Mutant of MarkReady: success asks for no periodic requeue.
MarkReadyOnce ==
  /\ pc = "ready"
  /\ LET o == [obj EXCEPT !.ready = TRUE, !.current = TRUE]
     IN  \/ /\ fresh /\ cr' = [cr EXCEPT ![me] = o]
            /\ stale' = IF o = cr[me] THEN stale ELSE stale \cup {me}
            /\ Rest /\ UNCHANGED queue
         \/ ~fresh /\ Requeue /\ UNCHANGED <<cr, stale>>
  /\ patch' = {} /\ todo' = {}
  /\ UNCHANGED <<cache, scopes, garmVars, budget>>

MarkReady ==
  /\ pc = "ready"
  /\ Commit([obj EXCEPT !.ready = TRUE, !.current = TRUE])

MarkPoolFalse ==
  /\ pc = "false"
  /\ Commit([obj EXCEPT !.ready = FALSE])

\* The id of a pool that GARM no longer has is dropped; the next
\* reconciliation creates another.
ClearId ==
  /\ pc = "clear"
  /\ Commit(obj)

-----------------------------------------------------------------------------
(* drain                                                                    *)

\* drain returns the error of a failed call without recording it.
DrainFailed ==
  Disrupt("fault") /\ Return /\ UNCHANGED <<cr, cache, stale, scopes>>

DrainGoto(step) ==
  Goto(step) /\ UNCHANGED <<kube, obj, patch, scopes, budget>>

\* Mutant of DrainGet: runners are deleted without first disabling the pool.
DrainGetEnabled ==
  /\ pc = "drainGet"
  /\ \/ ~Live(obj.id) /\ DrainGoto("unfinalize") /\ UNCHANGED todo
     \/ Live(obj.id) /\ DrainGoto("drainList") /\ UNCHANGED todo
     \/ DrainFailed
  /\ UNCHANGED garmVars

DrainGet ==
  /\ pc = "drainGet"
  /\ \/ ~Live(obj.id) /\ DrainGoto("unfinalize") /\ UNCHANGED todo
     \/ Live(obj.id) /\ garm[obj.id].enabled /\ DrainGoto("drainDisable") /\ UNCHANGED todo
     \/ Live(obj.id) /\ ~garm[obj.id].enabled /\ DrainGoto("drainList") /\ UNCHANGED todo
     \/ DrainFailed
  /\ UNCHANGED garmVars

Disable == /\ Live(obj.id)
           /\ garm' = [garm EXCEPT ![obj.id].enabled = FALSE]

DrainDisable ==
  /\ pc = "drainDisable"
  /\ \/ Disable /\ DrainGoto("drainMark") /\ UNCHANGED todo
     \/ /\ ~Live(obj.id)
        /\ Return /\ UNCHANGED <<cr, cache, stale, scopes, garm, budget>>
     \/ DrainFailed /\ UNCHANGED garm
     \/ DrainFailed /\ Disable
  /\ UNCHANGED <<minted, owner, inst>>

DrainMark ==
  /\ pc = "drainMark"
  /\ Commit([obj EXCEPT !.draining = "Disabled"])

\* Mutant of Drainable: only runners that wait for a job are deleted.
DrainableIdle(status) == status = "idle"

Drainable(status) == status \in {"idle", "pending", "failed", "terminated"}

Members(i) == {r \in Runners : inst[r] # Absent /\ inst[r].pool = i}

DrainList ==
  /\ pc = "drainList"
  /\ \/ /\ Members(obj.id) = {}
        /\ DrainGoto("drainDelete") /\ UNCHANGED todo
     \/ /\ Members(obj.id) # {}
        /\ todo' = {r \in Members(obj.id) : Drainable(inst[r].status)}
        /\ DrainGoto("drainRunners")
     \/ DrainFailed
  /\ UNCHANGED garmVars

\* DeleteInstance, without force.  Its errors are only logged.  GARM may
\* refuse a runner that has taken a job since it was listed.
DrainRunner(r) ==
  /\ pc = "drainRunners" /\ r \in todo
  /\ todo' = todo \ {r}
  /\ \/ inst' = [inst EXCEPT ![r] = Absent] /\ UNCHANGED budget
     \/ /\ inst[r] # Absent /\ ~Drainable(inst[r].status)
        /\ UNCHANGED <<inst, budget>>
     \/ Disrupt("fault") /\ UNCHANGED inst
  /\ UNCHANGED <<kube, pc, me, obj, fresh, patch, scopes, garm, minted, owner>>

DrainWait ==
  /\ pc = "drainRunners" /\ todo = {}
  /\ Commit([obj EXCEPT !.draining = "WaitingForRunners"])

\* Mutant of DrainDelete: a failed DeletePool is only logged.
DrainDeleteLogged ==
  /\ pc = "drainDelete"
  /\ \/ /\ garm' = [garm EXCEPT ![obj.id] = Absent]
        /\ DrainGoto("unfinalize") /\ UNCHANGED todo
     \/ /\ Disrupt("fault") /\ Goto("unfinalize")
        /\ UNCHANGED <<kube, obj, patch, todo, scopes, garm>>
  /\ UNCHANGED <<minted, owner, inst>>

DrainDelete ==
  /\ pc = "drainDelete"
  /\ \/ /\ garm' = [garm EXCEPT ![obj.id] = Absent]
        /\ DrainGoto("unfinalize") /\ UNCHANGED todo
     \/ DrainFailed /\ UNCHANGED garm
     \/ DrainFailed /\ garm' = [garm EXCEPT ![obj.id] = Absent]
  /\ UNCHANGED <<minted, owner, inst>>

RemoveFinalizer ==
  /\ pc = "unfinalize"
  /\ Release
  /\ patch' = {} /\ todo' = {}
  /\ UNCHANGED <<scopes, garmVars>>

Work ==
  \/ AddFinalizer \/ ListPools \/ CreatePool \/ GetPool \/ UpdatePool
  \/ SyncInstances \/ MarkReady \/ MarkPoolFalse \/ ClearId
  \/ DrainGet \/ DrainDisable \/ DrainMark \/ DrainList
  \/ (\E r \in Runners : DrainRunner(r))
  \/ DrainWait \/ DrainDelete \/ RemoveFinalizer

-----------------------------------------------------------------------------
(* The world around the worker.                                             *)

CacheSync(p) == Refresh(p) /\ UNCHANGED <<patch, todo, scopes, garmVars>>

\* Users create, edit and delete Pools.
Touch(p, o) == Change(p, o) /\ UNCHANGED <<patch, todo, scopes, garmVars>>

UserCreate(p) ==
  ~Exists(p) /\ \E s \in Wanted[p] : Touch(p, NewPool(s))

UserEdit(p) ==
  /\ Exists(p)
  /\ \E s \in Wanted[p] : /\ s # cr[p].spec
                          /\ Touch(p, [cr[p] EXCEPT !.spec = s, !.current = FALSE])

UserDelete(p) == Exists(p) /\ ~cr[p].deleting /\ Touch(p, Deleted(cr[p]))

\* A scope gets or loses its status.id; scopeToPools queues the pools that
\* the cache says refer to it.
ScopeChange(s) ==
  /\ Disrupt("refs")
  /\ scopes' = IF s \in scopes THEN scopes \ {s} ELSE scopes \cup {s}
  /\ queue' = queue \cup {p \in Names : cache[p] # Absent /\ cache[p].spec.scope = s}
  /\ UNCHANGED <<cr, cache, stale, worker, garmVars>>

\* The administrator changes or deletes a pool in GARM directly.
GarmEdit(i) ==
  /\ Live(i) /\ Disrupt("garmEdit")
  /\ \E v \in Settings, e \in BOOLEAN :
       garm' = [garm EXCEPT ![i] = [@ EXCEPT !.settings = v, !.enabled = e]]
  /\ UNCHANGED <<kube, worker, scopes, minted, owner, inst>>

GarmDelete(i) ==
  /\ Live(i) /\ Members(i) = {} /\ Disrupt("garmDelete")
  /\ garm' = [garm EXCEPT ![i] = Absent]
  /\ UNCHANGED <<kube, worker, scopes, minted, owner, inst>>

\* GARM adds runners to an enabled pool, under names it has not used recently.
Spawn(r, i) ==
  /\ inst[r] = Absent /\ r \notin todo
  /\ Live(i) /\ garm[i].enabled
  /\ inst' = [inst EXCEPT ![r] = [pool |-> i, status |-> "pending"]]
  /\ UNCHANGED <<kube, worker, scopes, garm, minted, owner, budget>>

\* The life of a runner; each takes one job.
Successors(status) ==
  CASE status = "pending" -> {"installing", "failed"}
    [] status = "installing" -> {"idle", "failed"}
    [] status = "idle" -> {"active"}
    [] status = "active" -> {"terminated"}
    [] OTHER -> {}

Advance(r) ==
  /\ inst[r] # Absent
  /\ \E s \in Successors(inst[r].status) :
       inst' = [inst EXCEPT ![r] = [pool |-> inst[r].pool, status |-> s]]
  /\ UNCHANGED <<kube, worker, scopes, garm, minted, owner, budget>>

Reap(r) ==
  /\ inst[r] # Absent /\ inst[r].status \in {"terminated", "failed"}
  /\ inst' = [inst EXCEPT ![r] = Absent]
  /\ UNCHANGED <<kube, worker, scopes, garm, minted, owner, budget>>

Crash == Restart /\ patch' = {} /\ todo' = {} /\ UNCHANGED <<scopes, garmVars>>

Environment ==
  \/ \E p \in Names : CacheSync(p) \/ UserCreate(p) \/ UserEdit(p) \/ UserDelete(p)
  \/ \E s \in Scopes : ScopeChange(s)
  \/ \E i \in Ids : GarmEdit(i) \/ GarmDelete(i)
  \/ \E r \in Runners, i \in Ids : Spawn(r, i)
  \/ \E r \in Runners : Advance(r) \/ Reap(r)
  \/ Crash

Next == (\E p \in Names : Start(p)) \/ Work \/ Environment

Spec == Init /\ [][Next]_vars

\* The worker goes on with what it has begun, serves every queued name in
\* turn, and the informer catches up.  Runners finish installing and finish
\* their jobs.  Nothing is assumed of users, faults or waiting runners.
Busy(r) == inst[r] # Absent /\ inst[r].status \in {"installing", "active"}

Fairness ==
  /\ WF_vars(Work)
  /\ \A p \in Names : SF_vars(Start(p)) /\ WF_vars(CacheSync(p))
  /\ \A r \in Runners : WF_vars(Busy(r) /\ Advance(r))

FairSpec == Spec /\ Fairness
-----------------------------------------------------------------------------
(* Safety                                                                   *)

\* "Ensure finalizer present before any GARM-side state is created": whatever
\* the cache showed when the reconciliation began, at the moment CreateXxxPool
\* takes effect the API server holds this Pool with its finalizer, so its
\* deletion will have to pass through drain.
CreateOnlyUnderFinalizer ==
  [][minted' # minted => Exists(me) /\ cr[me].finalizer]_vars

\* A Pool resource goes away only after the GARM pool that its status records
\* is gone (drain removes the finalizer last).
RecordedPoolGoesFirst ==
  [][\A p \in Names : Exists(p) /\ cr'[p] = Absent /\ cr[p].id # NoId
                         => garm[cr[p].id] = Absent]_vars

\* drain deletes a GARM pool only once it has no runners, so no instance is
\* left without its pool.
NoStrandedRunner == \A r \in Runners : inst[r] # Absent => Live(inst[r].pool)

\* Lost answers, crashes and stale caches do not multiply pools: a scope and
\* prefix name at most one GARM pool (adoptOrCreatePool lists before it creates).
AtMostOnePool ==
  \A i, j \in Ids : Live(i) /\ Live(j) /\ garm[i].scope = garm[j].scope
                      /\ garm[i].prefix = garm[j].prefix => i = j

\* Two Pools never record the same live GARM pool (adoption goes by scope and
\* prefix alone, so this rests on every Pool having a prefix of its own).
NoSharedPool ==
  \A p, q \in Names : /\ Exists(p) /\ Exists(q)
                       /\ Live(cr[p].id) /\ cr[p].id = cr[q].id => p = q

\* A Pool that exists is never forgotten: it is queued, being reconciled, or the
\* informer still owes an event for it (every return of Reconcile that leaves
\* the finalizer in place asks for a requeue).
NeverForgotten ==
  \A p \in Names : Exists(p) => p \in queue \/ p = me \/ p \in stale

\* The controller deletes a GARM pool only while every Pool that records it is
\* being deleted: draining one Pool never takes another Pool's runners away.
DeletesOnlyOnRequest ==
  [][pc = "drainDelete" /\ pc' # pc
       => \A p \in Names : /\ Exists(p) /\ cr[p].id # NoId
                            /\ Live(cr[p].id) /\ garm'[cr[p].id] = Absent
                            => cr[p].deleting]_vars

\* Why the two properties about finalizers hold, as an invariant that every
\* step preserves: what copies are good for (Kubernetes), and what the worker
\* relies on once it has passed the checks on its copy.
ReconcileUnderFinalizer ==
  pc \in ReconcileSteps \ {"finalize"}
    => obj.finalizer /\ ~obj.deleting /\ Exists(me) /\ cr[me].finalizer

DrainCopy ==
  pc \in DrainSteps =>
    /\ obj.deleting
    /\ fresh => /\ cr[me].id = obj.id
                /\ cache[me] # Absent /\ cache[me].deleting

ReleasesNothing ==
  pc = "unfinalize" => obj.id = NoId \/ ~Live(obj.id)

FinalizerInv ==
  /\ CacheIsCurrent /\ CachedFinalizerHolds /\ BareHasNothing
  /\ FreshCopy /\ ReconcileUnderFinalizer /\ DrainCopy /\ ReleasesNothing

\* Why a record is never replaced while the pool on record lives, as an invariant:
\* what a copy that still speaks for the Pool says about its id.
RecordInv ==
  /\ pc = "finalize" /\ fresh => obj.id = cr[me].id
  /\ pc \in {"list", "create"} => obj.id = NoId
  /\ pc \in ReconcileSteps /\ fresh => obj.id = cr[me].id \/ ~Live(cr[me].id)

\* Why a scope and prefix name one GARM pool, as an invariant: if a Pool never
\* changes its scope and prefix, then every copy of it, and every pool whose id
\* a copy records, has them; and between listing and creating nothing appears.
SameIdentity(a, b) == a.scope = b.scope /\ a.prefix = b.prefix

StableIdentities == \A p \in Names : \A s, t \in Wanted[p] : SameIdentity(s, t)

DistinctIdentities ==
  \A p, q \in Names : \A s \in Wanted[p], t \in Wanted[q] : SameIdentity(s, t) => p = q

\* o is a copy of Pool p that fits GARM's pools g, of which m ids were handed out.
Fits(o, p, g, m) ==
  /\ \E s \in Wanted[p] : SameIdentity(o.spec, s)
  /\ o.id <= m
  /\ o.id \in Ids /\ g[o.id] # Absent => SameIdentity(g[o.id], o.spec)

IdentityInv ==
  /\ \A p \in Names : Exists(p) => Fits(cr[p], p, garm, minted)
  /\ \A p \in Names : cache[p] # Absent => Fits(cache[p], p, garm, minted)
  /\ pc # "idle" => Fits(obj, me, garm, minted)
  /\ \A i \in Ids : Live(i) => i <= minted
  /\ "prefix" \notin patch
  /\ pc = "create" => Matches(obj.spec) = {}
  /\ AtMostOnePool

\* Why no instance is left without its pool, as an invariant: from the moment drain
\* sees the pool disabled, it stays so, and what has no runners gets none.
DrainInv ==
  /\ pc \in {"drainList", "drainRunners", "drainDelete"} /\ Live(obj.id)
       => ~garm[obj.id].enabled
  /\ pc = "drainDelete" => Members(obj.id) = {}
  /\ NoStrandedRunner

\* What it assumes of the administrator: nobody enables the pool in GARM again
\* while a reconciliation is draining it.
Reenabled ==
  /\ pc \in DrainSteps
  /\ \E i \in Ids : /\ i = obj.id /\ Live(i) /\ ~garm[i].enabled
                    /\ garm'[i] # Absent /\ garm'[i].enabled

\* Why only a deleted Pool is drained, as an invariant: a copy that shows a deletion
\* is of the Pool that is being deleted, or that Pool has gone and the one that has
\* its name now records nothing yet.
Succeeded(p) == Exists(p) => cr[p].deleting \/ cr[p].id = NoId

DeletionInv ==
  /\ \A p \in Names : cache[p] # Absent /\ cache[p].deleting => Succeeded(p)
  /\ pc \in DrainSteps => Succeeded(me)
  /\ fresh => me \notin stale

\* Seen from afar, this is custody of GARM's objects.
Alive == {i \in Ids : Live(i)}

GarmCustody ==
  INSTANCE Custody WITH
    Owners <- Names, Objects <- Ids, Nothing <- NoId,
    guarded <- Guarded, recorded <- Recorded, alive <- Alive

\* An id is given up, and a resource let go, only when GARM holds nothing under
\* that id any more; and nothing is made in GARM for a resource without a finalizer
\* ("Ensure finalizer present before any GARM-side state is created") or with a
\* living object on record, however old the copy that the reconciliation read.
KeepsCustody == GarmCustody!Spec

-----------------------------------------------------------------------------
(* Liveness                                                                 *)

\* A deletion request is granted in the end, whatever runners were doing.
DeletionCompletes ==
  \A p \in Names : (Exists(p) /\ cr[p].deleting) ~> ~Exists(p)

Applied(p) == /\ cr[p].id # NoId /\ Live(cr[p].id)
              /\ garm[cr[p].id] = Desired(cr[p].spec)

\* Once disruptions stop, GARM comes to hold what every resolvable Pool asks
\* for, the Pool says so, and both stay that way.
Converges ==
  \A p \in Names :
    <>[](Exists(p) /\ ~cr[p].deleting /\ cr[p].spec.scope \in scopes
           => Applied(p) /\ cr[p].ready /\ cr[p].current)

-----------------------------------------------------------------------------
(* What the repository says of the controller and the code does not do.     *)

\* A deleted Pool leaves no GARM pool behind: every live pool that was created
\* for a Pool has that Pool ("disables and drains runners before deleting the
\* GARM pool").
NoOrphanedPool ==
  \A i \in Ids : Live(i) /\ owner[i] # Nobody => Exists(owner[i])

\* The spec belongs to the user: the controller's own writes never change it
\* (the chart renders "enabled: false" when that is what the user asked for).
SpecIsTheUsers ==
  [][\A p \in Names : Exists(p) /\ cr'[p] # Absent /\ cr'[p].spec # cr[p].spec
       => pc' = pc]_vars
=============================================================================
