-------------------------- MODULE EntityController --------------------------
(***************************************************************************)
(* The organization, repository and enterprise reconcilers                  *)
(* (operator/internal/controller/giteaorganization_controller.go,           *)
(* repository_controller.go, enterprise_controller.go).  They are one       *)
(* algorithm with differences that `kind' selects: an organization adopts    *)
(* what GARM already has under its name; a repository or an enterprise       *)
(* replaces its GARM entity when its name changes; an enterprise has no      *)
(* webhook of its own.                                                       *)
(***************************************************************************)
EXTENDS Kubernetes

CONSTANTS
  Kinds,            \* the kinds to consider, one in a behaviour
  Idents,           \* spec.name, for a repository with the owner
  Settings,         \* credentials and pool balancer, as one value
  Wanted,           \* Wanted[k][n]: the specs users may give to the resource n
  Preexisting,      \* entities an administrator may have left in GARM
  MaxEntities       \* bound: ids GARM hands out

\* own: webhookSecretRef is set.  install: installWebhook, if it is set.
EntitySpec == [ident : Idents, settings : Settings, own : BOOLEAN,
               install : {"default", "yes", "no"}]

\* An entity as GARM records it; own: its webhook secret is the user's; hook:
\* GARM has installed its webhook in the forge.
GarmEntity == [ident : Idents, settings : Settings, own : BOOLEAN, hook : BOOLEAN]

Entity == [spec : EntitySpec, deleting : BOOLEAN, finalizer : BOOLEAN,
           id : 0 .. MaxEntities, ready : BOOLEAN, current : BOOLEAN]

Ids == 1 .. MaxEntities

\* What a reconciliation resolves: credentials with their endpoint, and the
\* Secret that webhookSecretRef names.
Secret == "webhookSecret"
References == Settings \cup {Secret}

RefersTo(spec, x) == spec.settings = x \/ (x = Secret /\ spec.own)

ASSUME MaxEntitiesAssumption == MaxEntities \in Nat
ASSUME KindsAssumption == Kinds \subseteq {"organization", "repository", "enterprise"}
ASSUME WantedAssumption == Wanted \in [Kinds -> [Names -> SUBSET EntitySpec]]
ASSUME PreexistingAssumption == Preexisting \subseteq GarmEntity
ASSUME AbsentAssumption == Absent \notin Entity /\ Absent \notin GarmEntity

VARIABLES
  kind,     \* what the resources are
  refs,     \* references that resolve, as the informer caches show them
  garm,     \* GARM's entities
  minted,   \* number of ids GARM has handed out
  meddled   \* history: an administrator has changed GARM directly

fixed == <<kind, meddled>>
garmVars == <<garm, minted, fixed>>
vars == <<cr, cache, stale, queue, pc, me, obj, fresh, budget, refs, garmVars>>

ReconcileSteps == {"finalize", "create", "adopt", "get", "replace", "update",
                   "hookInfo", "hookInstall", "ready", "false", "clear"}
DeleteSteps == {"delete", "unfinalize"}

TypeOK ==
  /\ KubeType(Entity)
  /\ pc \in {"idle"} \cup ReconcileSteps \cup DeleteSteps
  /\ refs \subseteq References
  /\ garm \in [Ids -> GarmEntity \cup {Absent}]
  /\ minted \in 0 .. MaxEntities
  /\ kind \in Kinds /\ meddled \in BOOLEAN

-----------------------------------------------------------------------------
NewEntity(spec) ==
  [spec |-> spec, deleting |-> FALSE, finalizer |-> FALSE, id |-> NoId,
   ready |-> FALSE, current |-> FALSE]

Live(i) == i \in Ids /\ garm[i] # Absent
Named(ident) == {i \in Ids : Live(i) /\ garm[i].ident = ident}

\* References that some resource may have.
Referable ==
  {x \in References : \E n \in Names : \E s \in Wanted[kind][n] : RefersTo(s, x)}

Init ==
  /\ kind \in Kinds
  /\ cr \in [Names -> {Absent} \cup {NewEntity(s) : s \in UNION {Wanted[kind][n] : n \in Names}}]
  /\ \A n \in Names : Exists(n) => cr[n].spec \in Wanted[kind][n]
  /\ cache = cr /\ stale = {} /\ queue = {n \in Names : Exists(n)}
  /\ pc = "idle" /\ me = Nobody /\ obj = Absent /\ fresh = FALSE
  /\ budget = MaxDisruptions
  /\ refs \in SUBSET Referable
  /\ \/ minted = 0 /\ garm = [i \in Ids |-> Absent]
     \/ \E g \in Preexisting : /\ 1 <= MaxEntities
                               /\ minted = 1
                               /\ garm = [i \in Ids |-> IF i = 1 THEN g ELSE Absent]
  /\ meddled = FALSE

-----------------------------------------------------------------------------
(* Reconcile                                                                *)

\* Mutants of Adopts: a conflict is an error; repositories and enterprises adopt
\* as organizations do.
AdoptsNever == FALSE
AdoptsAlways == TRUE

Adopts == kind = "organization"
Replaces == kind \in {"repository", "enterprise"}

RefsResolve(spec) == spec.settings \in refs

SecretMissing(spec) == spec.own /\ Secret \notin refs

\* Mutant of FirstStep: the finalizer is added only once there is an id to guard.
FirstStepLateFinalizer(o) ==
  IF o.deleting
  THEN IF o.id = NoId THEN "unfinalize" ELSE "delete"
  ELSE IF ~o.finalizer /\ o.id # NoId THEN "finalize"
  ELSE IF ~RefsResolve(o.spec) THEN "false"
  ELSE IF o.id = NoId THEN "create" ELSE "get"

FirstStep(o) ==
  CASE o.deleting -> IF o.id = NoId THEN "unfinalize" ELSE "delete"
    [] ~o.deleting /\ ~o.finalizer -> "finalize"
    [] ~o.deleting /\ o.finalizer ->
         IF ~RefsResolve(o.spec) \/ (o.id = NoId /\ SecretMissing(o.spec))
         THEN "false"
         ELSE IF o.id = NoId THEN "create" ELSE "get"

\* Mutant of Start: a resource that is not found is reconciled all the same.
StartNotFound(n) ==
  /\ pc = "idle" /\ n \in queue
  /\ queue' = queue \ {n}
  /\ pc' = IF cache[n] = Absent THEN "finalize" ELSE FirstStep(cache[n])
  /\ me' = n /\ obj' = cache[n] /\ fresh' = (n \notin stale)
  /\ UNCHANGED <<cr, cache, stale, budget, refs, garmVars>>

Start(n) == Take(n, FirstStep(cache[n])) /\ UNCHANGED <<refs, garmVars>>

Commit(o) == Write(o) /\ UNCHANGED <<refs, garmVars>>

AddFinalizer ==
  /\ pc = "finalize"
  /\ Commit([obj EXCEPT !.finalizer = TRUE])

\* Where a reconciliation goes once GARM has the entity.
ShouldInstallWebhook(spec) ==
  kind # "enterprise" /\ (spec.install = "yes" \/ (spec.install = "default" /\ ~spec.own))

AfterSync(spec) == IF ShouldInstallWebhook(spec) THEN "hookInfo" ELSE "ready"

Mint(spec) ==
  /\ minted < MaxEntities /\ Named(spec.ident) = {}
  /\ minted' = minted + 1
  /\ garm' = [garm EXCEPT ![minted + 1] =
                [ident |-> spec.ident, settings |-> spec.settings,
                 own |-> spec.own, hook |-> FALSE]]
  /\ UNCHANGED fixed

\* The call succeeds, meets an entity of that name, is refused, or takes effect
\* and its answer is lost.
Create ==
  /\ pc = "create"
  /\ \/ /\ Mint(obj.spec)
        /\ obj' = [obj EXCEPT !.id = minted + 1]
        /\ Goto(AfterSync(obj.spec)) /\ UNCHANGED budget
     \/ /\ Named(obj.spec.ident) # {}
        /\ Goto(IF Adopts THEN "adopt" ELSE "false")
        /\ UNCHANGED <<obj, budget, garmVars>>
     \/ Disrupt("fault") /\ Goto("false") /\ UNCHANGED <<obj, garmVars>>
     \/ Disrupt("fault") /\ Mint(obj.spec) /\ Goto("false") /\ UNCHANGED obj
  /\ UNCHANGED <<kube, refs>>

\* ListOrgs by name and endpoint.  Its mutant forgets the filter.
ListedAll(spec) == {i \in Ids : Live(i)}

Listed(spec) == Named(spec.ident)

\* adoptExistingOrg
Adopt ==
  /\ pc = "adopt"
  /\ \/ \E i \in Ids : /\ Listed(obj.spec) = {i}
                       /\ obj' = [obj EXCEPT !.id = i]
                       /\ Goto(AfterSync(obj.spec)) /\ UNCHANGED budget
     \/ /\ \A i \in Ids : Listed(obj.spec) # {i}
        /\ Goto("false") /\ UNCHANGED <<obj, budget>>
     \/ Disrupt("fault") /\ Goto("false") /\ UNCHANGED obj
  /\ UNCHANGED <<kube, refs, garmVars>>

\* The user's webhook secret is not compared but sent with every update.
NeedsUpdate(g, spec) == g.settings # spec.settings \/ spec.own

\* Mutant of AfterGet: the name is not compared, as for organizations.
AfterGetAnyName(g, spec) ==
  IF SecretMissing(spec) THEN "false"
  ELSE IF NeedsUpdate(g, spec) THEN "update" ELSE AfterSync(spec)

AfterGet(g, spec) ==
  IF Replaces /\ g.ident # spec.ident THEN "replace"
  ELSE IF SecretMissing(spec) THEN "false"
  ELSE IF NeedsUpdate(g, spec) THEN "update" ELSE AfterSync(spec)

Get ==
  /\ pc = "get"
  /\ \/ /\ ~Live(obj.id)
        /\ obj' = [obj EXCEPT !.id = NoId]
        /\ Goto("clear") /\ UNCHANGED budget
     \/ Live(obj.id) /\ Goto(AfterGet(garm[obj.id], obj.spec)) /\ UNCHANGED <<obj, budget>>
     \/ Disrupt("fault") /\ Goto("false") /\ UNCHANGED obj
  /\ UNCHANGED <<kube, refs, garmVars>>

\* DeleteRepo or DeleteEnterprise of the entity with the old name.
Replace ==
  /\ pc = "replace"
  /\ \/ /\ garm' = [garm EXCEPT ![obj.id] = Absent]
        /\ obj' = [obj EXCEPT !.id = NoId]
        /\ Goto("clear") /\ UNCHANGED budget
     \/ Disrupt("fault") /\ Goto("false") /\ UNCHANGED <<obj, garm>>
     \/ /\ Disrupt("fault") /\ Goto("false")
        /\ garm' = [garm EXCEPT ![obj.id] = Absent] /\ UNCHANGED obj
  /\ UNCHANGED <<kube, refs, minted, fixed>>

ApplyUpdate ==
  /\ Live(obj.id)
  /\ garm' = [garm EXCEPT ![obj.id].settings = obj.spec.settings,
                          ![obj.id].own = @ \/ obj.spec.own]

Update ==
  /\ pc = "update"
  /\ \/ ApplyUpdate /\ Goto(AfterSync(obj.spec)) /\ UNCHANGED budget
     \/ ~Live(obj.id) /\ Goto("false") /\ UNCHANGED <<garm, budget>>
     \/ Disrupt("fault") /\ Goto("false") /\ UNCHANGED garm
     \/ Disrupt("fault") /\ ApplyUpdate /\ Goto("false")
  /\ UNCHANGED <<kube, obj, refs, minted, fixed>>

\* A 404 stands for a missing webhook and for a missing entity alike.
HookInfo ==
  /\ pc = "hookInfo"
  /\ \/ Live(obj.id) /\ garm[obj.id].hook /\ Goto("ready") /\ UNCHANGED budget
     \/ ~(Live(obj.id) /\ garm[obj.id].hook) /\ Goto("hookInstall") /\ UNCHANGED budget
     \/ Disrupt("fault") /\ Goto("false")
  /\ UNCHANGED <<kube, obj, refs, garmVars>>

InstallWebhook == Live(obj.id) /\ garm' = [garm EXCEPT ![obj.id].hook = TRUE]

HookInstall ==
  /\ pc = "hookInstall"
  /\ \/ InstallWebhook /\ Goto("ready") /\ UNCHANGED budget
     \/ ~Live(obj.id) /\ Goto("false") /\ UNCHANGED <<garm, budget>>
     \/ Disrupt("fault") /\ Goto("false") /\ UNCHANGED garm
     \/ Disrupt("fault") /\ InstallWebhook /\ Goto("false")
  /\ UNCHANGED <<kube, obj, refs, minted, fixed>>

MarkReady == pc = "ready" /\ Commit([obj EXCEPT !.ready = TRUE, !.current = TRUE])

MarkFalse == pc = "false" /\ Commit([obj EXCEPT !.ready = FALSE])

\* The id of an entity that is gone is dropped; the next reconciliation creates
\* another.
ClearId == pc = "clear" /\ Commit(obj)

-----------------------------------------------------------------------------
(* Deletion                                                                 *)

\* Mutant of Delete: a failed deletion is only logged.
DeleteLogged ==
  /\ pc = "delete"
  /\ \/ garm' = [garm EXCEPT ![obj.id] = Absent] /\ UNCHANGED budget
     \/ Disrupt("fault") /\ UNCHANGED garm
  /\ Goto("unfinalize")
  /\ UNCHANGED <<kube, obj, refs, minted, fixed>>

\* Mutant of Delete: an entity that is gone already is an error.
DeleteStrict ==
  /\ pc = "delete"
  /\ \/ /\ Live(obj.id) /\ garm' = [garm EXCEPT ![obj.id] = Absent]
        /\ Goto("unfinalize") /\ UNCHANGED <<kube, obj, budget>>
     \/ /\ ~Live(obj.id) /\ Requeue /\ UNCHANGED <<cr, cache, stale, garm, budget>>
     \/ /\ Disrupt("fault") /\ Requeue
        /\ garm' \in {garm, [garm EXCEPT ![obj.id] = Absent]}
        /\ UNCHANGED <<cr, cache, stale>>
  /\ UNCHANGED <<refs, minted, fixed>>

\* A failed deletion ends the reconciliation with an error.
Delete ==
  /\ pc = "delete"
  /\ \/ /\ garm' = [garm EXCEPT ![obj.id] = Absent]
        /\ Goto("unfinalize") /\ UNCHANGED <<kube, obj, budget>>
     \/ /\ Disrupt("fault") /\ Requeue
        /\ garm' \in {garm, [garm EXCEPT ![obj.id] = Absent]}
        /\ UNCHANGED <<cr, cache, stale>>
  /\ UNCHANGED <<refs, minted, fixed>>

RemoveFinalizer == pc = "unfinalize" /\ Release /\ UNCHANGED <<refs, garmVars>>

Work ==
  \/ AddFinalizer \/ Create \/ Adopt \/ Get \/ Replace \/ Update
  \/ HookInfo \/ HookInstall \/ MarkReady \/ MarkFalse \/ ClearId
  \/ Delete \/ RemoveFinalizer
-----------------------------------------------------------------------------
(* The world around the worker.                                             *)

CacheSync(n) == Refresh(n) /\ UNCHANGED <<refs, garmVars>>

\* Users create, edit and delete resources.
Touch(n, o) == Change(n, o) /\ UNCHANGED <<refs, garmVars>>

UserCreate(n) ==
  ~Exists(n) /\ \E s \in Wanted[kind][n] : Touch(n, NewEntity(s))

UserEdit(n) ==
  /\ Exists(n)
  /\ \E s \in Wanted[kind][n] : /\ s # cr[n].spec
                          /\ Touch(n, [cr[n] EXCEPT !.spec = s, !.current = FALSE])

UserDelete(n) == Exists(n) /\ ~cr[n].deleting /\ Touch(n, Deleted(cr[n]))

\* Credentials or a Secret come or go; the resources that the cache says refer
\* to them are queued.
RefChange(x) ==
  /\ Disrupt("refs")
  /\ refs' = IF x \in refs THEN refs \ {x} ELSE refs \cup {x}
  /\ queue' = queue \cup {n \in Names : cache[n] # Absent /\ RefersTo(cache[n].spec, x)}
  /\ UNCHANGED <<cr, cache, stale, pc, me, obj, fresh, garmVars>>

\* The administrator changes or deletes an entity in GARM directly.
GarmEdit(i) ==
  /\ Live(i) /\ Disrupt("garmEdit")
  /\ \E v \in Settings, h \in BOOLEAN :
       garm' = [garm EXCEPT ![i] = [@ EXCEPT !.settings = v, !.hook = h]]
  /\ meddled' = TRUE
  /\ UNCHANGED <<kube, pc, me, obj, fresh, refs, minted, kind>>

GarmDelete(i) ==
  /\ Live(i) /\ Disrupt("garmDelete")
  /\ garm' = [garm EXCEPT ![i] = Absent]
  /\ meddled' = TRUE
  /\ UNCHANGED <<kube, pc, me, obj, fresh, refs, minted, kind>>

Crash == Restart /\ UNCHANGED <<refs, garmVars>>

Environment ==
  \/ \E n \in Names : CacheSync(n) \/ UserCreate(n) \/ UserEdit(n) \/ UserDelete(n)
  \/ \E x \in Referable : RefChange(x)
  \/ \E i \in Ids : GarmEdit(i) \/ GarmDelete(i)
  \/ Crash

Next == (\E n \in Names : Start(n)) \/ Work \/ Environment

Spec == Init /\ [][Next]_vars

\* As for pools: the worker goes on with what it has begun and serves every
\* queued name in turn, and the informer catches up.
Fairness ==
  /\ WF_vars(Work)
  /\ \A n \in Names : SF_vars(Start(n)) /\ WF_vars(CacheSync(n))

FairSpec == Spec /\ Fairness

-----------------------------------------------------------------------------
(* Safety                                                                   *)

\* Two resources never record the same live GARM entity, whatever adoption and
\* replacement do.  Organizations must have names of their own in the forge, since
\* adoption goes by name; repositories and enterprises may compete for one.
NoSharedEntity ==
  \A n, m \in Names : /\ Exists(n) /\ Exists(m)
                       /\ Live(cr[n].id) /\ cr[n].id = cr[m].id => n = m

\* The worker deletes a GARM entity only for a resource that is being deleted or
\* was renamed: no other resource records it (deletion and replacement go by an
\* id read long before).
DeletesOnlyItsOwn ==
  [][(pc = "delete" \/ pc = "replace") /\ pc' # pc
       => \A n \in Names : /\ Exists(n) /\ n # me /\ Live(cr[n].id)
                            => garm'[cr[n].id] # Absent]_vars

\* Why no resource is let go, and no entity made, without the other's due, as an
\* invariant that every step preserves; see Kubernetes.
FinalizerInv ==
  /\ KubeInv
  /\ pc \in ReconcileSteps \ {"finalize"} => UnderFinalizer
  /\ pc \in DeleteSteps => UnderDeletion
  /\ pc = "unfinalize" => ~Live(obj.id)

\* Why the entity on record is never made a second time: a copy that shows no id,
\* however old, has the name under which GARM holds the entity on record, and of
\* a name there is one; and a copy that may still be written holds the id on
\* record, or the entity on record is gone.
NamesRecord(o, n) ==
  o.id = NoId /\ Live(cr[n].id) => garm[cr[n].id].ident = o.spec.ident

IdsMinted ==
  /\ \A i \in Ids : Live(i) => i <= minted
  /\ \A n \in Names : \A o \in Copies(n) : o.id <= minted

CachedNames == \A n \in Names : Exists(n) /\ cache[n] # Absent => NamesRecord(cache[n], n)

CopyRecord ==
  /\ pc = "create" => NamesRecord(obj, me)
  /\ pc \in {"create", "adopt"} => obj.id = NoId
  /\ pc \in {"finalize", "create", "adopt", "get", "replace"} /\ fresh => obj.id = cr[me].id
  /\ pc \in ReconcileSteps /\ fresh =>
       \/ obj.id = cr[me].id
       \/ ~Live(cr[me].id) /\ (Live(obj.id) => garm[obj.id].ident = obj.spec.ident)

RecordInv == IdsMinted /\ CachedNames /\ CopyRecord

\* Why organizations are not shared: an entity on any copy of a resource has a
\* name that this resource, and no other, may have had.
DistinctOrganizations ==
  \A k \in Kinds \cap {"organization"} : \A n, m \in Names :
    \A s \in Wanted[k][n], t \in Wanted[k][m] : s.ident = t.ident => n = m

OwnershipInv ==
  \A n \in Names : \A o \in Copies(n) :
    /\ o.spec \in Wanted[kind][n]
    /\ Live(o.id) => \E s \in Wanted[kind][n] : s.ident = garm[o.id].ident

\* observedGeneration is "the .metadata.generation last reconciled by the
\* controller": when a resource is marked Ready at its generation, GARM holds
\* what its spec says, unless an administrator has interfered.
Provided(g, spec) ==
  g.ident = spec.ident /\ g.settings = spec.settings /\ (spec.own => g.own)

Hooked(g, spec) == ShouldInstallWebhook(spec) => g.hook

Applied(n) ==
  /\ Live(cr[n].id)
  /\ Provided(garm[cr[n].id], cr[n].spec) /\ Hooked(garm[cr[n].id], cr[n].spec)

ReadyMeansApplied ==
  ~meddled =>
    \A n \in Names : Exists(n) /\ ~cr[n].deleting /\ cr[n].ready /\ cr[n].current
                        => Applied(n)

\* That much is true of repositories and enterprises.  An organization says it
\* as soon as it has adopted what it found, and when it has been renamed.
ReadyMeansAppliedUnlessAdopted == Replaces => ReadyMeansApplied

\* Why that is so: repositories and enterprises never have an id in common; a
\* resource that is Ready at its generation has no copy with another spec, so no
\* belated call can undo what it asks for; and each call of a reconciliation
\* leaves done what the next ones rely on.
IdsApart ==
  \A n, m \in Names : \A o \in Copies(n), p \in Copies(m) :
    o.id = p.id /\ o.id # NoId => n = m

CurrentCopies ==
  \A n \in Names : Exists(n) /\ cr[n].current =>
    /\ ~cr[n].deleting
    /\ \A o \in Copies(n) : o.spec = cr[n].spec /\ ~o.deleting

CallsLeaveDone ==
  /\ pc = "replace" /\ Live(obj.id) => garm[obj.id].ident # obj.spec.ident
  /\ pc \in {"update", "hookInfo", "hookInstall", "ready"}
       => Live(obj.id) /\ garm[obj.id].ident = obj.spec.ident
  /\ pc \in {"hookInfo", "hookInstall", "ready"} => Provided(garm[obj.id], obj.spec)
  /\ pc = "ready" => Hooked(garm[obj.id], obj.spec)
  /\ pc = "clear" /\ fresh => ~(cr[me].ready /\ cr[me].current)

ReadyInv ==
  /\ CurrentCopies
  /\ pc = "adopt" => Adopts
  /\ Replaces => IdsApart
  /\ Replaces /\ ~meddled => CallsLeaveDone /\ ReadyMeansApplied

\* Seen from afar, this is custody of GARM's objects.
Alive == {i \in Ids : Live(i)}

GarmCustody ==
  INSTANCE Custody WITH
    Owners <- Names, Objects <- Ids, Nothing <- NoId,
    guarded <- Guarded, recorded <- Recorded, alive <- Alive

\* An id is given up, and a resource let go, only when GARM holds nothing under
\* that id any more; and nothing is made in GARM for a resource without a finalizer
\* ("Ensure finalizer present before any GARM-side state is created") or with a
\* living object on record, however old the copy that the reconciliation read.
KeepsCustody == GarmCustody!Spec

-----------------------------------------------------------------------------
(* Liveness                                                                 *)

\* A deletion request, which nobody can withdraw, is granted in the end: no
\* resource is being deleted for ever.
DeletionCompletes == \A n \in Names : []<>~(Exists(n) /\ cr[n].deleting)

\* Once disruptions stop, GARM comes to hold what every resource whose
\* references resolve asks for, and the resource says so ("The operator owns
\* lifecycle reconciliation after install and upgrade").
Resolvable(spec) == RefsResolve(spec) /\ ~SecretMissing(spec)

Converged(n) ==
  Exists(n) /\ ~cr[n].deleting /\ Resolvable(cr[n].spec)
    => Applied(n) /\ cr[n].ready /\ cr[n].current

Converges == \A n \in Names : <>[]Converged(n)

\* Adoption is what makes that true of organizations.  A repository whose
\* creation lost its answer meets itself as a conflict ever after.
AdoptionConverges == \A n \in Names : <>[](kind = "organization" => Converged(n))
=============================================================================
