# A formal model of the GARM operator

The repository holds a Helm chart for GARM (a manager of self-hosted CI
runners) and, under `operator/`, a Kubernetes operator written in Go. Users
describe forge endpoints, credentials, organizations, repositories,
enterprises, runner templates and runner pools as custom resources; the
operator makes GARM's database follow them through GARM's HTTP API. The core
logic of the program is the set of reconcilers in
`operator/internal/controller/` and the API client in
`operator/internal/garmclient/`. This directory models that logic in TLA+,
checks it with TLC and proves theorems about it with TLAPS.

## The system

| component | state it keeps | operations | talks to |
|---|---|---|---|
| Pool reconciler (`pool_controller.go`) | finalizer, `status.id`, conditions and `observedGeneration` of Pool resources; pools in GARM | reconcile (adopt or create, correct drift, mirror runners, mark ready), drain (disable, delete runners, delete pool, release) | API server, informer cache, GARM; woken by Pools, scopes, templates |
| Runner reconciler (`runner_controller.go`) and mirrors (`syncRunnerMirrors`) | Runner resources that mirror GARM instances | create, refresh, delete mirrors, from two reconcilers | both |
| Endpoint reconcilers (Gitea, GitHub) | endpoints in GARM by name | create, adopt on conflict, patch drift, delete | both, Secrets |
| Credentials reconcilers (Gitea, GitHub) | credentials in GARM | create, rotate on every pass, delete | both, Secrets |
| Organization, repository, enterprise reconcilers | entities in GARM, webhooks, webhook secrets | create (organizations adopt), update, replace on a change of identity, install webhooks, delete | both, Secrets |
| RunnerTemplate reconciler | templates in GARM | adopt, create, update, replace by delete and create | both |
| ServerSettings reconciler | GARM's controller settings | diff and update | both |
| GARM client (`garmclient/`) | one bearer token, shared by all reconcilers | login, one retry after a 401, typed errors | GARM |
| Manager (`cmd/main.go`) | caches, work queues, leadership | start | |

Each controller has one worker and a work queue of names. A reconciliation
reads its resource from an informer cache, which lags behind the API server,
and then makes remote calls one after the other. Kubernetes writes carry the
`resourceVersion` that was read and conflict if the object has changed. GARM
has no such versions, and a call may take effect although its answer is lost.
Users, an administrator working with `garm-cli`, GARM's own scaling and the
restart of the operator come in between any two calls. This, and not any
algorithm, is where the program is hard: what the worker knows is old, and what
it has just done may not be recorded anywhere.

What makes each component correct:

* **Pools.** No GARM pool for a Pool without its finalizer; a Pool goes only
  after its GARM pool; one GARM pool per Pool, no sharing; no pool deleted under
  its runners; deletion completes; GARM converges to the spec; `Ready` is true
  of what GARM holds.
* **Runner mirrors.** One mirror per instance, none for instances that are gone,
  the two reconcilers do not undo each other.
* **Endpoints, credentials, entities, templates.** The same as for pools:
  creation once, adoption where the code has it, deletion before release, and
  convergence; for replacement by delete and create, recovery from a failure in
  between.
* **Drift correction** (`poolDiff`, `serverSettingsDiff`). An update changes only
  what differs and touches nothing that the spec leaves open; applying it leaves
  nothing to change; what the Secret and the template say reaches GARM, although
  nobody watches the Secret.
* **Client.** A call that meets an expired token is retried once with a fresh
  one; concurrent refreshes do not lose a token.

`PROJECT.json` lists the places in the code where these can go wrong, with the
properties that watch each of them.

## Modules

| module | models | uses |
|---|---|---|
| `Custody` | abstract specification: what every reconciler that keeps a GARM object for a resource promises | |
| `Kubernetes` | what all reconcilers share: API server, informer cache, work queue, one worker, conflicts, requeues, restarts | |
| `PoolController` | the Pool reconciler against Kubernetes and GARM | `Kubernetes`, `Custody` |
| `EntityController` | the organization, repository and enterprise reconcilers, one in each behaviour (`kind`) | `Kubernetes`, `Custody` |
| `ForgeResource` | the endpoint, credentials and template reconcilers, one in each behaviour (`kind`) | `Kubernetes`, `Custody` |
| `DriftCorrection` | the ServerSettings reconciler, and the comparison and update of a pool field by field, one in each behaviour (`kind`) | `Kubernetes` |
| `KubernetesProofs` | lemmas about the steps that all reconcilers share, for any set of resources | `Kubernetes` |
| `PoolControllerProofs`, `PoolCustodyProofs` | theorems about `PoolController` | the second the first |
| `EntityControllerProofs` | theorems about `EntityController` | `KubernetesProofs` |
| `ForgeResourceProofs` | theorems about `ForgeResource` | `KubernetesProofs` |
| `DriftCorrectionProofs` | theorems about `DriftCorrection` | `KubernetesProofs` |
| `RunnerMirrorProofs` | theorems about `RunnerMirror` | `RunnerMirror` |
| `RunnerMirror` | the two workers that keep Runner resources: `syncRunnerMirrors` and the Runner reconciler | |
| `GarmClient` | the client's token, mutex, login and retry | |
| `GarmClientProofs` | theorems about `GarmClient` | `GarmClient` |
| `MCPoolController`, `MCEntityController`, `MCForgeResource`, `MCDriftCorrection`, `MCRunnerMirror`, `MCGarmClient` | instances for TLC | |

The modules meet in three places. `Kubernetes` is the environment of every
reconciler but the mirrors'. `PoolController` takes drift correction and mirror
synchronisation as single steps, whose insides are `DriftCorrection` and
`RunnerMirror`. And `Custody` is implemented by the three modules that keep objects
in GARM.

## Plan

Done: the table above. What is left, in this order:

1. Scopes and pools together: an organization may go before its pools, and GARM
   refuses to delete an entity that still has some (today a failed `Delete`).
2. An abstract call that `GarmClient` implements: what the reconcilers' modules take
   a call of GARM to be.

## Kubernetes

Every reconciler runs as one worker over a queue of names. `cr` is the API server,
`cache` the informer's copy; `stale` names the copies that are behind; `queue` is
the work queue. The worker's program counter `pc` names the remote call it makes
next, `me` is the resource it works on, `obj` is the in-memory copy that the Go
code calls `obj`, with the changes made to it so far, and `fresh` says whether
its `resourceVersion` is still the server's.

`Take` is the beginning of a reconciliation: `r.Get` from the cache and the early
return for a resource that is gone. `Write` is `Update` or `Status().Update`:
success if `fresh`, a conflict if not, or another error, and a requeue in all
cases, which is how every path of every reconciler ends. A write that changes
nothing causes no watch event. `Release` removes the finalizer. `Refresh` is the
watch, `Change` a user's edit, `Restart` the death of the operator, after which
everything is listed afresh.

Disruptions (`Disrupt`) are drawn from one budget, `MaxDisruptions`; `Disruptive`
selects the kinds that a run allows: faults and lost answers, crashes, user
actions, references that come and go, an administrator's edits and deletions in
GARM. The worker, the informer and the runners are not bounded. Delays
(`RequeueAfter`, back-off) are left out: a name that is queued may be taken at any
time.

## PoolController

To the worker, API server and cache of `Kubernetes` it adds GARM's pools and runner
instances (`garm`, `inst`), the pending update `patch`, the runners drain is about to
delete (`todo`) and the scopes that have an id (`scopes`). Each remote call is one
action:

| action | code |
|---|---|
| `Start` | `r.Get` from the cache, deletion and finalizer checks, `resolvePoolScope` and `resolveRunnerTemplate` (which read caches) |
| `AddFinalizer` | `r.Update` with the finalizer; what a full `Update` does to a false `enabled` is part of it (`Defaulted`) |
| `ListPools`, `CreatePool` | `adoptOrCreatePool` |
| `GetPool`, `UpdatePool`, `ClearId` | drift correction, and the 404 that drops the id |
| `SyncInstances` | `ListPoolInstances` and `syncRunnerMirrors`, as success or failure |
| `MarkReady`, `MarkPoolFalse` | the status writes |
| `DrainGet` ... `DrainDelete`, `RemoveFinalizer` | `drain` |
| `CacheSync` | the watch: the cache catches up and the name is queued |
| `ScopeChange` | an organization, repository or enterprise gets or loses its id (`scopeToPools`) |
| `UserCreate`, `UserEdit`, `UserDelete`, `GarmEdit`, `GarmDelete`, `Spawn`, `Advance`, `Reap`, `Crash` | the world |

Every GARM call may fail, and the calls that change GARM may also take effect and
lose their answer. The settings that `poolDiff` compares besides the prefix and
`enabled` are one value, since they are handled alike. `MaxPools` bounds the ids
that GARM hands out.

## EntityController

The three reconcilers are one algorithm, and three Go files:

| action | code |
|---|---|
| `Start` | the deletion and finalizer checks; references: credentials with their endpoint (one value, `settings`, together with the pool balancer), and the webhook Secret when there is no id yet |
| `AddFinalizer` | the write of the finalizer |
| `Create`, `Adopt` | `CreateOrg`, `CreateRepo`, `CreateEnterprise`; on a conflict an organization is looked up by name (`adoptExistingOrg`) |
| `Get`, `Replace`, `Update`, `ClearId` | drift correction; a repository or an enterprise whose name has changed is deleted and its id dropped; the 404 that drops the id |
| `HookInfo`, `HookInstall` | the webhook, which an enterprise does not have |
| `MarkReady`, `MarkFalse` | the status writes |
| `Delete`, `RemoveFinalizer` | deletion |
| `RefChange` | credentials or a Secret come or go (`refToRepos`, `refToEnterprises`, the organization's mappers) |

`Init` chooses `kind`; `Adopts` and `Replaces` say what depends on it. GARM holds one entity of a name:
this is an assumption about GARM (its unique index), see "Not modelled". The endpoint
is taken to be the one of the credentials. The
webhook secret is either the user's (`own`) or a random one: the code never
compares it and sends the user's with every update, so `own` forces `Update`. That
GARM refuses to delete an entity which still has pools appears only as a failed
`Delete`; the composition with pools is planned. Resources are of one kind: a
behaviour has organizations or repositories, never both. `meddled` is a history
variable: an administrator has changed GARM directly, which the code cannot see
before its next pass, so `ReadyMeansApplied` says nothing from then on.

## ForgeResource

Endpoints, credentials and templates have the life cycle of entities with fewer
steps and a Secret. The variable `kind` is chosen by `Init` and says whose
reconciler is at work; the Gitea and GitHub versions are the same.

| action | code |
|---|---|
| `Start` | the deletion and finalizer checks, the endpoint that credentials refer to, the Secret, and what will be asked of GARM (`request`: `desired` in the code), which is not computed again |
| `List` | `adoptOrCreateTemplate`: one match is taken over without a comparison, two are an error |
| `Create`, `Adopt` | the creation; on a conflict an endpoint is taken over and compared, credentials give up |
| `Get`, `Update` | `endpointDrifted`, `templateDiff`; credentials are updated always, for tokens cannot be read back |
| `Drop` | a template for another operating system or forge is deleted; `Create` follows in the same pass, with the old id in the status until the next write |
| `MarkReady`, `MarkFalse`, `ClearId`, `Delete`, `RemoveFinalizer` | as for entities |
| `Rotate`, `EndpointChange` | the Secret, which nobody watches; the endpoint resource, which credentials watch (`endpointToCreds`) |

An endpoint's id is its name, so an old id may come back to life; other ids are
numbers. `shape` is what only a creation sets, `settings` what an update sets. GARM
refuses a second endpoint or second credentials of a name. Of templates nothing is
assumed: the code's own "found %d existing templates" expects that there may be
several. An update without a CA bundle may or may not clear the bundle, because the
request cannot say so (`endpoints.go:97`).

Two things that `Settles` leaves out are limits of the code. Credentials whose
creation was answered by nobody meet their own object as a conflict for ever, like
repositories; so do templates of which GARM holds two alike (`Blocked`). And
credentials do not follow a changed `endpointRef` (`Applied`).

## DriftCorrection

The life cycle is that of `Kubernetes` without creation and deletion; the subject
is data. `desired`, `actual` and `patch` are the worker's: what the spec and its
references ask for, what GARM was seen to hold, and which fields the update sets
(the non-nil fields of `PoolUpdate` and `ServerSettingsUpdate`).

| action | `settings` | `pool` |
|---|---|---|
| `Start` | `r.Get` from the cache | the same; the Pool has its finalizer and its id and nobody deletes it |
| `Resolve` | `resolveServerSettingsCABundle` | `resolveRunnerTemplate`, `resolveTemplateExtraContext`, `buildPoolCreate` with `mergeExtraContext` |
| `Get` | `GetServerSettings`, `serverSettingsDiff` | `GetPool`, `poolDiff` |
| `Update` | `UpdateServerSettings` | `UpdatePool` |
| `MarkReady`, `MarkFalse` | the status writes | the status writes |
| `TemplateChange` | | the RunnerTemplate is edited, replaced under another id or not Ready (`templateToPools`) |
| `SecretChange`, `GarmEdit`, users, `Crash` | the world | the world |

Fields that are treated alike have one representative: `size` stands for the
fields of a pool that are compared and sent as they are (limits, image, flavor,
priority and so on), `url` for the seven settings whose nil means "leave it". Those
with a rule of their own are all there: tags, whose order in GARM is GARM's
(`ApplyPatch` chooses one) and which `tagNames` sorts; extra specs, which may be
absent, not an object, or an object whose `extra_context` the template adds to; the
template, where 0 means "leave it"; the CA bundle, where omission means "clear it".
Keys of extra specs other than `extra_context` pass through and are left out, as
are repeated tags. JSON that means the same is taken to be the same bytes, which
holds if GARM stores what it is sent; if GARM formatted it anew, `bytes.Equal`
(`pool_controller.go:611`) would find a difference for ever. An empty list of tags
replaces the tags that are there, as the comment on `PoolUpdate.Tags` says and the
fake does. `Tags` is finite, since a pool lists finitely many.

`Settles` and `GoesQuiet` leave out, by name, what the code does not settle:

* Two ServerSettings (`Alone`, `Rivals`). Nothing makes the resource unique, and two
  with different values overwrite each other on every pass.
* References that do not resolve. A missing Secret holds up all settings, not just
  the bundle.
* Extra specs that were cleared (`ClearedExtraSpecs`). The update carries the JSON
  `null`; if GARM keeps it, it differs from "nothing" on every pass. `Settles` still
  says that the context is gone.
* A template reference that was dropped: GARM's pool keeps the template, since 0 is
  never sent.

## Custody

`Custody` says what the three modules that keep GARM objects have in common, with
three variables: the resources that cannot go away without the operator
(`guarded`: those with the finalizer, `Kubernetes!Guarded`), the object each has on
record (`recorded`: `status.id`), and the objects that GARM holds (`alive`). An
object is made only while some guarded resource has no living object on record; a
record is replaced, or a guard given up, only when the object on record is gone;
objects may disappear at any time. `PoolController`, `EntityController` and
`ForgeResource` each instantiate it as `GarmCustody`, and their property
`KeepsCustody` is that every behaviour is one of `Custody`. Everything else the
reconcilers do, cached copies, retries, lost answers, is stuttering.

What `Custody` does not promise is that an object which was made is ever recorded:
the code does not either (`pool_orphan`, `entity_stuck`).

## RunnerMirror

Two workers on one set of Runner resources, so this module has its own version of
what `Kubernetes` does for one: `fresh` is the set of workers whose copy has the
API server's version, and a write by either outdates the other's copy (`Store`).

| action | code |
|---|---|
| `PoolStart`, `PoolList` | the Pool reconciler arrives at `ListPoolInstances` |
| `PoolGet`, `PoolCreate`, `PoolStatus` | the loop of `syncRunnerMirrors` over the listed instances |
| `PoolSweepList`, `PoolSweep` | its deletion of the pool's other mirrors |
| `PoolEnd` | the Pool's status write, `Ready` or `markPoolFalse` |
| `RunnerStart`, `RunnerList`, `RunnerStatus`, `RunnerFalse`, `RunnerDelete` | `RunnerReconciler.Reconcile` |
| `CacheSync`, `PoolSync` | the watches (`poolToRunners`) |
| `UserCreate`, `UserDelete`, `PoolGone`, `Collect`, `Live`, `Crash` | users, drained pools, garbage collection, instances, restarts |

`MirrorName` and `PlainName` are constants: the name that `runnerMirrorName` gives
and the uncut label that `runnerMatchesInstance` compares with. For short names
they are the same. A deletion carries neither version nor uid and takes what has
the name at that moment. `PoolController` has all of `syncRunnerMirrors` as one
step that fails only in a fault; `MirrorsSettle` says why that is right in the
end: the conflicts between the workers stop.

## GarmClient

A caller goes through `call` and, after a 401, `refreshAuth`: `AuthInfo` reads the
token under the mutex, `Invoke` is the request, `Lock`, `Login` and `Store` are the
refresh, with the mutex held across the login. Tokens are numbered as GARM issues
them; `Revoke` ends the oldest ones, or all. `lapsed` is a history variable: the
callers since whose login a token was revoked.

## Runs

| run | instance | shows |
|---|---|---|
| `pool_lifecycle` | one Pool, two settings, one runner, three disruptions of every kind, a left-over pool in GARM, fairness | `TypeOK`, `FinalizerInv`, `CreateOnlyUnderFinalizer`, `RecordedPoolGoesFirst`, `AtMostOnePool`, `NeverForgotten`, `KeepsCustody`, `DeletionCompletes`, `Converges` |
| `pool_pair` | two Pools with prefixes of their own, one runner, three disruptions | `NoStrandedRunner`, `NoSharedPool`, `DeletesOnlyOnRequest`, `IdentityInv` |
| `pool_orphan` | one Pool, two user actions | the code violates `NoOrphanedPool` |
| `pool_enabled` | one Pool created switched off | the code violates `SpecIsTheUsers` |
| `drift_correction` | one Pool with a template, or two ServerSettings; two values, two tags, two keys, three states of the template, a Secret with every content, two disruptions of every kind, fairness | `TypeOK`, `NoDowntime`, `OneUpdateIsEnough`, `Settles`, `GoesQuiet` |
| `entities` | two organizations with names of their own, the first with two settings, or two repositories, the first with two names, one of which is the second's, and with a webhook secret under the other; two disruptions of every kind, fairness | `TypeOK`, `FinalizerInv`, `ReadyMeansAppliedUnlessAdopted`, `NoSharedEntity`, `DeletesOnlyItsOwn`, `KeepsCustody`, `DeletionCompletes`, `AdoptionConverges` |
| `entity_stuck` | one repository, one edit | the code violates `Converges` |
| `entity_renamed` | one organization, one edit | the code violates `ReadyMeansApplied` |
| `forge_resources` | one endpoint, credentials or template with three specs, two contents of its Secret, a left-over object in GARM, three disruptions of every kind, fairness | `TypeOK`, `FinalizerInv`, `RecordInv`, `KeepsCustody`, `DeletionCompletes`, `Settles` |
| `runner_mirrors` | one pool, an instance that changes its status at will, a Runner made by hand, one disruption, fairness | `TypeOK`, `MirrorInv`, `LiveMirrorsStay`, `MirrorsSettle` |
| `runner_names` | one pool, two instances with one mirror name, no disruption | the code violates `MirrorsSettle` |
| `garm_client` | two callers, three revocations or failed logins, fairness | `TokenInv`, `RetryIsFresh`, `NeverBackwards`, `EveryCallEnds` |

The shortest failures that the code has (below) need one or two disruptions, so
two or three leave room for combinations. Ids suffice for every creation that the
disruptions can cause. An enterprise is a repository without a webhook and has
no run of its own. Mirrors with different names meet only in the order in which
they are synchronised, which is why `runner_mirrors` follows one. Deadlock is not checked because a system without resources
rightly has nothing to do.

In `entities` the two repositories compete for a name. The replacement of the first
one deletes by an id that it read long before, while the second one has an entity,
or comes to have one, under the name that the first one wants; a repository that
adopted in such a case, as organizations do, would go on to destroy the other's
entity, which is the mutant that `DeletesOnlyItsOwn` is checked with. Organizations
are edited but not renamed (`entity_renamed` shows why) and keep their names to
themselves: of one name, the second adopts the first one's entity. The run has no entity
that an administrator left in GARM before the operator came: to the reconcilers it is
the same as one whose creation lost its answer, and that an administrator has edited
since. The theorems allow for any (`Preexisting`). Four ids are enough: no
creation in this run waits for a fifth.

`AtMostOnePool`, `NoSharedPool` and `DeletesOnlyOnRequest` hold because in those
runs a Pool keeps its scope and prefix and shares them with no other. The chart
sees to that (the prefix is the resource's name); the CRD does not, and with a
shared or reused prefix two Pools drain each other's runners.
`NoStrandedRunner` assumes that nobody re-enables a pool in GARM while it is
being drained (`pool_pair` has no `garmEdit`; the theorem says `~Reenabled`). `ReadyMeansAppliedUnlessAdopted` and
`AdoptionConverges` divide the entities between them: a repository is Ready only
when GARM holds what it asks for, but may never get there; an organization may say
so too early, but gets there in the end.

In `drift_correction` two values, tags and keys are enough for every way in which
two sides can agree or differ on a field; two disruptions are one that causes drift
and one that hits its correction, and the initial states, which may have drifted
in every field already, save a third.

## Fairness

`FairSpec` assumes that the worker goes on with the reconciliation it has begun
(weak fairness on `Work`), that a name which keeps coming back to the queue is
served (strong fairness on `Start(p)`, the queue being first-in first-out), that
the informer catches up, and that runners finish installing and finish their
jobs. Nothing is assumed of waiting runners: those leave only because drain
deletes them. The entity, forge resource, drift correction and runner modules assume the same of their workers,
queues and informers (a Pool is requeued after every reconciliation, so
`PoolStart` is always due). `GarmClient` assumes that GARM answers, which no
deadline in the code enforces, and that a mutex starves nobody. Disruptions are bounded, so liveness says what happens once they
stop.

## What the code does not do

1. **An orphaned GARM pool** (`pool_orphan`). The id of a new pool is recorded
   by the last write of the reconciliation. If the Pool is deleted before that
   write, it conflicts; the next reconciliation finds a Pool being deleted with
   an empty id, and `drain` releases it at once (`pool_controller.go:297`). The
   GARM pool stays, enabled.
2. **A disabled Pool is switched on** (`pool_enabled`). `enabled` is
   `omitempty` with default true, so the full `Update` that adds the finalizer
   (`pool_controller.go:81`) turns false into true.
3. **A repository that conflicts with itself** (`entity_stuck`). Repositories and
   enterprises are created without an attempt to adopt. A single edit between
   `CreateRepo` and the status write makes that write conflict; the id is lost and
   every retry meets GARM's conflict.
4. **A rename that is reported but not made** (`entity_renamed`). The organization
   reconciler does not compare the name (`giteaorganization_controller.go:123`).

5. **Mirrors that share a name** (`runner_names`). `runnerMirrorName` cuts names at
   63 bytes (`pool_controller.go:459`). Since the chart makes the prefix the pool's
   name, the instances of a pool whose name has 31 or more characters have one
   mirror between them; and a mirror with a cut name is unknown to
   `runnerMatchesInstance` until it has its first status.

A pool that is adopted is not compared with the spec before `Ready` and
`observedGeneration` are set (`pool_controller.go:96`, `135`). The next drift
correction repairs it, which `Converges` confirms.

## Proofs

Every safety property that a run checks is also a theorem, for every value of the
constants that satisfies the named assumptions of the module it is about (sets of
resources, instances and ids of any size, any bound on disruptions, any wishes of
users), and from the further hypotheses that are named below.

### Pools

`PoolControllerProofs` proves:

* `TypeCorrect`: `Spec => []TypeOK`.
* `FinalizerInvariant`: `Spec => [](TypeOK /\ FinalizerInv)`.
* `FinalizerBeforeCreation`: `Spec => CreateOnlyUnderFinalizer`.
* `DrainBeforeRelease`: `Spec => RecordedPoolGoesFirst`.
* `QueueComplete`: `Spec => []NeverForgotten`.
* `DeletionInvariant`: `Spec => []DeletionInv`.
* `RunnersKeepTheirPool`: `Spec /\ [][~Reenabled]_vars => []NoStrandedRunner`.

The difficulty of the second, third and fourth is that the worker acts on copies that may be
arbitrarily old. `FinalizerInv` says what such copies are still good for: only
the worker removes finalizers, and it does so only with a fresh copy of a Pool
being deleted; at that moment the cache already shows the deletion, and the
cache never goes back. So a cached copy with the finalizer that is not being
deleted, however old, implies that the Pool is there with its finalizer
(`CachedFinalizerHolds`), and so does a reconciliation that has passed the
finalizer check (`ReconcileUnderFinalizer`). In the same way `unfinalize` is
reached only with an id that GARM does not know (`ReleasesNothing`).
`NeverForgotten` is inductive relative to it: the only return of `Reconcile`
without a requeue from a Pool that exists is one with a stale cache, and then
the watch still owes an event.

`NoStrandedRunner` needs to know that between the moment drain sees the pool disabled
and the moment it deletes the pool no runner comes into being: GARM starts none in a
disabled pool, so that what `drainDelete` found empty stays empty (`DrainInv`). An
administrator who enables the pool again in between defeats this, and the operator
cannot see it; `Reenabled` is exactly that step, and the theorem is about behaviours
without it. `DeletionInv` is about copies that show a deletion: the Pool they are
of is still being deleted, or it has gone and the Pool that has its name now has
nothing on record.

`PoolCustodyProofs` proves first what adoption achieves, for every value of the
constants under which users leave the scope and the prefix of a Pool as they are
(`StableIdentities`):

* `IdentityInvariant`: `Spec => [](TypeOK /\ IdentityInv)`.
* `AdoptionFindsThePool`: `Spec => []AtMostOnePool`.
* `PoolsAreNotShared`: `Spec => []NoSharedPool`, if moreover no two Pools may have
  the same scope and prefix (`DistinctIdentities`).
* `DeletionIsRequested`: `Spec => DeletesOnlyOnRequest`, under the same two.

`AtMostOnePool` is not inductive: a create must know that nothing has come into
being since the list, and that drift correction, working from an old id and an
old spec, renames no pool into the way. `IdentityInv` therefore says of every copy
of a Pool (the server's, the cache's, the worker's) that it has a scope and prefix
its user may ask for, and that the GARM pool it records, if it lives, has them too.
Then the prefix is never in a patch, all steps but the create only change or delete
pools without touching their identity (`Narrows`, `IdentityFrame`), and the create
is the one step left to consider. Both assumptions are needed: without them
`NoSharedPool` and `DeletesOnlyOnRequest` fail. The latter joins two arguments: a pool
that drain deletes is on record for no Pool but the one it drains (`IdentityInv`: the
pool's scope and prefix are that Pool's), and that one is being deleted, or has
nothing on record yet (`DeletionInv`).

Then, again under `StableIdentities`, that the detailed specification implements the
abstract one:

* `RecordInvariant`: `Spec => []RecordInv`.
* `PoolKeepsCustody`: `Spec => KeepsCustody`.

Each action maps to one action of `Custody` or to a stutter. Three need more than
`FinalizerInv`. A creation must happen while the recorded pool, of which the
worker's old copy may know nothing, is gone: if it lived, adoption would have found
it by its scope and prefix (`IdentityInv`). A status write that succeeds, with an id
the worker adopted or created or dropped, must replace the id of no living pool
(`RecordInv`: as long as the copy would still be accepted, its id is the recorded
one or the recorded pool is gone). And a finalizer goes only with an id that GARM
does not know. Without `StableIdentities` the theorem is false: a Pool whose prefix
is changed between a conflicting write and the next list creates a second pool.

### Organizations, repositories, enterprises; endpoints, credentials, templates

`KubernetesProofs` has the part of these proofs that is the same for all: each step of
`Kubernetes` keeps `KubeType` and `KubeInv`, the first two claims about old copies
above, makes no copy but those it should (`TakeCopies` and so on), and changes the
resources that `Custody` sees in the way that one resource's write says
(`RecordsOf`). The other two modules say which of these steps each of their actions is.

| theorem | `EntityControllerProofs` | `ForgeResourceProofs` |
|---|---|---|
| `TypeCorrect` | `Spec => []TypeOK` | `Spec => []TypeOK` |
| `FinalizerInvariant` | `Spec => []FinalizerInv` | `Spec => []FinalizerInv` |
| `RecordInvariant` | `Spec => []RecordInv` | `Spec => []RecordInv` |
| `EntityKeepsCustody`, `ForgeKeepsCustody` | `Spec => KeepsCustody` | `Spec => KeepsCustody` |
| `OwnershipInvariant` | `Spec => []OwnershipInv` | |
| `ReadyInvariant` | `Spec => []ReadyInv` | |
| `EntitiesNotShared` | `Spec => []NoSharedEntity`, if `DistinctOrganizations` | |
| `EntityDeletesOnlyItsOwn` | `Spec => DeletesOnlyItsOwn`, if `DistinctOrganizations` | |
| `ReadyIsApplied` | `Spec => []ReadyMeansAppliedUnlessAdopted` | |

No assumption about names is needed for custody here, as it was for pools: GARM's
unique index does what adoption by scope and prefix does there. `RecordInv` carries
the argument: a copy without an id, however old, has the name under which the entity
on record is in GARM, so that a second creation is refused. Of templates no
refusal is assumed, and `CachedTemplates` must say instead that whoever finds no id
in the cache finds the template on record by its shape when it lists. A template
that is dropped and made again in one pass is the case in which the worker's id is
already gone while the recorded one still shows it (`CopyRecord`).

`DistinctOrganizations` says that no two organizations may ever ask for one name in
the forge. The CRDs do not enforce it; without it the second one adopts the first
one's entity, and both theorems are false. Nothing of the kind is assumed of
repositories and enterprises: these never adopt, so that no two copies of different
ones ever show one id (`IdsApart`). `ReadyInv` follows a repository through
`Get`, `Update` and the webhook: each call leaves a part of what `Ready` claims done
(`CallsLeaveDone`), until an administrator meddles; and when a resource is Ready at
its generation no older copy of it is about (`CurrentCopies`).

### Drift correction

`DriftCorrectionProofs` proves:

* `TypeCorrect`: `Spec => []TypeOK`, in which is said that what is sent is a
  request whose references were resolved, and that merged extra specs are extra specs.
* `UpdatesOnlyWhatDiffers`: `Spec => NoDowntime`.
* `OneUpdateSuffices`: `Spec => OneUpdateIsEnough`.
* `ComparisonIsExact`: for all values a field can have, `Differs` finds it exactly if
  the resource sets it and GARM's value is another.

What makes these more than a look at the definition is tags. `tagNames` chooses the
sorted list of them; that there is one for every finite set (`SortedListExists`, by
the rank of each tag and a count), that GARM's order of the same tags gives the same
list, and that a permuted list has the same tags (`ListOf`) are counting arguments
about finite sets.

### Runner mirrors

`RunnerMirrorProofs` proves, for any number of pools and instances:

* `TypeCorrect`: `Spec => []TypeOK`.
* `MirrorInvariant`: `Spec => []MirrorInv`, if `NamesFit`.
* `RunningMirrorsStay`: `Spec => LiveMirrorsStay`, if `NamesFit`.

`NamesFit` says that no mirror name is cut, none is shared and nobody makes a Runner
by hand under such a name; `runner_names` shows what happens otherwise. Both workers
delete by lists that may be arbitrarily old. `PoolWorkerHolds` says why the Pool
worker does no harm: an instance that started after its list was taken has no
mirror anywhere, not even on a copy, until that worker itself lists it, because the
Runner worker creates none. `RunnerWorkerHolds` says it of the Runner worker: the
copy in its hands shows that the instance was started once (`MirrorsHold`), so that if
GARM does not list it, or its Pool, which goes last, is gone (`PoolsGoLast`), then so is
the instance, for good.

### The client

`GarmClientProofs` proves, for any number of callers:

* `TokenInvariant`: `Spec => []TokenInv`.
* `TokensMoveForward`: `Spec => NeverBackwards`.
* `RetryUsesAFreshToken`: `Spec => []RetryIsFresh`.

`TokenInv` has two parts. `MutexOrder` says that only the holder of the mutex is
between its login and its store, and that the token it carries is newer than the
client's, which is `NeverBackwards`. `GoodToken` follows a caller from its login to
the end of its retry: another caller may have replaced the token it stored, but
only by one from a later login. For this to be inductive a revocation that still
counts against the caller which is about to store must count against those that
are about to read.

### Only model-checked

The liveness properties (`DeletionCompletes`, `Converges`, `AdoptionConverges`,
`Settles`, `GoesQuiet`, `MirrorsSettle`, `EveryCallEnds`): the prover does not reason
about fairness and `ENABLED`. And the properties that the code violates, which only TLC
can show.

## Not modelled

* **Two operators at once.** The chart elects a leader by default; the flag's own
  default is off (`cmd/main.go:71`). One worker per controller is assumed
  throughout, and that a call which has not been answered takes effect soon or
  never: a deposed leader's creation that reaches GARM after its successor has
  listed the pools would make two.
* **Several namespaces.** Names in GARM carry none; the chart's default scope is one
  namespace.
* **GARM and Kubernetes** are external and modelled by what the code relies on. What
  GARM does with an id it does not know or a field that is not set is read from
  `garmclient/fake/fake.go`, the repository's own statement of it, where that says
  something; where it does not, both outcomes are possible. About names that are
  taken the model departs from it. The fake answers a second endpoint or
  organization of a name with the 409 that `IsConflict` looks for (`errors.go:36`),
  and so does the model. It accepts second repositories, enterprises and
  credentials, and refuses a second template of a name, operating system and forge.
  The model takes it that GARM keeps repositories, enterprises and credentials
  unique by name, like organizations, and assumes nothing of templates. `RecordInv` and
  `KeepsCustody` of entities and credentials, and `entity_stuck`, rest on this
  assumption: a GARM that accepted duplicates would make a second repository where
  the model has a conflict without end.
* **Left out of what is modelled.**
  * A Kubernetes write that takes effect and loses its answer. It ends the
    reconciliation with a requeue, as a write that succeeds does in the model.
  * Lost answers of the Runner reconciler's status writes and deletions. A failed one
    is repeated by the next pass, and so is one that took effect, which finds nothing
    left to do.
  * A webhook that is there already when GARM is asked to install it, which the fake
    refuses. The worker has just asked, and found none; a refusal is among the faults.
  * The name of a template, when an administrator edits it in GARM. The rest of a
    template may be edited.
  * A Pool with the JSON `null` for extra specs and a template with extra context:
    `mergeExtraContext` would write into a nil map (`pool_controller.go:542`).
  * Several instances with short names in `runner_mirrors`; instances whose names are
    cut are the subject of `runner_names`.
* **For good:** Helm templates and CRD manifests (declarative; the one default that
  matters is in `Defaulted`), generated deepcopy code, flags, TLS and metrics of the
  manager, the client's configuration from the environment, and the JSON shapes of
  requests.
