---------------------------- MODULE ForgeResource ----------------------------
(***************************************************************************)
(* The reconcilers of endpoints, credentials and runner templates            *)
(* (operator/internal/controller/giteaendpoint_controller.go and its GitHub  *)
(* twin, giteacredentials_controller.go and its twin,                        *)
(* runnertemplate_controller.go).  A behaviour is one of them at work:       *)
(* `kind' says which.  They differ in how they meet an object that GARM      *)
(* already has under the resource's name: an endpoint is taken over, a       *)
(* template is looked for before it is created, credentials give up.         *)
(***************************************************************************)
EXTENDS Kubernetes

CONSTANTS
  Kinds,            \* among "endpoint", "credentials" and "template"
  Shapes,           \* what only creation sets: the operating system and forge
                    \* of a template, the endpoint of credentials
  Settings,         \* what an update sets: URLs, description, script
  Secrets,          \* contents of the CA bundle or access token
  Wanted,           \* Wanted[k]: the specs users may give to a resource of kind k
  Preexisting,      \* objects an administrator may have left in GARM
  MaxObjects        \* bound: numbers GARM hands out as ids

\* sealed: the resource refers to a Secret.
ResourceSpec == [shape : Shapes, settings : Settings, sealed : BOOLEAN]

\* What the worker asks GARM for.
Request == [shape : Shapes, settings : Settings, secret : Secrets \cup {Absent}]

GarmObject == [name : Names, shape : Shapes, settings : Settings,
               secret : Secrets \cup {Absent}]

\* GARM knows an endpoint by its name and everything else by a number.
Ids == Names \cup (1 .. MaxObjects)

Resource == [spec : ResourceSpec, deleting : BOOLEAN, finalizer : BOOLEAN,
             id : Ids \cup {NoId}, ready : BOOLEAN, current : BOOLEAN]

ASSUME MaxObjectsAssumption == MaxObjects \in Nat
ASSUME KindsAssumption == Kinds \subseteq {"endpoint", "credentials", "template"}
ASSUME WantedAssumption == Wanted \in [Kinds -> SUBSET ResourceSpec]
ASSUME PreexistingAssumption == Preexisting \subseteq GarmObject
ASSUME AbsentAssumption ==
  Absent \notin Resource /\ Absent \notin GarmObject /\ Absent \notin Secrets /\ Absent \notin Request
ASSUME NamesAssumption == Names \cap (0 .. MaxObjects) = {}

VARIABLES
  kind,     \* the kind of the resources; never changes
  request,  \* what the worker asks for, computed when it took the name
  secret,   \* the content of the Secret
  refs,     \* endpoint resources that have an id, as the cache shows them
  garm,     \* GARM's objects
  minted    \* number of ids GARM has handed out

world == <<kind, secret, refs>>
garmVars == <<garm, minted>>
vars == <<cr, cache, stale, queue, pc, me, obj, fresh, budget, kind, request,
          secret, refs, garm, minted>>

ReconcileSteps == {"finalize", "create", "list", "adopt", "get", "drop", "update",
                   "ready", "false", "clear"}
DeleteSteps == {"delete", "unfinalize"}

TypeOK ==
  /\ KubeType(Resource)
  /\ pc \in {"idle"} \cup ReconcileSteps \cup DeleteSteps
  /\ request \in IF pc = "idle" THEN {Absent} ELSE Request
  /\ kind \in Kinds
  /\ secret \in Secrets \cup {Absent}
  /\ refs \subseteq Shapes
  /\ garm \in [Ids -> GarmObject \cup {Absent}]
  /\ minted \in 0 .. MaxObjects

-----------------------------------------------------------------------------
NewResource(spec) ==
  [spec |-> spec, deleting |-> FALSE, finalizer |-> FALSE, id |-> NoId,
   ready |-> FALSE, current |-> FALSE]

Live(i) == i \in Ids /\ garm[i] # Absent
Named(n) == {i \in Ids : Live(i) /\ garm[i].name = n}

Init ==
  /\ kind \in Kinds
  /\ cr \in [Names -> {Absent} \cup {NewResource(s) : s \in Wanted[kind]}]
  /\ cache = cr /\ stale = {} /\ queue = {n \in Names : Exists(n)}
  /\ pc = "idle" /\ me = Nobody /\ obj = Absent /\ fresh = FALSE /\ request = Absent
  /\ budget = MaxDisruptions
  /\ secret \in Secrets \cup {Absent} /\ (kind = "template" => secret = Absent)
  /\ refs \in SUBSET Shapes /\ (kind # "credentials" => refs = {})
  /\ \/ minted = 0 /\ garm = [i \in Ids |-> Absent]
     \/ /\ kind = "endpoint" /\ minted = 0
        /\ \E g \in Preexisting : garm = [i \in Ids |-> IF i = g.name THEN g ELSE Absent]
     \/ /\ kind # "endpoint" /\ minted = 1 /\ MaxObjects >= 1
        /\ \E g \in Preexisting : garm = [i \in Ids |-> IF i = 1 THEN g ELSE Absent]

-----------------------------------------------------------------------------
(* Reconcile                                                                *)

\* Credentials need an endpoint that has an id; the Secret must be there.
Resolvable(spec) ==
  /\ kind = "credentials" => spec.shape \in refs
  /\ spec.sealed => secret # Absent

\* Mutant of FirstStep: the finalizer is added only once there is an id to guard.
FirstStepLateFinalizer(o) ==
  CASE o.deleting -> IF o.id = NoId THEN "unfinalize" ELSE "delete"
    [] ~o.deleting /\ ~o.finalizer /\ o.id # NoId -> "finalize"
    [] OTHER -> IF ~Resolvable(o.spec) THEN "false"
                ELSE IF o.id # NoId THEN "get"
                ELSE IF kind = "template" THEN "list" ELSE "create"

FirstStep(o) ==
  CASE o.deleting -> IF o.id = NoId THEN "unfinalize" ELSE "delete"
    [] ~o.deleting /\ ~o.finalizer -> "finalize"
    [] ~o.deleting /\ o.finalizer ->
         IF ~Resolvable(o.spec) THEN "false"
         ELSE IF o.id # NoId THEN "get"
         ELSE IF kind = "template" THEN "list" ELSE "create"

\* The Secret is read once; creation and update use what was read.
Asked(spec) == [shape |-> spec.shape, settings |-> spec.settings,
                secret |-> IF spec.sealed THEN secret ELSE Absent]

\* Mutant of Start: a resource that is not found is reconciled all the same.
StartNotFound(n) ==
  /\ pc = "idle" /\ n \in queue
  /\ queue' = queue \ {n}
  /\ pc' = IF cache[n] = Absent THEN "finalize" ELSE FirstStep(cache[n])
  /\ me' = n /\ obj' = cache[n] /\ fresh' = (n \notin stale)
  /\ request' = IF cache[n] = Absent THEN Absent ELSE Asked(cache[n].spec)
  /\ UNCHANGED <<cr, cache, stale, budget, world, garmVars>>

Start(n) ==
  /\ Take(n, FirstStep(cache[n]))
  /\ request' = IF Finished(cache[n]) THEN request ELSE Asked(cache[n].spec)
  /\ UNCHANGED <<world, garmVars>>

Forget == request' = Absent

Commit(o) == Write(o) /\ Forget /\ UNCHANGED <<world, garmVars>>

AddFinalizer ==
  /\ pc = "finalize"
  /\ Commit([obj EXCEPT !.finalizer = TRUE])

\* Templates of the name, operating system and forge that are asked for.
Matches(n, shape) == {i \in Named(n) : garm[i].shape = shape}

\* adoptOrCreateTemplate: one match is taken over as it is; the next
\* reconciliation brings it up to date.
List ==
  /\ pc = "list"
  /\ \/ \E i \in Ids : /\ Matches(me, request.shape) = {i}
                       /\ obj' = [obj EXCEPT !.id = i]
                       /\ Goto("ready") /\ UNCHANGED budget
     \/ Matches(me, request.shape) = {} /\ Goto("create") /\ UNCHANGED <<obj, budget>>
     \/ /\ \A i \in Ids : Matches(me, request.shape) \notin {{}, {i}}
        /\ Goto("false") /\ UNCHANGED <<obj, budget>>
     \/ Disrupt("fault") /\ Goto("false") /\ UNCHANGED obj
  /\ UNCHANGED <<kube, request, world, garmVars>>

NewId == IF kind = "endpoint" THEN me ELSE minted + 1

\* GARM refuses a second endpoint or second credentials of a name; of templates
\* nothing is assumed.
Mint ==
  /\ Named(me) = {} \/ kind = "template"
  /\ kind = "endpoint" \/ minted < MaxObjects
  /\ minted' = IF kind = "endpoint" THEN minted ELSE minted + 1
  /\ garm' = [garm EXCEPT ![NewId] =
                [name |-> me, shape |-> request.shape,
                 settings |-> request.settings, secret |-> request.secret]]

AfterConflict == IF kind = "endpoint" THEN "adopt" ELSE "false"

\* The call succeeds, meets an object of that name, is refused, or takes effect
\* and its answer is lost.  A template that is being replaced keeps its old id
\* until the new one is known.
Create ==
  /\ pc = "create"
  /\ \/ /\ Mint /\ obj' = [obj EXCEPT !.id = NewId]
        /\ Goto("ready") /\ UNCHANGED budget
     \/ Named(me) # {} /\ Goto(AfterConflict) /\ UNCHANGED <<obj, budget, garmVars>>
     \/ Disrupt("fault") /\ Goto("false") /\ UNCHANGED <<obj, garmVars>>
     \/ Disrupt("fault") /\ Mint /\ Goto("false") /\ UNCHANGED obj
  /\ UNCHANGED <<kube, request, world>>

\* endpointDrifted, templateDiff.  Secrets of credentials cannot be read back:
\* credentials are updated every time.
Drifted(g) == g.settings # request.settings \/ g.secret # request.secret

\* Mutant of NeedsUpdate: credentials, too, are compared by what can be read.
NeedsUpdateReadable(g) ==
  g.settings # request.settings \/ (kind = "endpoint" /\ g.secret # request.secret)

NeedsUpdate(g) == kind = "credentials" \/ Drifted(g)

Compare(g) == IF NeedsUpdate(g) THEN "update" ELSE "ready"

\* The endpoint that was in the way of Create.
Adopt ==
  /\ pc = "adopt"
  /\ \/ Live(me) /\ obj' = [obj EXCEPT !.id = me] /\ Goto(Compare(garm[me])) /\ UNCHANGED budget
     \/ ~Live(me) /\ Goto("false") /\ UNCHANGED <<obj, budget>>
     \/ Disrupt("fault") /\ Goto("false") /\ UNCHANGED obj
  /\ UNCHANGED <<kube, request, world, garmVars>>

\* An endpoint has no other shape, and the endpoint of credentials is not compared.
AfterGet(g) ==
  IF kind = "template" /\ g.shape # request.shape THEN "drop" ELSE Compare(g)

Get ==
  /\ pc = "get"
  /\ \/ /\ ~Live(obj.id) /\ obj' = [obj EXCEPT !.id = NoId]
        /\ Goto("clear") /\ UNCHANGED budget
     \/ Live(obj.id) /\ Goto(AfterGet(garm[obj.id])) /\ UNCHANGED <<obj, budget>>
     \/ Disrupt("fault") /\ Goto("false") /\ UNCHANGED obj
  /\ UNCHANGED <<kube, request, world, garmVars>>

Erase == garm' = [garm EXCEPT ![obj.id] = Absent]

\* Mutant of Drop: the template of the old shape is left behind.
DropKeeps ==
  /\ pc = "drop"
  /\ Goto("create") /\ UNCHANGED <<kube, obj, request, world, garmVars, budget>>

\* A template for another operating system or forge makes way for a new one.
Drop ==
  /\ pc = "drop"
  /\ \/ Erase /\ Goto("create") /\ UNCHANGED budget
     \/ Disrupt("fault") /\ Goto("false") /\ UNCHANGED garm
     \/ Disrupt("fault") /\ Erase /\ Goto("false")
  /\ UNCHANGED <<kube, obj, request, world, minted>>

\* Whether an update without a bundle clears the bundle is up to GARM: the
\* update has no way to say that it should.
ApplyUpdate ==
  /\ Live(obj.id)
  /\ \E x \in IF request.secret = Absent THEN {Absent, garm[obj.id].secret} ELSE {request.secret} :
       garm' = [garm EXCEPT ![obj.id].settings = request.settings, ![obj.id].secret = x]

Update ==
  /\ pc = "update"
  /\ \/ ApplyUpdate /\ Goto("ready") /\ UNCHANGED budget
     \/ ~Live(obj.id) /\ Goto("false") /\ UNCHANGED <<garm, budget>>
     \/ Disrupt("fault") /\ Goto("false") /\ UNCHANGED garm
     \/ Disrupt("fault") /\ ApplyUpdate /\ Goto("false")
  /\ UNCHANGED <<kube, obj, request, world, minted>>

MarkReady == pc = "ready" /\ Commit([obj EXCEPT !.ready = TRUE, !.current = TRUE])

MarkFalse == pc = "false" /\ Commit([obj EXCEPT !.ready = FALSE])

ClearId == pc = "clear" /\ Commit(obj)

-----------------------------------------------------------------------------
(* Deletion                                                                 *)

\* Mutant of Delete: a failed deletion is only logged.
DeleteLogged ==
  /\ pc = "delete"
  /\ \/ Erase /\ UNCHANGED budget
     \/ Disrupt("fault") /\ UNCHANGED garm
  /\ Goto("unfinalize")
  /\ UNCHANGED <<kube, obj, request, world, minted>>

\* Mutant of Delete: an object that is gone already is an error.
DeleteStrict ==
  /\ pc = "delete"
  /\ \/ /\ Live(obj.id) /\ Erase
        /\ Goto("unfinalize") /\ UNCHANGED <<kube, obj, request, budget>>
     \/ /\ ~Live(obj.id) /\ Requeue /\ Forget /\ UNCHANGED <<cr, cache, stale, garm, budget>>
     \/ /\ Disrupt("fault") /\ Requeue /\ Forget
        /\ (Erase \/ UNCHANGED garm) /\ UNCHANGED <<cr, cache, stale>>
  /\ UNCHANGED <<world, minted>>

\* A failed deletion ends the reconciliation with an error.
Delete ==
  /\ pc = "delete"
  /\ \/ Erase /\ Goto("unfinalize") /\ UNCHANGED <<kube, obj, request, budget>>
     \/ /\ Disrupt("fault") /\ Requeue /\ Forget
        /\ (Erase \/ UNCHANGED garm) /\ UNCHANGED <<cr, cache, stale>>
  /\ UNCHANGED <<world, minted>>

RemoveFinalizer ==
  pc = "unfinalize" /\ Release /\ Forget /\ UNCHANGED <<world, garmVars>>

Work ==
  \/ AddFinalizer \/ List \/ Create \/ Adopt \/ Get \/ Drop \/ Update
  \/ MarkReady \/ MarkFalse \/ ClearId \/ Delete \/ RemoveFinalizer
-----------------------------------------------------------------------------
(* The world around the worker.                                             *)

CacheSync(n) == Refresh(n) /\ UNCHANGED <<request, world, garmVars>>

Touch(n, o) == Change(n, o) /\ UNCHANGED <<request, world, garmVars>>

UserCreate(n) == ~Exists(n) /\ \E s \in Wanted[kind] : Touch(n, NewResource(s))

UserEdit(n) ==
  /\ Exists(n)
  /\ \E s \in Wanted[kind] : /\ s # cr[n].spec
                             /\ Touch(n, [cr[n] EXCEPT !.spec = s, !.current = FALSE])

UserDelete(n) == Exists(n) /\ ~cr[n].deleting /\ Touch(n, Deleted(cr[n]))

\* The Secret is created, changed or deleted.  Nobody watches it; templates have
\* none.
Rotate ==
  /\ kind # "template" /\ Disrupt("refs")
  /\ secret' \in (Secrets \cup {Absent}) \ {secret}
  /\ UNCHANGED <<kube, pc, me, obj, fresh, kind, request, refs, garmVars>>

\* An endpoint resource gets or loses its id; endpointToCreds queues the
\* credentials that name it.
EndpointChange(x) ==
  /\ kind = "credentials" /\ Disrupt("refs")
  /\ refs' = IF x \in refs THEN refs \ {x} ELSE refs \cup {x}
  /\ queue' = queue \cup {n \in Names : cache[n] # Absent /\ cache[n].spec.shape = x}
  /\ UNCHANGED <<cr, cache, stale, pc, me, obj, fresh, kind, request, secret, garmVars>>

\* The administrator changes or deletes an object in GARM directly.
GarmEdit(i) ==
  /\ Live(i) /\ Disrupt("garmEdit")
  /\ \E v \in Settings : garm' = [garm EXCEPT ![i].settings = v]
  /\ UNCHANGED <<kube, pc, me, obj, fresh, request, world, minted>>

GarmDelete(i) ==
  /\ Live(i) /\ Disrupt("garmDelete")
  /\ garm' = [garm EXCEPT ![i] = Absent]
  /\ UNCHANGED <<kube, pc, me, obj, fresh, request, world, minted>>

Crash == Restart /\ Forget /\ UNCHANGED <<world, garmVars>>

Environment ==
  \/ \E n \in Names : CacheSync(n) \/ UserCreate(n) \/ UserEdit(n) \/ UserDelete(n)
  \/ Rotate
  \/ \E x \in Shapes : EndpointChange(x)
  \/ \E i \in Ids : GarmEdit(i) \/ GarmDelete(i)
  \/ Crash

Next == (\E n \in Names : Start(n)) \/ Work \/ Environment

Spec == Init /\ [][Next]_vars

\* As for pools: the worker goes on with what it has begun and serves every
\* queued name in turn, and the informer catches up.
Fairness ==
  /\ WF_vars(Work)
  /\ \A n \in Names : SF_vars(Start(n)) /\ WF_vars(CacheSync(n))

FairSpec == Spec /\ Fairness

-----------------------------------------------------------------------------
(* Safety                                                                   *)

\* Why no resource is let go, and no object made, without the other's due, as an
\* invariant that every step preserves; see Kubernetes.
FinalizerInv ==
  /\ KubeInv
  /\ pc \in ReconcileSteps \ {"finalize"} => UnderFinalizer
  /\ pc \in DeleteSteps => UnderDeletion
  /\ pc = "unfinalize" => ~Live(obj.id)

\* Why the object on record is never made a second time.  An id on any copy of a
\* resource, while it lives, is that of an object with the resource's name; and
\* GARM refuses a second endpoint or second credentials of a name.
NamesHold ==
  /\ \A i \in Ids : Live(i) => IF kind = "endpoint" THEN i \in Names /\ garm[i].name = i
                                                  ELSE i \in 1 .. minted
  /\ \A n \in Names : \A o \in Copies(n) :
       /\ o.id \in {NoId} \cup IF kind = "endpoint" THEN {n} ELSE 1 .. minted
       /\ Live(o.id) => garm[o.id].name = n

\* A second template of a name is not refused.  But the informer's copy, however
\* old, shows the template on record if that is alive, or shows no id and the
\* shape under which List finds it, or shows an id that is gone.
CachedTemplates ==
  kind = "template" =>
    \A n \in Names : cache[n] # Absent =>
      /\ Live(cache[n].id) => Exists(n) /\ cr[n].id = cache[n].id
      /\ Exists(n) /\ cache[n].id = NoId /\ Live(cr[n].id)
           => garm[cr[n].id].shape = cache[n].spec.shape

\* A copy that may still be written holds the id on record, or the object on
\* record is gone.
CopyRecord ==
  /\ pc # "idle" => request.shape = obj.spec.shape
  /\ pc \in {"list", "adopt"} => obj.id = NoId
  /\ pc = "create" /\ kind # "template" => obj.id = NoId
  /\ pc \in {"finalize", "list", "create", "adopt", "get"} /\ fresh => obj.id = cr[me].id
  /\ pc \in ReconcileSteps /\ fresh =>
       \/ obj.id = cr[me].id
       \/ /\ ~Live(cr[me].id)
          /\ kind = "template" /\ Live(obj.id) => garm[obj.id].shape = obj.spec.shape
  /\ pc = "list" /\ Live(cr[me].id) => garm[cr[me].id].shape = obj.spec.shape
  /\ pc = "create" /\ kind = "template" => ~Live(cr[me].id)
  /\ pc = "get" /\ kind = "template" /\ Live(obj.id) => obj.id = cr[me].id
  /\ pc = "drop" => kind = "template" /\ obj.id = cr[me].id
  /\ pc = "list" => kind = "template"
  /\ pc = "adopt" => kind = "endpoint"

\* Every copy of a resource, and GARM's answer to its name, lead to the one object
\* that its status.id records, if that is alive.
RecordInv == NamesHold /\ CachedTemplates /\ CopyRecord

\* Seen from afar, this is custody of GARM's objects.
Alive == {i \in Ids : Live(i)}

GarmCustody ==
  INSTANCE Custody WITH
    Owners <- Names, Objects <- Ids, Nothing <- NoId,
    guarded <- Guarded, recorded <- Recorded, alive <- Alive

\* An id is given up, and a resource let go, only when GARM holds nothing under
\* that id any more; and nothing is made in GARM for a resource without a finalizer
\* ("Ensure finalizer present before any GARM-side state is created") or with a
\* living object on record, however old the copy that the reconciliation read.
KeepsCustody == GarmCustody!Spec

-----------------------------------------------------------------------------
(* Liveness                                                                 *)

\* A deletion request is granted in the end.
DeletionCompletes ==
  \A n \in Names : (Exists(n) /\ cr[n].deleting) ~> ~Exists(n)

\* GARM holds what the resource and the Secret, if it has one, say now.
Applied(n) ==
  /\ Live(cr[n].id)
  /\ LET g == garm[cr[n].id] want == Asked(cr[n].spec)
     IN  /\ g.settings = want.settings
         /\ want.secret # Absent => g.secret = want.secret
         /\ kind = "template" => g.shape = want.shape

\* What a resource without an id may take over.
Adoptable(n) ==
  CASE kind = "endpoint" -> Named(n)
    [] kind = "template" -> {i \in Named(n) : garm[i].shape = cr[n].spec.shape}
    [] OTHER -> {}

\* GARM has something of that name that the reconciler does not take over.
Blocked(n) ==
  cr[n].id = NoId /\ Named(n) # {} /\ \A i \in Ids : Adoptable(n) # {i}

\* Once disruptions stop, every resource whose references resolve is Ready and
\* what GARM holds is what it says, with the Secret's latest content ("edit
\* Secret -> propagate"), unless its name is taken in GARM.
Settles ==
  \A n \in Names :
    <>[](Exists(n) /\ ~cr[n].deleting /\ Resolvable(cr[n].spec) /\ ~Blocked(n)
           => Applied(n) /\ cr[n].ready /\ cr[n].current)
=============================================================================
