-------------------------- MODULE DriftCorrection --------------------------
(***************************************************************************)
(* How the operator corrects drift: it reads an object from GARM, compares   *)
(* it field by field with what a resource asks for, and sends the fields     *)
(* that differ.  `kind' selects                                              *)
(*   "settings"  the ServerSettings reconciler                               *)
(*               (operator/internal/controller/serversettings_controller.go), *)
(*               all of it; every ServerSettings speaks for the one            *)
(*               controller that GARM is;                                      *)
(*   "pool"      the fields of one Pool that has its finalizer and its id and  *)
(*               that nobody deletes (poolDiff, mergeExtraContext and what     *)
(*               they need of pool_controller.go); the rest of that reconciler *)
(*               is in PoolController.                                         *)
(* Fields that are treated alike have one representative: `size' stands for   *)
(* the fields of a pool that are compared and sent as they are, `url' for the  *)
(* settings whose nil means "leave it".                                        *)
(***************************************************************************)
EXTENDS Kubernetes, Sequences, FiniteSets, SequencesExt

CONSTANTS
  Kinds,            \* the kinds to consider, one in a behaviour
  Values,           \* values of a field, contents of a Secret
  Tags,             \* runner tags: natural numbers, for their order
  Keys,             \* keys of extra_context
  Templates,        \* what the RunnerTemplate may look like
  Wanted,           \* Wanted[k][n]: the specs users may give to the resource n
  InGarm            \* InGarm[k]: what administrators may make of GARM's object

\* An omitted setting, an empty CA bundle, a Secret that is missing or lacks the key.
Unset == "unset"
Empty == ""
Missing == "missing"
SecretContents == Values \cup {Empty, Missing}

\* The spec says `valueFrom: secretKeyRef' instead of a value.
FromSecret == "secretKeyRef"

\* Extra specs as JSON: nothing at all, the literal null, something that is not
\* an object, or an object with the extra_context ctx.
ContextOf(V) == UNION {[K -> V] : K \in SUBSET Keys}
NoContext == [k \in {} |-> Empty]
JSON == [type : {"none", "null", "scalar"}, ctx : {NoContext}]
          \cup [type : {"object"}, ctx : ContextOf(Values \cup {Empty})]
Nothing == [type |-> "none", ctx |-> NoContext]
Null == [type |-> "null", ctx |-> NoContext]

TagLists == UNION {SetToSeqs(T) : T \in SUBSET Tags}

\* A RunnerTemplate; id is 0 when it does not exist or has no status.id yet.
Template == [id : Nat, ready : BOOLEAN, ctx : ContextOf(Values \cup {FromSecret})]

\* template: runnerInstallTemplateRef is set.  ca: caCertBundleSecretRef is set.
PoolSpec == [size : Values, tags : TagLists, extraSpecs : JSON, template : BOOLEAN]
ServerSettingsSpec == [url : Values \cup {Unset}, ca : BOOLEAN]
Spec_(k) == IF k = "pool" THEN PoolSpec ELSE ServerSettingsSpec

\* What GARM holds.
GarmPool == [size : Values, tags : TagLists, extraSpecs : JSON, template : Nat]
ControllerInfo == [url : Values, caBundle : Values \cup {Empty}]
GarmObject(k) == IF k = "pool" THEN GarmPool ELSE ControllerInfo
Fields(k) == IF k = "pool" THEN {"size", "tags", "extraSpecs", "template"}
                           ELSE {"url", "caBundle"}

\* What a resource asks for: `desired' in the code.
PoolCreate == GarmPool
ServerSettingsUpdate == [url : Values \cup {Unset}, caBundle : Values \cup {Empty}]
Request(k) == IF k = "pool" THEN PoolCreate ELSE ServerSettingsUpdate

Resource(k) == [spec : Spec_(k), deleting : {FALSE}, finalizer : BOOLEAN,
                ready : BOOLEAN, current : BOOLEAN]

ASSUME KindsAssumption == Kinds \subseteq {"pool", "settings"}
ASSUME TagsAssumption == Tags \subseteq Nat /\ IsFiniteSet(Tags)
ASSUME WantedAssumption ==
  \A k \in Kinds : \A n \in Names : Wanted[k][n] \subseteq Spec_(k)
ASSUME InGarmAssumption ==
  \A k \in Kinds : InGarm[k] \subseteq GarmObject(k)
ASSUME TemplatesAssumption == Templates \subseteq Template

VARIABLES
  kind,     \* what the resources are
  secret,   \* content of the Secret that the spec or the template refers to
  template, \* the RunnerTemplate that a Pool may refer to
  garm,     \* GARM's object
  desired,  \* the worker's: what the spec and its references ask for
  actual,   \* the worker's: GARM's object as it was read
  patch     \* the worker's: fields of the update it is about to send

memory == <<desired, actual, patch>>
external == <<secret, template, garm, kind>>
vars == <<cr, cache, stale, queue, pc, me, obj, fresh, budget, memory, external>>

Steps == {"idle", "resolve", "get", "update", "ready", "false"}

TypeOK ==
  /\ kind \in Kinds
  /\ KubeType(Resource(kind))
  /\ pc \in Steps
  /\ secret \in SecretContents
  /\ template \in Templates
  /\ garm \in GarmObject(kind)
  /\ pc \in {"get", "update"} => desired \in Request(kind)
  /\ pc = "update" => actual \in GarmObject(kind)
  /\ patch \subseteq Fields(kind)

-----------------------------------------------------------------------------
NewResource(spec) ==
  [spec |-> spec, deleting |-> FALSE, finalizer |-> kind = "pool",
   ready |-> FALSE, current |-> FALSE]

\* There is one Pool, or there are ServerSettings.
Init ==
  /\ kind \in Kinds
  /\ cr \in [Names -> {Absent} \cup {NewResource(s) : s \in UNION {Wanted[kind][n] : n \in Names}}]
  /\ \A n \in Names : Exists(n) => cr[n].spec \in Wanted[kind][n]
  /\ kind = "pool" => Cardinality({n \in Names : Exists(n)}) = 1
  /\ cache = cr /\ stale = {} /\ queue = {n \in Names : Exists(n)}
  /\ pc = "idle" /\ me = Nobody /\ obj = Absent /\ fresh = FALSE
  /\ budget = MaxDisruptions
  /\ secret \in SecretContents
  /\ template \in Templates /\ (kind = "settings" => ~template.ready)
  /\ garm \in InGarm[kind]
  /\ desired = Absent /\ actual = Absent /\ patch = {}

-----------------------------------------------------------------------------
(* What the resource asks for.                                              *)

\* resolveTemplateExtraContext, of a template whose Secret is there.
ExtraContext(tpl) ==
  [k \in DOMAIN tpl.ctx |-> IF tpl.ctx[k] = FromSecret THEN secret ELSE tpl.ctx[k]]

NeedsSecret(tpl) == \E k \in DOMAIN tpl.ctx : tpl.ctx[k] = FromSecret

\* The entries of f, and those of g under other keys.
Over(f, g) == [k \in DOMAIN f \cup DOMAIN g |-> IF k \in DOMAIN f THEN f[k] ELSE g[k]]

\* Mutant of mergeExtraContext: the template overrides the pool.
mergeExtraContextTemplateWins(raw, ctx) ==
  IF DOMAIN ctx = {} THEN raw ELSE [type |-> "object", ctx |-> Over(ctx, raw.ctx)]

\* mergeExtraContext, and buildPoolCreate's condition for calling it: the pool's
\* own keys take precedence; what is not an object is dropped.
mergeExtraContext(raw, ctx) ==
  IF DOMAIN ctx = {} THEN raw ELSE [type |-> "object", ctx |-> Over(raw.ctx, ctx)]

\* resolveServerSettingsCABundle and resolveRunnerTemplate.
Resolvable(spec) ==
  IF kind = "pool"
  THEN spec.template => /\ template.id # 0 /\ template.ready
                        /\ NeedsSecret(template) => secret # Missing
  ELSE spec.ca => secret # Missing

\* buildPoolCreate.  An omitted template is 0, as in GARM.
DesiredPool(spec) ==
  [size |-> spec.size,
   tags |-> spec.tags,
   extraSpecs |-> IF spec.template THEN mergeExtraContext(spec.extraSpecs, ExtraContext(template))
                                   ELSE spec.extraSpecs,
   template |-> IF spec.template THEN template.id ELSE 0]

DesiredSettings(spec) ==
  [url |-> spec.url, caBundle |-> IF spec.ca THEN secret ELSE Empty]

Desired(spec) == IF kind = "pool" THEN DesiredPool(spec) ELSE DesiredSettings(spec)

-----------------------------------------------------------------------------
(* What differs, what is sent, and what GARM makes of it.                   *)

\* Mutant of tagNames: tags are compared in the order in which GARM lists them.
tagNamesUnsorted(tags) == tags

tagNames(tags) ==
  CHOOSE t \in SetToSeqs(ToSet(tags)) : \A i, j \in DOMAIN t : i < j => t[i] < t[j]

\* The resource leaves f to GARM.
Omitted(f, d) == (f = "template" /\ d = 0) \/ (f = "url" /\ d = Unset)

\* poolDiff and serverSettingsDiff, for one field with the values a and d.
Differs(f, a, d) ==
  /\ ~Omitted(f, d)
  /\ IF f = "tags" THEN tagNames(a) # tagNames(d) ELSE a # d

\* Mutant of Diff: as soon as a field differs, all that the spec sets are sent.
DiffEverything(a, d) ==
  IF \E f \in Fields(kind) : Differs(f, a[f], d[f])
  THEN {f \in Fields(kind) : ~Omitted(f, d[f])} ELSE {}

Diff(a, d) == {f \in Fields(kind) : Differs(f, a[f], d[f])}

\* What stands for f in the update: clearing extra specs takes a JSON null.
Sent(f, d) == IF f = "extraSpecs" /\ d = Nothing THEN Null ELSE d

\* UpdatePool and UpdateController: fields that are not in the update stay.  GARM
\* lists tags in an order of its own.
ApplyPatch ==
  \E order \in IF "tags" \in patch THEN SetToSeqs(ToSet(desired.tags)) ELSE {<<>>} :
    garm' = [f \in Fields(kind) |->
               CASE f \notin patch -> garm[f]
                 [] f \in patch /\ f = "tags" -> order
                 [] f \in patch /\ f # "tags" -> Sent(f, desired[f])]

-----------------------------------------------------------------------------
(* Reconcile.                                                               *)

\* Beyond the update nothing that was read matters.
Forget == desired' = Absent /\ actual' = Absent /\ patch' = {}

\* Mutant of Start: a resource that is not found is reconciled all the same.
StartNotFound(n) ==
  /\ pc = "idle" /\ n \in queue
  /\ queue' = queue \ {n}
  /\ pc' = "resolve" /\ me' = n /\ obj' = cache[n] /\ fresh' = (n \notin stale)
  /\ UNCHANGED <<cr, cache, stale, budget, memory, external>>

Start(n) == Take(n, "resolve") /\ UNCHANGED <<memory, external>>

Resolve ==
  /\ pc = "resolve"
  /\ \/ /\ Resolvable(obj.spec)
        /\ desired' = Desired(obj.spec)
        /\ Goto("get") /\ UNCHANGED budget
     \/ ~Resolvable(obj.spec) /\ Goto("false") /\ UNCHANGED <<desired, budget>>
     \/ Disrupt("fault") /\ Goto("false") /\ UNCHANGED desired
  /\ UNCHANGED <<kube, obj, actual, patch, external>>

Get ==
  /\ pc = "get"
  /\ \/ /\ Diff(garm, desired) # {}
        /\ actual' = garm /\ patch' = Diff(garm, desired)
        /\ Goto("update") /\ UNCHANGED <<desired, budget>>
     \/ Diff(garm, desired) = {} /\ Goto("ready") /\ Forget /\ UNCHANGED budget
     \/ Disrupt("fault") /\ Goto("false") /\ Forget
  /\ UNCHANGED <<kube, obj, external>>

\* The call succeeds, is refused, or takes effect and its answer is lost.
Update ==
  /\ pc = "update"
  /\ \/ ApplyPatch /\ Goto("ready") /\ UNCHANGED budget
     \/ Disrupt("fault") /\ Goto("false") /\ UNCHANGED garm
     \/ Disrupt("fault") /\ ApplyPatch /\ Goto("false")
  /\ Forget
  /\ UNCHANGED <<kube, obj, secret, template, kind>>

Commit(o) == Write(o) /\ UNCHANGED <<memory, external>>

MarkReady == pc = "ready" /\ Commit([obj EXCEPT !.ready = TRUE, !.current = TRUE])

MarkFalse == pc = "false" /\ Commit([obj EXCEPT !.ready = FALSE])

Work == Resolve \/ Get \/ Update \/ MarkReady \/ MarkFalse

-----------------------------------------------------------------------------
(* The world around the worker.                                             *)

CacheSync(n) == Refresh(n) /\ UNCHANGED <<memory, external>>

Touch(n, o) == Change(n, o) /\ UNCHANGED <<memory, external>>

UserCreate(n) ==
  /\ kind = "settings" /\ ~Exists(n)
  /\ \E s \in Wanted[kind][n] : Touch(n, NewResource(s))

UserEdit(n) ==
  /\ Exists(n)
  /\ \E s \in Wanted[kind][n] : /\ s # cr[n].spec
                                /\ Touch(n, [cr[n] EXCEPT !.spec = s, !.current = FALSE])

UserDelete(n) == kind = "settings" /\ Exists(n) /\ Touch(n, Absent)

\* Nobody watches the Secret.
SecretChange ==
  /\ Disrupt("refs")
  /\ secret' \in SecretContents \ {secret}
  /\ UNCHANGED <<kube, pc, me, obj, fresh, memory, template, garm, kind>>

\* The RunnerTemplate is edited, replaced, or no longer Ready; templateToPools
\* queues the Pools that the cache says refer to it.
TemplateChange ==
  /\ kind = "pool" /\ Disrupt("refs")
  /\ template' \in Templates \ {template}
  /\ queue' = queue \cup {n \in Names : cache[n] # Absent /\ cache[n].spec.template}
  /\ UNCHANGED <<cr, cache, stale, pc, me, obj, fresh, memory, secret, garm, kind>>

\* An administrator changes a field in GARM directly.
GarmEdit ==
  /\ Disrupt("garmEdit")
  /\ \E g \in InGarm[kind], f \in Fields(kind) : garm' = [garm EXCEPT ![f] = g[f]]
  /\ UNCHANGED <<kube, pc, me, obj, fresh, memory, secret, template, kind>>

Crash == Restart /\ Forget /\ UNCHANGED external

Environment ==
  \/ \E n \in Names : CacheSync(n) \/ UserCreate(n) \/ UserEdit(n) \/ UserDelete(n)
  \/ SecretChange \/ TemplateChange \/ GarmEdit \/ Crash

Next == (\E n \in Names : Start(n)) \/ Work \/ Environment

Spec == Init /\ [][Next]_vars

Fairness ==
  /\ WF_vars(Work)
  /\ \A n \in Names : SF_vars(Start(n)) /\ WF_vars(CacheSync(n))

FairSpec == Spec /\ Fairness

-----------------------------------------------------------------------------
(* Safety                                                                   *)

Sends == pc = "update" /\ pc' # pc

SameValue(f, a, d) ==
  IF f = "tags" THEN ToSet(a) = ToSet(d) ELSE a = d

\* "Only fields that differ between desired and actual are set -- that's the
\* no-downtime invariant": an update changes a field only if GARM was seen to
\* hold something else there than the resource asks for.  So a field that was
\* right when it was read keeps what an administrator makes of it before the
\* update arrives, and a field that the resource leaves open is never touched.
NoDowntime ==
  [][Sends
       => \A f \in Fields(kind) :
            garm'[f] # garm[f] => /\ ~Omitted(f, desired[f])
                                  /\ ~SameValue(f, actual[f], desired[f])]_vars

\* An update whose fields are those of the comparison is what both that and the
\* next property rest on.
PatchInv == pc = "update" => patch = Diff(actual, desired)

\* One update is enough: if GARM still is as it was read when the update takes
\* effect, then comparing again finds nothing to send, in whatever order GARM lists
\* the tags; but for extra specs that were cleared, for which the update carries a
\* JSON null (pool_controller.go:611) that the comparison tells from nothing.
OneUpdateIsEnough ==
  [][Sends /\ garm' # garm /\ garm = actual
       => \A f \in Diff(garm', desired) : f = "extraSpecs" /\ desired[f] = Nothing]_vars

-----------------------------------------------------------------------------
(* Liveness                                                                 *)

Alone(n) == \A m \in Names : Exists(m) => m = n

\* GARM holds what n asks for.  Said key by key, extra_context has the pool's own
\* value, else the template's ("Pool-level extra_context keys (already in raw)
\* take precedence over template values"), the Secret's content included.
ContextApplied(spec) ==
  LET own == spec.extraSpecs.ctx
      tpl == IF spec.template THEN template.ctx ELSE NoContext
  IN  /\ DOMAIN garm.extraSpecs.ctx = DOMAIN own \cup DOMAIN tpl
      /\ \A k \in DOMAIN own : garm.extraSpecs.ctx[k] = own[k]
      /\ \A k \in DOMAIN tpl \ DOMAIN own :
            garm.extraSpecs.ctx[k] = IF tpl[k] = FromSecret THEN secret ELSE tpl[k]

PoolApplied(spec) ==
  /\ garm.size = spec.size
  /\ ToSet(garm.tags) = ToSet(spec.tags)
  /\ ContextApplied(spec)
  /\ spec.template => garm.template = template.id

SettingsApplied(spec) ==
  /\ spec.url # Unset => garm.url = spec.url
  /\ garm.caBundle = IF spec.ca THEN secret ELSE Empty

Applied(n) ==
  IF kind = "pool" THEN PoolApplied(cr[n].spec) ELSE SettingsApplied(cr[n].spec)

\* Once disruptions stop, GARM holds what a resource whose references resolve
\* asks for, whatever was edited, lost or restarted before, and the resource
\* says so.  Two ServerSettings have no such claim.
Settles ==
  \A n \in Names :
    <>[](Exists(n) /\ Alone(n) /\ Resolvable(cr[n].spec)
           => Applied(n) /\ cr[n].ready /\ cr[n].current)

\* And then the operator only looks: it sends no update any more.  The JSON null
\* with which extra specs are cleared is the exception: GARM keeps it, and the
\* next comparison takes it for a difference.
Rivals == \E n, m \in Names : n # m /\ Exists(n) /\ Exists(m)

ClearedExtraSpecs == kind = "pool" /\ garm.extraSpecs = Null

GoesQuiet == <>[][Sends => Rivals \/ ClearedExtraSpecs]_vars
=============================================================================
