----------------------- MODULE DriftCorrectionProofs -----------------------
(***************************************************************************)
(* Proofs about DriftCorrection, for every value of its constants: types,   *)
(* and what an update changes and leaves.                                   *)
(***************************************************************************)
EXTENDS DriftCorrection, FiniteSetTheorems, FunctionTheorems, KubernetesProofs

-----------------------------------------------------------------------------
(* Lists of tags, and extra specs.                                          *)

\* A list of all the members of a finite set has those members.
LEMMA ListOf ==
  ASSUME NEW S, IsFiniteSet(S), NEW s \in SetToSeqs(S)
  PROVE  ToSet(s) = S
<1> DEFINE D == 1 .. Cardinality(S)
<1>1. Cardinality(S) \in Nat
  BY FS_CardinalityType
<1>2. Cardinality(D) = Cardinality(S)
  BY <1>1, FS_Interval
<1>3. s \in Injection(D, S)
  BY DEF SetToSeqs, Injection, IsInjective
<1>4. s \in Surjection(D, S)
  BY <1>2, <1>3, FS_Injection
<1> QED
  BY <1>4 DEF Surjection, ToSet

\* GARM may list the tags of a list in any order, and it still is a list of tags.
LEMMA Relisted ==
  ASSUME NEW s \in TagLists, NEW t \in SetToSeqs(ToSet(s))
  PROVE  t \in TagLists /\ ToSet(t) = ToSet(s)
<1>1. PICK S \in SUBSET Tags : s \in SetToSeqs(S)
  BY DEF TagLists
<1>2. IsFiniteSet(S)
  BY TagsAssumption, FS_Subset
<1>3. ToSet(s) = S /\ ToSet(t) = S
  BY <1>1, <1>2, ListOf
<1> QED
  BY <1>1, <1>3 DEF TagLists

LEMMA NothingIsJSON == Nothing \in JSON /\ Null \in JSON
BY DEF Nothing, Null, JSON

\* The entries of two contexts make a context.
LEMMA OverContext ==
  ASSUME NEW V, NEW f \in ContextOf(V), NEW g \in ContextOf(V)
  PROVE  Over(f, g) \in ContextOf(V)
<1>1. PICK K \in SUBSET Keys : f \in [K -> V]
  BY DEF ContextOf
<1>2. PICK L \in SUBSET Keys : g \in [L -> V]
  BY DEF ContextOf
<1>3. Over(f, g) \in [K \cup L -> V]
  BY <1>1, <1>2 DEF Over
<1> QED
  BY <1>3 DEF ContextOf

\* A Secret that a template needs and that is not missing gives a context.
LEMMA ExtraContextType ==
  ASSUME NEW tpl \in Template, secret \in SecretContents, NeedsSecret(tpl) => secret # Missing
  PROVE  ExtraContext(tpl) \in ContextOf(Values \cup {Empty})
<1>1. PICK K \in SUBSET Keys : tpl.ctx \in [K -> Values \cup {FromSecret}]
  BY DEF Template, ContextOf
<1>2. \A k \in K : tpl.ctx[k] = FromSecret => secret \in Values \cup {Empty}
  BY <1>1 DEF NeedsSecret, SecretContents
<1>3. ExtraContext(tpl) \in [K -> Values \cup {Empty}]
  BY <1>1, <1>2 DEF ExtraContext
<1> QED
  BY <1>3 DEF ContextOf

LEMMA MergeType ==
  ASSUME NEW raw \in JSON, NEW ctx \in ContextOf(Values \cup {Empty})
  PROVE  mergeExtraContext(raw, ctx) \in JSON
<1>1. NoContext \in ContextOf(Values \cup {Empty})
  BY DEF NoContext, ContextOf
<1>2. raw.ctx \in ContextOf(Values \cup {Empty})
  BY <1>1 DEF JSON
<1>3. Over(raw.ctx, ctx) \in ContextOf(Values \cup {Empty})
  BY <1>2, OverContext
<1> QED
  BY <1>3 DEF mergeExtraContext, JSON

\* What a resource whose references resolve asks for is well formed.
LEMMA DesiredType ==
  ASSUME kind \in Kinds, secret \in SecretContents, template \in Template,
         NEW spec \in Spec_(kind), Resolvable(spec)
  PROVE  Desired(spec) \in Request(kind)
<1>1. CASE kind = "pool"
  <2>1. spec \in PoolSpec
    BY <1>1 DEF Spec_
  <2>2. spec.template => ExtraContext(template) \in ContextOf(Values \cup {Empty})
    BY <1>1, ExtraContextType DEF Resolvable
  <2>3. spec.template => mergeExtraContext(spec.extraSpecs, ExtraContext(template)) \in JSON
    BY <2>1, <2>2, MergeType DEF PoolSpec
  <2>4. template.id \in Nat
    BY DEF Template
  <2>5. DesiredPool(spec) \in GarmPool
    BY <2>1, <2>3, <2>4 DEF DesiredPool, PoolSpec, GarmPool
  <2> QED
    BY <1>1, <2>5 DEF Desired, Request, PoolCreate
<1>2. CASE kind = "settings"
  <2>1. spec \in ServerSettingsSpec
    BY <1>2 DEF Spec_
  <2>2. spec.ca => secret \in Values \cup {Empty}
    BY <1>2 DEF Resolvable, SecretContents
  <2>3. DesiredSettings(spec) \in ServerSettingsUpdate
    BY <2>1, <2>2 DEF DesiredSettings, ServerSettingsSpec, ServerSettingsUpdate
  <2> QED
    BY <1>2, <2>3 DEF Desired, Request
<1> QED
  BY <1>1, <1>2, KindsAssumption


-----------------------------------------------------------------------------
(* The update.                                                              *)

\* What GARM makes of the comparison that the worker sends: a field in it is as
\* desired, the others stay.
LEMMA Patched ==
  ASSUME TypeOK, PatchInv, pc = "update", ApplyPatch
  PROVE  /\ garm' \in GarmObject(kind)
         /\ \A f \in Fields(kind) :
              IF f \notin patch THEN garm'[f] = garm[f]
              ELSE /\ f = "tags" => ToSet(garm'[f]) = ToSet(desired[f])
                   /\ f # "tags" => garm'[f] = Sent(f, desired[f])
<1>1. /\ kind \in {"pool", "settings"} /\ garm \in GarmObject(kind)
      /\ desired \in Request(kind) /\ actual \in GarmObject(kind)
      /\ patch = Diff(actual, desired)
  BY KindsAssumption DEF TypeOK, PatchInv
<1>2. PICK order \in IF "tags" \in patch THEN SetToSeqs(ToSet(desired.tags)) ELSE {<<>>} :
        garm' = [f \in Fields(kind) |->
                   CASE f \notin patch -> garm[f]
                     [] f \in patch /\ f = "tags" -> order
                     [] f \in patch /\ f # "tags" -> Sent(f, desired[f])]
  BY DEF ApplyPatch
<1>3. \A f \in Fields(kind) :
        IF f \notin patch THEN garm'[f] = garm[f]
        ELSE garm'[f] = IF f = "tags" THEN order ELSE Sent(f, desired[f])
  BY <1>2
<1>4. CASE kind = "pool"
  <2>1. garm \in GarmPool /\ desired \in GarmPool
    BY <1>1, <1>4 DEF GarmObject, Request, PoolCreate
  <2>2. "tags" \in patch => order \in TagLists /\ ToSet(order) = ToSet(desired.tags)
    BY <1>2, <2>1, Relisted DEF GarmPool
  <2>3. Sent("extraSpecs", desired.extraSpecs) \in JSON
    BY <2>1, NothingIsJSON DEF GarmPool, Sent
  <2>4. garm' = [f \in {"size", "tags", "extraSpecs", "template"} |-> garm'[f]]
    BY <1>2, <1>4 DEF Fields
  <2>5. /\ garm'["size"] \in Values /\ garm'["tags"] \in TagLists
        /\ garm'["extraSpecs"] \in JSON /\ garm'["template"] \in Nat
    BY <1>3, <1>4, <2>1, <2>2, <2>3 DEF Fields, GarmPool, Sent
  <2>6. garm' \in GarmPool
    BY <2>4, <2>5 DEF GarmPool
  <2> QED
    BY <1>3, <1>4, <2>2, <2>6 DEF GarmObject
<1>5. CASE kind = "settings"
  <2>1. garm \in ControllerInfo /\ desired \in ServerSettingsUpdate
    BY <1>1, <1>5 DEF GarmObject, Request
  <2>2. "url" \in patch => desired["url"] \in Values
    BY <1>1, <1>5, <2>1 DEF Diff, Differs, Omitted, ServerSettingsUpdate
  <2>3. garm' = [f \in {"url", "caBundle"} |-> garm'[f]]
    BY <1>2, <1>5 DEF Fields
  <2>4. garm'["url"] \in Values /\ garm'["caBundle"] \in Values \cup {Empty}
    BY <1>3, <1>5, <2>1, <2>2 DEF Fields, ControllerInfo, ServerSettingsUpdate, Sent
  <2>5. garm' \in ControllerInfo
    BY <2>3, <2>4 DEF ControllerInfo
  <2> QED
    BY <1>3, <1>5, <2>5 DEF GarmObject, Fields
<1> QED
  BY <1>1, <1>4, <1>5

\* An administrator's edit of one field.
LEMMA EditedType ==
  ASSUME TypeOK, GarmEdit
  PROVE  garm' \in GarmObject(kind)
<1>1. kind \in {"pool", "settings"} /\ garm \in GarmObject(kind)
  BY KindsAssumption DEF TypeOK
<1>2. PICK g \in InGarm[kind], f \in Fields(kind) : garm' = [garm EXCEPT ![f] = g[f]]
  BY DEF GarmEdit
<1>3. g \in GarmObject(kind)
  BY InGarmAssumption DEF TypeOK
<1>4. CASE kind = "pool"
  <2>1. garm \in GarmPool /\ g \in GarmPool
    BY <1>1, <1>3, <1>4 DEF GarmObject
  <2>2. garm' \in GarmPool
    BY <1>2, <1>4, <2>1 DEF GarmPool, Fields
  <2> QED
    BY <1>4, <2>2 DEF GarmObject
<1>5. CASE kind = "settings"
  <2>1. garm \in ControllerInfo /\ g \in ControllerInfo
    BY <1>1, <1>3, <1>5 DEF GarmObject
  <2>2. garm' \in ControllerInfo
    BY <1>2, <1>5, <2>1 DEF ControllerInfo, Fields
  <2> QED
    BY <1>5, <2>2 DEF GarmObject
<1> QED
  BY <1>1, <1>4, <1>5


-----------------------------------------------------------------------------
(* Types.                                                                   *)

LEMMA NewResourceType ==
  ASSUME kind \in Kinds, NEW n \in Names, NEW s \in Wanted[kind][n]
  PROVE  NewResource(s) \in Resource(kind)
BY WantedAssumption DEF NewResource, Resource

LEMMA TypeInit == Init => TypeOK /\ PatchInv
<1> SUFFICES ASSUME Init PROVE TypeOK /\ PatchInv
  OBVIOUS
<1>1. \A n \in Names : \A s \in Wanted[kind][n] : NewResource(s) \in Resource(kind)
  BY NewResourceType DEF Init
<1>2. cr \in [Names -> Resource(kind) \cup {Absent}]
  BY <1>1 DEF Init
<1>3. queue \subseteq Names /\ stale \subseteq Names /\ budget \in 0 .. MaxDisruptions
  BY MaxDisruptionsAssumption DEF Init
<1>4. KubeType(Resource(kind))
  BY <1>2, <1>3 DEF Init, KubeType
<1>5. garm \in GarmObject(kind)
  BY InGarmAssumption DEF Init
<1> QED
  BY <1>4, <1>5 DEF Init, TypeOK, PatchInv, Steps

\* The part of the types that the steps of Kubernetes are about.
KubeStep == KubeType(Resource(kind))' /\ pc' \in Steps

LEMMA TakeType ==
  ASSUME TypeOK, NEW n \in Names, NEW step \in Steps \ {"idle"}, Take(n, step), UNCHANGED kind
  PROVE  KubeStep
<1>1. UNCHANGED <<cr, cache, stale, budget>> /\ queue' \subseteq Names
  BY DEF Take, TypeOK, KubeType
<1>2. CASE Finished(cache[n])
  BY <1>1, <1>2 DEF Take, TypeOK, KubeType, KubeStep
<1>3. CASE ~Finished(cache[n])
  <2>1. pc' = step /\ me' = n /\ obj' = cache[n] /\ fresh' = (n \notin stale)
    BY <1>3 DEF Take
  <2>2. cache[n] \in Resource(kind)
    BY <1>3 DEF Finished, TypeOK, KubeType
  <2> QED
    BY <1>1, <2>1, <2>2 DEF TypeOK, KubeType, KubeStep
<1> QED
  BY <1>2, <1>3

LEMMA CallType ==
  ASSUME TypeOK, pc # "idle", NEW step \in Steps \ {"idle"}, Goto(step),
         UNCHANGED kube, UNCHANGED <<obj, kind>>, budget' = budget \/ Disrupt("fault")
  PROVE  KubeStep
<1>1. budget' \in 0 .. MaxDisruptions
  BY DisruptBudget DEF TypeOK, KubeType
<1> QED
  BY <1>1 DEF Goto, kube, TypeOK, KubeType, KubeStep

LEMMA WriteType ==
  ASSUME TypeOK, pc # "idle", NEW o \in Resource(kind), Write(o), UNCHANGED kind
  PROVE  KubeStep
<1>1. me \in Names /\ cache' = cache /\ Requeue
  BY DEF TypeOK, KubeType, Write
<1>2. budget' \in 0 .. MaxDisruptions
  BY DisruptBudget DEF TypeOK, KubeType, Write
<1>3. cr' \in [Names -> Resource(kind) \cup {Absent}] /\ stale' \subseteq Names
  BY <1>1 DEF TypeOK, KubeType, Write
<1> QED
  BY <1>1, <1>2, <1>3 DEF Requeue, Rest, TypeOK, KubeType, KubeStep, Steps

LEMMA ChangeType ==
  ASSUME TypeOK, NEW n \in Names, NEW o \in Resource(kind) \cup {Absent}, Change(n, o),
         UNCHANGED kind
  PROVE  KubeStep
<1>1. budget' \in 0 .. MaxDisruptions
  BY DisruptBudget DEF TypeOK, KubeType, Change
<1> QED
  BY <1>1 DEF Change, TypeOK, KubeType, KubeStep

LEMMA ElsewhereType ==
  ASSUME TypeOK, UNCHANGED <<cr, cache, stale, pc, me, obj, fresh, kind>>,
         queue' \subseteq Names, budget' = budget \/ (\E k : Disrupt(k))
  PROVE  KubeStep
<1>1. budget' \in 0 .. MaxDisruptions
  BY DisruptBudget DEF TypeOK, KubeType
<1> QED
  BY <1>1 DEF TypeOK, KubeType, KubeStep

LEMMA RefreshType ==
  ASSUME TypeOK, NEW n \in Names, Refresh(n), UNCHANGED kind
  PROVE  KubeStep
BY DEF Refresh, TypeOK, KubeType, KubeStep

LEMMA RestartType ==
  ASSUME TypeOK, Restart, UNCHANGED kind
  PROVE  KubeStep
<1>1. budget' \in 0 .. MaxDisruptions
  BY DisruptBudget DEF TypeOK, KubeType, Restart
<1> QED
  BY <1>1 DEF Restart, Rest, TypeOK, KubeType, KubeStep, Steps

\* A step after which the worker's memory says no more than before.
LEMMA MemoryFrame ==
  ASSUME TypeOK, PatchInv, UNCHANGED <<kind, memory>>, pc' \in {"get", "update"} => pc' = pc
  PROVE  /\ pc' \in {"get", "update"} => desired' \in Request(kind)
         /\ pc' = "update" => actual' \in GarmObject(kind)
         /\ patch' \subseteq Fields(kind) /\ PatchInv'
BY DEF memory, TypeOK, PatchInv, Diff, Differs, Fields

LEMMA WorkType ==
  ASSUME TypeOK, PatchInv, Work
  PROVE  TypeOK' /\ PatchInv'
<1> USE DEF Steps
<1>1. CASE Resolve
  <2>1. pc = "resolve" /\ obj \in Resource(kind)
    BY <1>1 DEF Resolve, TypeOK, KubeType
  <2>2. /\ UNCHANGED kube /\ UNCHANGED <<me, fresh, obj, secret, template, garm, kind, actual, patch>>
        /\ budget' = budget \/ Disrupt("fault")
        /\ Goto("get") \/ Goto("false")
    BY <1>1 DEF Resolve, Goto, external
  <2>3. KubeStep
    BY <2>1, <2>2, CallType
  <2>4. pc' \in {"get", "update"} => desired' = Desired(obj.spec) /\ Resolvable(obj.spec)
    BY <1>1 DEF Resolve, Goto
  <2>5. pc' \in {"get", "update"} => desired' \in Request(kind)
    BY <2>1, <2>4, DesiredType, TemplatesAssumption DEF TypeOK, Resource
  <2>6. pc' # "update"
    BY <2>2 DEF Goto
  <2> QED
    BY <2>2, <2>3, <2>5, <2>6 DEF TypeOK, KubeStep, PatchInv, Fields
<1>2. CASE Get
  <2>1. pc = "get"
    BY <1>2 DEF Get
  <2>2. /\ UNCHANGED kube /\ UNCHANGED <<me, fresh, obj, secret, template, garm, kind>>
        /\ budget' = budget \/ Disrupt("fault")
        /\ Goto("update") \/ Goto("ready") \/ Goto("false")
    BY <1>2 DEF Get, Goto, external
  <2>3. KubeStep
    BY <2>1, <2>2, CallType
  <2>4. pc' # "get" /\ patch' \subseteq Fields(kind)
    BY <1>2, <2>2 DEF Get, Goto, Forget, Diff
  <2>5. pc' = "update" => desired' = desired /\ actual' = garm /\ patch' = Diff(garm, desired)
    BY <1>2 DEF Get, Goto
  <2> QED
    BY <2>1, <2>2, <2>3, <2>4, <2>5 DEF TypeOK, KubeStep, PatchInv, Diff, Differs, Fields
<1>3. CASE Update
  <2>1. pc = "update"
    BY <1>3 DEF Update
  <2>2. /\ UNCHANGED kube /\ UNCHANGED <<me, fresh, obj, secret, template, kind>>
        /\ budget' = budget \/ Disrupt("fault")
        /\ Goto("ready") \/ Goto("false")
    BY <1>3 DEF Update, Goto
  <2>3. KubeStep
    BY <2>1, <2>2, CallType
  <2>4. garm' \in GarmObject(kind)
    BY <1>3, <2>1, Patched DEF Update, TypeOK
  <2>5. pc' \notin {"get", "update"} /\ patch' = {}
    BY <1>3, <2>2 DEF Update, Goto, Forget
  <2> QED
    BY <2>2, <2>3, <2>4, <2>5 DEF TypeOK, KubeStep, PatchInv
<1>4. CASE MarkReady \/ MarkFalse
  <2>1. pc # "idle" /\ obj \in Resource(kind)
    BY <1>4 DEF MarkReady, MarkFalse, TypeOK, KubeType
  <2>2. PICK o \in Resource(kind) : Commit(o)
    BY <1>4, <2>1 DEF MarkReady, MarkFalse, Resource
  <2>3. Write(o) /\ UNCHANGED <<memory, secret, template, garm, kind>> /\ pc' = "idle"
    BY <2>2 DEF Commit, external, Write, Requeue, Rest
  <2>4. KubeStep
    BY <2>1, <2>3, WriteType
  <2>5. /\ pc' \in {"get", "update"} => desired' \in Request(kind)
        /\ pc' = "update" => actual' \in GarmObject(kind)
        /\ patch' \subseteq Fields(kind) /\ PatchInv'
    BY <2>3, MemoryFrame
  <2> QED
    BY <2>3, <2>4, <2>5 DEF TypeOK, KubeStep
<1> QED
  BY <1>1, <1>2, <1>3, <1>4 DEF Work


LEMMA EnvironmentType ==
  ASSUME TypeOK, PatchInv, Environment
  PROVE  TypeOK' /\ PatchInv'
<1>1. ASSUME NEW n \in Names, CacheSync(n)
      PROVE  TypeOK' /\ PatchInv'
  <2>1. Refresh(n) /\ UNCHANGED <<memory, secret, template, garm, kind>> /\ pc' = pc
    BY <1>1 DEF CacheSync, external, Refresh
  <2>2. KubeStep
    BY <2>1, RefreshType
  <2> QED
    BY <2>1, <2>2, MemoryFrame DEF TypeOK, KubeStep
<1>2. ASSUME NEW n \in Names, UserCreate(n) \/ UserEdit(n) \/ UserDelete(n)
      PROVE  TypeOK' /\ PatchInv'
  <2>1. \A s \in Wanted[kind][n] : NewResource(s) \in Resource(kind)
    BY NewResourceType DEF TypeOK
  <2>2. \A s \in Wanted[kind][n] :
          Exists(n) => [cr[n] EXCEPT !.spec = s, !.current = FALSE] \in Resource(kind)
    BY WantedAssumption DEF TypeOK, KubeType, Exists, Resource
  <2>3. PICK o \in Resource(kind) \cup {Absent} : Touch(n, o)
    BY <1>2, <2>1, <2>2 DEF UserCreate, UserEdit, UserDelete
  <2>4. Change(n, o) /\ UNCHANGED <<memory, secret, template, garm, kind>> /\ pc' = pc
    BY <2>3 DEF Touch, external, Change
  <2>5. KubeStep
    BY <2>4, ChangeType
  <2> QED
    BY <2>4, <2>5, MemoryFrame DEF TypeOK, KubeStep
<1>3. CASE SecretChange \/ TemplateChange \/ GarmEdit
  <2>1. /\ UNCHANGED <<cr, cache, stale, pc, me, obj, fresh, kind>> /\ UNCHANGED memory
        /\ queue' \subseteq Names
        /\ \E k : Disrupt(k)
    BY <1>3 DEF SecretChange, TemplateChange, GarmEdit, kube, TypeOK, KubeType
  <2>2. KubeStep
    BY <2>1, ElsewhereType
  <2>3. secret' \in SecretContents /\ template' \in Templates
    BY <1>3 DEF SecretChange, TemplateChange, GarmEdit, TypeOK
  <2>4. garm' \in GarmObject(kind)
    BY <1>3, EditedType DEF SecretChange, TemplateChange, TypeOK
  <2> QED
    BY <2>1, <2>2, <2>3, <2>4, MemoryFrame DEF TypeOK, KubeStep
<1>4. CASE Crash
  <2>1. Restart /\ pc' = "idle" /\ patch' = {} /\ UNCHANGED <<secret, template, garm, kind>>
    BY <1>4 DEF Crash, Restart, Rest, Forget, external
  <2>2. KubeStep
    BY <2>1, RestartType
  <2> QED
    BY <2>1, <2>2 DEF TypeOK, KubeStep, PatchInv
<1> QED
  BY <1>1, <1>2, <1>3, <1>4 DEF Environment

LEMMA TypeStep ==
  ASSUME TypeOK, PatchInv, [Next]_vars
  PROVE  TypeOK' /\ PatchInv'
<1>1. ASSUME NEW n \in Names, Start(n)
      PROVE  TypeOK' /\ PatchInv'
  <2>1. /\ Take(n, "resolve") /\ UNCHANGED <<memory, secret, template, garm, kind>>
        /\ pc' \in {"get", "update"} => pc' = pc
    BY <1>1 DEF Start, external, Take
  <2>2. KubeStep
    BY <2>1, TakeType DEF Steps
  <2> QED
    BY <2>1, <2>2, MemoryFrame DEF TypeOK, KubeStep
<1>2. CASE UNCHANGED vars
  <2>1. UNCHANGED <<memory, secret, template, garm, kind, cr, cache, stale, queue, pc, me, obj,
                    fresh, budget>>
    BY <1>2 DEF vars, external
  <2>2. KubeStep
    BY <2>1 DEF TypeOK, KubeType, KubeStep
  <2> QED
    BY <2>1, <2>2, MemoryFrame DEF TypeOK, KubeStep
<1> QED
  BY <1>1, <1>2, WorkType, EnvironmentType DEF Next

\* In every state the variables have their types, and an update that is about to be
\* sent is for an object of GARM that was read, with a request in which every
\* reference is resolved.
THEOREM TypeCorrect == Spec => []TypeOK
<1>1. Init => TypeOK /\ PatchInv
  BY TypeInit
<1>2. TypeOK /\ PatchInv /\ [Next]_vars => (TypeOK /\ PatchInv)'
  BY TypeStep
<1> QED
  BY <1>1, <1>2, PTL DEF Spec

\* The update that is about to be sent has the fields in which the object that was
\* read differs from what the resource asks for, and no others.
THEOREM PatchInvariant == Spec => []PatchInv
<1>1. Init => TypeOK /\ PatchInv
  BY TypeInit
<1>2. TypeOK /\ PatchInv /\ [Next]_vars => (TypeOK /\ PatchInv)'
  BY TypeStep
<1> QED
  BY <1>1, <1>2, PTL DEF Spec

-----------------------------------------------------------------------------
(* What an update changes, and what it leaves.                              *)

\* The worker leaves "update" by sending the update or by dying.
LEMMA SendsUpdate ==
  ASSUME TypeOK, [Next]_vars, Sends, garm' # garm
  PROVE  pc = "update" /\ ApplyPatch /\ UNCHANGED kind
<1>1. pc = "update" /\ pc' # pc
  BY DEF Sends
<1>2. ASSUME NEW n \in Names
      PROVE  ~Start(n) /\ ~CacheSync(n) /\ ~UserCreate(n) /\ ~UserEdit(n) /\ ~UserDelete(n)
  BY <1>1 DEF Start, Take, CacheSync, Refresh, UserCreate, UserEdit, UserDelete, Touch, Change
<1>3. ~SecretChange /\ ~TemplateChange /\ ~GarmEdit
  BY <1>1 DEF SecretChange, TemplateChange, GarmEdit
<1>4. ~Resolve /\ ~Get /\ ~MarkReady /\ ~MarkFalse
  BY <1>1 DEF Resolve, Get, MarkReady, MarkFalse
<1>5. ~Crash /\ ~UNCHANGED vars
  BY <1>1 DEF Crash, external, vars
<1>6. Update
  BY <1>2, <1>3, <1>4, <1>5 DEF Next, Work, Environment
<1> QED
  BY <1>1, <1>6 DEF Update

\* Lists of the same tags compare as equal.
LEMMA SameTagNames ==
  ASSUME NEW s, NEW t, ToSet(s) = ToSet(t)
  PROVE  tagNames(s) = tagNames(t)
BY DEF tagNames

\* "Only fields that differ between desired and actual are set": an update changes
\* no field that was right when GARM was read, and none that the resource leaves
\* open.
THEOREM UpdatesOnlyWhatDiffers == Spec => NoDowntime
<1>1. ASSUME TypeOK, PatchInv, [Next]_vars, Sends, NEW f \in Fields(kind), garm'[f] # garm[f]
      PROVE  ~Omitted(f, desired[f]) /\ ~SameValue(f, actual[f], desired[f])
  <2>1. pc = "update" /\ ApplyPatch
    BY <1>1, SendsUpdate
  <2>2. f \in patch
    BY <1>1, <2>1, Patched
  <2>3. Differs(f, actual[f], desired[f])
    BY <1>1, <2>1, <2>2 DEF PatchInv, Diff
  <2> QED
    BY <2>3, SameTagNames DEF Differs, SameValue
<1>2. TypeOK /\ PatchInv /\ [Next]_vars =>
        [Sends => \A f \in Fields(kind) :
            garm'[f] # garm[f] => /\ ~Omitted(f, desired[f])
                                  /\ ~SameValue(f, actual[f], desired[f])]_vars
  BY <1>1
<1> QED
  BY <1>2, TypeCorrect, PatchInvariant, PTL DEF Spec, NoDowntime

\* An update that finds GARM as it was read leaves nothing to correct, but for
\* extra specs that were cleared.
THEOREM OneUpdateSuffices == Spec => OneUpdateIsEnough
<1>1. ASSUME TypeOK, PatchInv, [Next]_vars, Sends, garm' # garm, garm = actual,
             NEW f \in Diff(garm', desired)
      PROVE  f = "extraSpecs" /\ desired[f] = Nothing
  <2>1. pc = "update" /\ ApplyPatch
    BY <1>1, SendsUpdate
  <2>2. f \in Fields(kind) /\ Differs(f, garm'[f], desired[f])
    BY <1>1 DEF Diff
  <2>3. IF f \notin patch THEN garm'[f] = garm[f]
        ELSE /\ f = "tags" => ToSet(garm'[f]) = ToSet(desired[f])
             /\ f # "tags" => garm'[f] = Sent(f, desired[f])
    BY <1>1, <2>1, <2>2, Patched
  <2>4. f \in patch
    BY <1>1, <2>1, <2>2, <2>3 DEF PatchInv, Diff
  <2>5. f # "tags"
    BY <2>2, <2>3, <2>4, SameTagNames DEF Differs
  <2> QED
    BY <2>2, <2>3, <2>4, <2>5 DEF Differs, Sent
<1>2. TypeOK /\ PatchInv /\ [Next]_vars =>
        [Sends /\ garm' # garm /\ garm = actual
           => \A f \in Diff(garm', desired) : f = "extraSpecs" /\ desired[f] = Nothing]_vars
  BY <1>1
<1> QED
  BY <1>2, TypeCorrect, PatchInvariant, PTL DEF Spec, OneUpdateIsEnough

-----------------------------------------------------------------------------
(* The comparison of tags.                                                  *)

\* How many members of S come before x.
Rank(S, x) == Cardinality({y \in S : y < x})

LEMMA RankGrows ==
  ASSUME NEW S \in SUBSET Nat, IsFiniteSet(S), NEW x \in S, NEW y \in S, x < y
  PROVE  Rank(S, x) < Rank(S, y)
<1> DEFINE X == {z \in S : z < x}
           Y == {z \in S : z < y}
<1>1. x \in Nat /\ y \in Nat /\ \A z \in S : z \in Nat
  OBVIOUS
<1>2. /\ X \subseteq Y
      /\ x \in Y /\ x \notin X
  <2>1. \A z \in S : z < x => z < y
    BY <1>1
  <2>2. ~(x < x)
    BY <1>1
  <2> QED
    BY <2>1, <2>2
<1>3. IsFiniteSet(Y) /\ Cardinality(X) \in Nat /\ Cardinality(Y) \in Nat
  BY <1>2, FS_Subset, FS_CardinalityType
<1>4. Cardinality(X) <= Cardinality(Y) /\ Cardinality(X) # Cardinality(Y)
  BY <1>2, <1>3, FS_Subset
<1> QED
  BY <1>3, <1>4 DEF Rank

LEMMA RankBounded ==
  ASSUME NEW S \in SUBSET Nat, IsFiniteSet(S), NEW x \in S
  PROVE  Rank(S, x) + 1 \in 1 .. Cardinality(S)
<1> DEFINE X == {z \in S : z < x}
<1>1. X \subseteq S /\ x \notin X
  OBVIOUS
<1>2. Cardinality(X) \in Nat /\ Cardinality(S) \in Nat
  BY <1>1, FS_Subset, FS_CardinalityType
<1>3. Cardinality(X) <= Cardinality(S) /\ Cardinality(X) # Cardinality(S)
  BY <1>1, <1>2, FS_Subset
<1> QED
  BY <1>2, <1>3 DEF Rank

\* Every finite set of tags can be listed in order: each tag at its rank.
LEMMA SortedListExists ==
  ASSUME NEW S \in SUBSET Nat, IsFiniteSet(S)
  PROVE  \E t \in SetToSeqs(S) : \A i, j \in DOMAIN t : i < j => t[i] < t[j]
<1> DEFINE D == 1 .. Cardinality(S)
           r == [x \in S |-> Rank(S, x) + 1]
           t == [i \in D |-> CHOOSE x \in S : r[x] = i]
<1>1. Cardinality(S) \in Nat /\ IsFiniteSet(D) /\ Cardinality(D) = Cardinality(S)
  BY FS_CardinalityType, FS_Interval
<1>2. r \in [S -> D]
  BY RankBounded
<1>3. \A x, y \in S : x < y => r[x] < r[y]
  <2> SUFFICES ASSUME NEW x \in S, NEW y \in S, x < y PROVE r[x] < r[y]
    OBVIOUS
  <2>1. Rank(S, x) < Rank(S, y)
    BY RankGrows
  <2>2. r[x] = Rank(S, x) + 1 /\ r[y] = Rank(S, y) + 1
    OBVIOUS
  <2>3. r[x] \in Nat /\ r[y] \in Nat
    BY <1>1, <1>2
  <2>4. Rank(S, x) \in Nat /\ Rank(S, y) \in Nat
    BY FS_Subset, FS_CardinalityType DEF Rank
  <2> HIDE DEF r
  <2> QED
    BY <2>1, <2>2, <2>4
<1> HIDE DEF r
<1>4. r \in Injection(S, D)
  <2>1. \A x, y \in S : r[x] = r[y] => x = y
    <3> SUFFICES ASSUME NEW x \in S, NEW y \in S, r[x] = r[y], x # y PROVE FALSE
      OBVIOUS
    <3>1. x < y \/ y < x
      OBVIOUS
    <3>2. r[x] < r[y] \/ r[y] < r[x]
      BY <1>3, <3>1
    <3>3. r[x] \in Nat /\ r[y] \in Nat
      BY <1>1, <1>2
    <3> QED
      BY <3>2, <3>3
  <2> QED
    BY <1>2, <2>1 DEF Injection, IsInjective
<1>5. r \in Surjection(S, D)
  BY <1>1, <1>4, FS_Injection
<1>6. \A i \in D : t[i] \in S /\ r[t[i]] = i
  BY <1>5 DEF Surjection
<1>7. t \in [D -> S]
  BY <1>6
<1> HIDE DEF t
<1>8. \A i, j \in D : i # j => t[i] # t[j]
  BY <1>6
<1>9. t \in SetToSeqs(S)
  BY <1>7, <1>8 DEF SetToSeqs
<1>10. \A i, j \in D : i < j => t[i] < t[j]
  <2> SUFFICES ASSUME NEW i \in D, NEW j \in D, i < j, ~(t[i] < t[j]) PROVE FALSE
    OBVIOUS
  <2>1. t[i] \in Nat /\ t[j] \in Nat /\ t[i] # t[j]
    <3>1. t[i] \in S /\ t[j] \in S
      BY <1>6
    <3>2. i # j
      BY <1>1
    <3> QED
      BY <1>8, <3>1, <3>2
  <2>2. t[j] < t[i]
    BY <2>1
  <2>3. r[t[j]] < r[t[i]]
    BY <1>3, <1>6, <2>2
  <2> QED
    BY <1>1, <1>6, <2>3
<1> QED
  BY <1>7, <1>9, <1>10

\* tagNames lists the tags that it is given.
LEMMA TagNamesList ==
  ASSUME NEW s \in TagLists
  PROVE  ToSet(tagNames(s)) = ToSet(s)
<1>1. PICK S \in SUBSET Tags : s \in SetToSeqs(S)
  BY DEF TagLists
<1>2. IsFiniteSet(S) /\ S \in SUBSET Nat
  BY TagsAssumption, FS_Subset
<1>3. ToSet(s) = S
  BY <1>1, <1>2, ListOf
<1>4. tagNames(s) \in SetToSeqs(S)
  BY <1>2, <1>3, SortedListExists DEF tagNames
<1> QED
  BY <1>2, <1>3, <1>4, ListOf

\* The comparison (poolDiff, serverSettingsDiff) is exact: of the fields that the
\* resource sets, it finds those in which GARM differs and no others, tags being
\* compared as sets whatever order the user and GARM list them in.
THEOREM ComparisonIsExact ==
  ASSUME NEW k \in Kinds, NEW a \in GarmObject(k), NEW d \in Request(k), NEW f \in Fields(k)
  PROVE  Differs(f, a[f], d[f]) <=> ~Omitted(f, d[f]) /\ ~SameValue(f, a[f], d[f])
<1>1. CASE f = "tags"
  <2>1. a["tags"] \in TagLists /\ d["tags"] \in TagLists
    BY <1>1, KindsAssumption DEF Fields, GarmObject, Request, PoolCreate, GarmPool
  <2>2. tagNames(a["tags"]) = tagNames(d["tags"]) <=> ToSet(a["tags"]) = ToSet(d["tags"])
    BY <2>1, SameTagNames, TagNamesList
  <2> QED
    BY <1>1, <2>2 DEF Differs, SameValue
<1>2. CASE f # "tags"
  BY <1>2 DEF Differs, SameValue
<1> QED
  BY <1>1, <1>2
=============================================================================
