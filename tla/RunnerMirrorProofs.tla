------------------------- MODULE RunnerMirrorProofs -------------------------
(***************************************************************************)
(* Proofs about RunnerMirror, for every value of its constants.             *)
(***************************************************************************)
EXTENDS RunnerMirror, TLAPS

USE MaxDisruptionsAssumption, StatusesAssumption, HomeAssumption, NamesAssumption,
    AbsentAssumption, NobodyAssumption

-----------------------------------------------------------------------------
(* Type correctness.                                                        *)

\* A disruption is paid for from the budget.
LEMMA DisruptBudget ==
  ASSUME TypeOK, NEW kind, Disrupt(kind)
  PROVE  budget' \in 0 .. MaxDisruptions
BY DEF TypeOK, Disrupt

\* What a write does.
LEMMA Stored ==
  ASSUME TypeOK, NEW n \in Names, NEW o \in Runner \cup {Absent}, Store(n, o)
  PROVE  /\ runners' \in [Names -> Runner \cup {Absent}]
         /\ stale' \subseteq Names /\ fresh' \subseteq {"P", "R"}
         /\ \A m \in Names : runners'[m] = IF m = n THEN o ELSE runners[m]
BY DEF TypeOK, Store

LEMMA ShownType ==
  ASSUME NEW o \in Runner, NEW i \in Instances, NEW state \in Statuses
  PROVE  Shown(o, i, state) \in Runner /\ Shown(o, i, state).pool = o.pool
BY DEF Shown, Runner

\* What the workers hold.
LEMMA PoolHolds ==
  ASSUME TypeOK, P # Absent
  PROVE  /\ P \in PoolWorker /\ P.pool \in Pools
         /\ P.todo \in [Instances -> Statuses \cup {"none"}] /\ P.names \subseteq Names
         /\ P.i \in Instances \cup {Nobody} /\ P.copy \in Runner \cup {Absent}
         /\ P.at \in {"create", "status"} => P.i \in Instances /\ P.todo[P.i] # "none"
         /\ P.at = "status" => P.copy # Absent
BY DEF TypeOK, PoolWorker

LEMMA RunnerHolds ==
  ASSUME TypeOK, R # Absent
  PROVE  R \in RunnerWorker /\ R.name \in Names /\ R.copy \in Runner
BY DEF TypeOK, RunnerWorker

LEMMA PoolFailsType ==
  ASSUME TypeOK, P # Absent, PoolFails
  PROVE  /\ P' \in PoolWorker /\ P'.at = "false" /\ P'.i = Nobody
         /\ P'.pool = P.pool /\ P'.todo = Nothing
<1>1. Nothing \in [Instances -> Statuses \cup {"none"}]
  BY DEF Nothing
<1> QED
  BY <1>1, PoolHolds DEF PoolFails, PoolWorker

\* The Runner that the Pool worker creates.
Bare(p) == [pool |-> p, id |-> Nobody, state |-> "none", ready |-> FALSE]

LEMMA BareType == \A p \in Pools \cup {Nobody} : Bare(p) \in Runner
BY DEF Bare, Runner

LEMMA PoolTypes ==
  ASSUME TypeOK, PoolWork
  PROVE  TypeOK'
<1>1. P # Absent /\ P \in PoolWorker
  BY PoolHolds
  DEF PoolWork, PoolList, PoolGet, PoolCreate, PoolStatus, PoolSweepList, PoolSweep, PoolEnd
<1> USE DEF PoolUnchanged, poolSide
<1>2. CASE PoolList
  <2>1. [i \in Instances |-> IF Home[i] = P.pool /\ Alive(i) THEN inst[i] ELSE "none"]
          \in [Instances -> Statuses \cup {"none"}]
    BY DEF Alive
  <2>2. P' \in PoolWorker /\ P'.at \in {"each", "done"}
    BY <1>1, <1>2, <2>1 DEF PoolList, PoolWorker
  <2> QED
    BY <1>2, <2>2, DisruptBudget DEF PoolList, TypeOK
<1>3. ASSUME NEW i \in Instances, PoolGet(i) PROVE TypeOK'
  <2>1. MirrorName[i] \in Names /\ cache[MirrorName[i]] \in Runner \cup {Absent}
    BY DEF TypeOK
  <2>2. P' \in PoolWorker
    BY <1>1, <1>3, <2>1 DEF PoolGet, PoolWorker
  <2> QED
    BY <1>3, <2>2 DEF PoolGet, TypeOK
<1>4. CASE PoolCreate
  <2> DEFINE bare == Bare(P.pool)
             n == MirrorName[P.i]
  <2>1. bare \in Runner /\ n \in Names
    BY <1>1, <1>4, BareType, PoolHolds DEF PoolCreate, TypeOK
  <2>2. CASE /\ runners' = [runners EXCEPT ![n] = bare]
             /\ stale' = stale \cup {n} /\ fresh' = fresh \cup {"P"}
             /\ P' = [P EXCEPT !.at = "status", !.copy = bare]
             /\ UNCHANGED budget
    <3>1. /\ P' \in PoolWorker /\ P'.i = P.i /\ P'.todo = P.todo /\ P'.copy = bare
          /\ P.i \in Instances /\ P.todo[P.i] # "none" /\ bare # Absent
      BY <1>1, <1>4, <2>1, <2>2, PoolHolds DEF PoolCreate, PoolWorker
    <3> HIDE DEF bare, n
    <3> QED
      BY <1>4, <2>1, <2>2, <3>1 DEF PoolCreate, TypeOK
  <2>3. CASE PoolFails /\ UNCHANGED <<runners, stale, fresh>>
             /\ (UNCHANGED budget \/ Disrupt("fault"))
    BY <1>1, <1>4, <2>3, PoolFailsType, DisruptBudget DEF PoolCreate, TypeOK
  <2>4. CASE Disrupt("fault") /\ PoolFails /\ Store(n, bare)
    <3> HIDE DEF bare, n
    <3>1. P' \in PoolWorker /\ P'.at = "false"
      BY <1>1, <2>4, PoolFailsType
    <3>2. /\ runners' \in [Names -> Runner \cup {Absent}]
          /\ stale' \subseteq Names /\ fresh' \subseteq {"P", "R"}
      BY <2>1, <2>4, Stored
    <3>3. budget' \in 0 .. MaxDisruptions
      BY <2>4, DisruptBudget
    <3>4. UNCHANGED <<cache, queue, inst, R, pools, seen, readyPools>>
      BY <1>4 DEF PoolCreate
    <3> QED
      BY <3>1, <3>2, <3>3, <3>4 DEF TypeOK
  <2> QED
    BY <1>4, <2>2, <2>3, <2>4 DEF PoolCreate, Bare
<1>5. CASE PoolStatus
  <2>1. /\ P.i \in Instances /\ P.copy \in Runner /\ P.todo[P.i] \in Statuses
        /\ MirrorName[P.i] \in Names
    BY <1>1, <1>5, PoolHolds DEF PoolStatus, TypeOK
  <2>2. CASE /\ Store(MirrorName[P.i], Shown(P.copy, P.i, P.todo[P.i]))
             /\ P' = [P EXCEPT !.at = "each", !.todo[P.i] = "none", !.i = Nobody,
                               !.copy = Absent]
             /\ UNCHANGED budget
    <3>1. P' \in PoolWorker
      BY <1>1, <2>1, <2>2 DEF PoolWorker
    <3>2. /\ runners' \in [Names -> Runner \cup {Absent}]
          /\ stale' \subseteq Names /\ fresh' \subseteq {"P", "R"}
      BY <2>1, <2>2, ShownType, Stored
    <3> QED
      BY <1>5, <2>2, <3>1, <3>2 DEF PoolStatus, TypeOK
  <2>3. CASE PoolFails /\ UNCHANGED <<runners, stale, fresh>>
             /\ (UNCHANGED budget \/ Disrupt("fault"))
    BY <1>1, <1>5, <2>3, PoolFailsType, DisruptBudget DEF PoolStatus, TypeOK
  <2> QED
    BY <1>5, <2>2, <2>3 DEF PoolStatus
<1>6. CASE PoolSweepList
  <2>1. Surplus(P.names) \subseteq Names
    BY DEF Surplus
  <2>2. P' \in PoolWorker
    BY <1>1, <1>6, <2>1 DEF PoolSweepList, PoolWorker
  <2> QED
    BY <1>6, <2>2 DEF PoolSweepList, TypeOK
<1>7. ASSUME NEW n \in Names, PoolSweep(n) PROVE TypeOK'
  <2>1. CASE /\ Store(n, Absent) /\ UNCHANGED budget
             /\ P' = [P EXCEPT !.names = @ \ {n},
                               !.at = IF P.names = {n} THEN "done" ELSE "sweep"]
    <3>1. P' \in PoolWorker
      BY <1>1, <2>1 DEF PoolWorker
    <3> QED
      BY <1>7, <2>1, <3>1, Stored DEF PoolSweep, TypeOK
  <2>2. CASE PoolFails /\ UNCHANGED <<runners, stale, fresh>> /\ Disrupt("fault")
    BY <1>1, <1>7, <2>2, PoolFailsType, DisruptBudget DEF PoolSweep, TypeOK
  <2> QED
    BY <1>7, <2>1, <2>2 DEF PoolSweep
<1>8. CASE PoolEnd
  <2>1. budget' \in 0 .. MaxDisruptions
    BY <1>8, DisruptBudget DEF PoolEnd, TypeOK
  <2>2. pools' \in [Pools -> PoolState] /\ readyPools' \subseteq Pools
    BY <1>1, <1>8, PoolHolds DEF PoolEnd, TypeOK, PoolState
  <2> QED
    BY <1>8, <2>1, <2>2 DEF PoolEnd, TypeOK
<1> QED
  BY <1>2, <1>3, <1>4, <1>5, <1>6, <1>7, <1>8 DEF PoolWork

LEMMA RunnerWriteType ==
  ASSUME TypeOK, R # Absent, NEW o \in Runner, NEW again \in BOOLEAN, RunnerWrite(o, again)
  PROVE  TypeOK'
<1>1. R.name \in Names
  BY RunnerHolds
<1>2. /\ runners' \in [Names -> Runner \cup {Absent}]
      /\ stale' \subseteq Names /\ fresh' \subseteq {"P", "R"}
  BY <1>1, Stored DEF RunnerWrite, TypeOK
<1>3. R' = Absent /\ queue' \subseteq Names
  BY <1>1 DEF RunnerWrite, RunnerReturn, TypeOK
<1>4. budget' \in 0 .. MaxDisruptions
  BY DisruptBudget DEF RunnerWrite, TypeOK
<1> QED
  BY <1>2, <1>3, <1>4 DEF RunnerWrite, RunnerUnchanged, poolSide, TypeOK

LEMMA RunnerTypes ==
  ASSUME TypeOK, RunnerWork
  PROVE  TypeOK'
<1>1. R # Absent /\ R \in RunnerWorker /\ R.name \in Names /\ R.copy \in Runner
  BY RunnerHolds DEF RunnerWork, RunnerList, RunnerStatus, RunnerFalse, RunnerDelete
<1>2. CASE RunnerList
  <2>1. ASSUME NEW i \in Instances, Alive(i),
               R' = [R EXCEPT !.at = "status", !.copy = Shown(@, i, inst[i])]
        PROVE  R' \in RunnerWorker
    <3> DEFINE o == Shown(R.copy, i, inst[i])
    <3>1. o \in Runner
      BY <1>1, <2>1, ShownType DEF Alive
    <3>2. R' = [R EXCEPT !.at = "status", !.copy = o]
      BY <2>1
    <3> HIDE DEF o
    <3> QED
      BY <1>1, <3>1, <3>2 DEF RunnerWorker
  <2>2. R' \in RunnerWorker
    BY <1>1, <1>2, <2>1 DEF RunnerList, RunnerWorker
  <2> QED
    BY <1>2, <2>2, DisruptBudget DEF RunnerList, RunnerUnchanged, poolSide, TypeOK
<1>3. CASE RunnerStatus
  BY <1>1, <1>3, RunnerWriteType DEF RunnerStatus
<1>4. CASE RunnerFalse
  <2>1. [R.copy EXCEPT !.ready = FALSE] \in Runner
    BY <1>1 DEF Runner
  <2> QED
    BY <1>1, <1>4, <2>1, RunnerWriteType DEF RunnerFalse
<1>5. CASE RunnerDelete
  <2>1. /\ runners' \in [Names -> Runner \cup {Absent}]
        /\ stale' \subseteq Names /\ fresh' \subseteq {"P", "R"}
    BY <1>1, <1>5, Stored DEF RunnerDelete, TypeOK
  <2>2. R' = Absent /\ queue' \subseteq Names
    BY <1>1, <1>5 DEF RunnerDelete, RunnerReturn, TypeOK
  <2>3. budget' \in 0 .. MaxDisruptions
    BY <1>5, DisruptBudget DEF RunnerDelete, TypeOK
  <2> QED
    BY <1>5, <2>1, <2>2, <2>3 DEF RunnerDelete, RunnerUnchanged, poolSide, TypeOK
<1> QED
  BY <1>2, <1>3, <1>4, <1>5 DEF RunnerWork

LEMMA StartTypes ==
  ASSUME TypeOK, (\E p \in Pools : PoolStart(p)) \/ (\E n \in Names : RunnerStart(n))
  PROVE  TypeOK'
<1>1. ASSUME NEW p \in Pools, PoolStart(p) PROVE TypeOK'
  <2>1. Nothing \in [Instances -> Statuses \cup {"none"}]
    BY DEF Nothing
  <2>2. P' \in PoolWorker
    BY <1>1, <2>1 DEF PoolStart, PoolWorker
  <2> QED
    BY <1>1, <2>2 DEF PoolStart, PoolUnchanged, poolSide, TypeOK
<1>2. ASSUME NEW n \in Names, RunnerStart(n) PROVE TypeOK'
  <2>1. CASE cache[n] = Absent
    BY <1>2, <2>1 DEF RunnerStart, RunnerUnchanged, poolSide, TypeOK
  <2>2. CASE cache[n] # Absent
    <3>1. cache[n] \in Runner /\ FirstCall(cache[n]) \in {"list", "false", "reject", "delete"}
      BY <2>2 DEF TypeOK, FirstCall, Runner
    <3>2. R' \in RunnerWorker
      BY <1>2, <2>2, <3>1 DEF RunnerStart, RunnerWorker
    <3> QED
      BY <1>2, <2>2, <3>2 DEF RunnerStart, RunnerUnchanged, poolSide, TypeOK
  <2> QED
    BY <2>1, <2>2
<1> QED
  BY <1>1, <1>2

LEMMA WorldTypes ==
  ASSUME TypeOK, Environment
  PROVE  TypeOK'
<1> USE DEF Outside, poolSide
<1>1. ASSUME NEW n \in Names, CacheSync(n) PROVE TypeOK'
  BY <1>1 DEF CacheSync, TypeOK
<1>2. ASSUME NEW n \in Names, UserCreate(n) PROVE TypeOK'
  <2>1. PICK p \in Pools \cup {Nobody} : Store(n, Bare(p))
    BY <1>2 DEF UserCreate, Bare
  <2>2. Bare(p) \in Runner
    BY BareType
  <2> QED
    BY <1>2, <2>1, <2>2, Stored, DisruptBudget DEF UserCreate, TypeOK
<1>3. ASSUME NEW n \in Names, UserDelete(n) \/ Collect(n) PROVE TypeOK'
  BY <1>3, Stored, DisruptBudget DEF UserDelete, Collect, TypeOK
<1>4. ASSUME NEW p \in Pools, PoolSync(p) PROVE TypeOK'
  BY <1>4 DEF PoolSync, TypeOK
<1>5. ASSUME NEW p \in Pools, PoolGone(p) PROVE TypeOK'
  <2>1. pools' \in [Pools -> PoolState]
    BY <1>5 DEF PoolGone, TypeOK, PoolState
  <2> QED
    BY <1>5, <2>1, DisruptBudget DEF PoolGone, TypeOK
<1>6. ASSUME NEW i \in Instances, Live(i) PROVE TypeOK'
  <2>1. inst' \in [Instances -> Statuses \cup {"unborn", "gone"}]
    BY <1>6 DEF Live, TypeOK
  <2> QED
    BY <1>6, <2>1 DEF Live, TypeOK
<1>7. CASE Crash
  BY <1>7, DisruptBudget DEF Crash, TypeOK
<1> QED
  BY <1>1, <1>2, <1>3, <1>4, <1>5, <1>6, <1>7 DEF Environment

LEMMA TypeNext ==
  ASSUME TypeOK, [Next]_vars
  PROVE  TypeOK'
<1>1. CASE UNCHANGED vars
  BY <1>1 DEF vars, poolSide, TypeOK
<1> QED
  BY <1>1, StartTypes, PoolTypes, RunnerTypes, WorldTypes DEF Next

LEMMA TypeInit == Init => TypeOK
<1> SUFFICES ASSUME Init PROVE TypeOK
  OBVIOUS
<1>1. /\ runners \in [Names -> Runner \cup {Absent}]
      /\ cache \in [Names -> Runner \cup {Absent}]
      /\ inst \in [Instances -> Statuses \cup {"unborn", "gone"}]
  BY DEF Init
<1>2. pools \in [Pools -> PoolState] /\ seen \in [Pools -> PoolState]
  BY DEF Init, PoolState
<1> QED
  BY <1>1, <1>2 DEF Init, TypeOK

\* The state keeps its shape, and the Pool worker that is about to create or to
\* write a mirror has an instance that it listed.
THEOREM TypeCorrect == Spec => []TypeOK
<1> QED
  BY TypeInit, TypeNext, PTL DEF Spec

-----------------------------------------------------------------------------
(* What a step does to the copies of a mirror and to an instance.            *)

LEMMA IsCopy ==
  ASSUME NEW n, NEW o
  PROVE  o \in Copies(n) <=>
           /\ o # Absent
           /\ \/ o = runners[n]
              \/ o = cache[n]
              \/ P # Absent /\ P.i # Nobody /\ MirrorName[P.i] = n /\ o = P.copy
              \/ R # Absent /\ R.name = n /\ o = R.copy
BY DEF Copies

\* The workers' copies, as the next state has them.
LEMMA IsCopyNext ==
  ASSUME NEW n, NEW o \in Copies(n)'
  PROVE  /\ o # Absent
         /\ \/ o = runners'[n]
            \/ o = cache'[n]
            \/ P' # Absent /\ P'.i # Nobody /\ MirrorName[P'.i] = n /\ o = P'.copy
            \/ R' # Absent /\ R'.name = n /\ o = R'.copy
BY DEF Copies

\* A new copy of a mirror is for the pool that an earlier copy is for, or the Pool
\* worker has just created it.
Created(i, o) == P # Absent /\ P.at = "create" /\ i = P.i /\ o.pool = P.pool
Kept(i, o) == (\E q \in Copies(MirrorName[i]) : q.pool = o.pool) \/ Created(i, o)

\* An action that leaves the workers alone or lets them go writes nothing but o or
\* an earlier copy.
LEMMA KeptByWrite ==
  ASSUME TypeOK, NEW i \in Instances, NEW n \in Names, NEW w, Store(n, w),
         w = Absent \/ n # MirrorName[i] \/ Kept(i, w),
         UNCHANGED cache,
         UNCHANGED P \/ P' = Absent \/ P'.i = Nobody
                     \/ (P # Absent /\ P'.i = P.i /\ P'.copy = P.copy),
         UNCHANGED R \/ R' = Absent,
         NEW o \in Copies(MirrorName[i])'
  PROVE  Kept(i, o)
<1> DEFINE m == MirrorName[i]
<1>1. m \in Names /\ runners'[m] \in {runners[m], IF n = m THEN w ELSE runners[m]}
  BY DEF Store, TypeOK
<1>2. (o = w /\ n = m) \/ o \in Copies(m)
  BY <1>1, IsCopyNext, IsCopy
<1> QED
  BY <1>2, IsCopyNext DEF Kept

LEMMA KeptByPool ==
  ASSUME NamesFit, TypeOK, PoolWork, NEW i \in Instances, NEW o \in Copies(MirrorName[i])'
  PROVE  Kept(i, o)
<1> DEFINE m == MirrorName[i]
<1>1. P # Absent /\ P \in PoolWorker
  BY PoolHolds
  DEF PoolWork, PoolList, PoolGet, PoolCreate, PoolStatus, PoolSweepList, PoolSweep, PoolEnd
<1> USE DEF PoolUnchanged
<1>2. CASE PoolList
  <2>1. P' # Absent => P'.i = P.i /\ P'.copy = P.copy
    BY <1>1, <1>2 DEF PoolList, PoolWorker
  <2> QED
    BY <1>2, <1>1, <2>1, IsCopyNext, IsCopy DEF PoolList, Kept
<1>3. ASSUME NEW j \in Instances, PoolGet(j) PROVE Kept(i, o)
  <2>1. P'.i = j /\ P'.copy = cache[MirrorName[j]]
    BY <1>1, <1>3 DEF PoolGet, PoolWorker
  <2> QED
    BY <1>3, <2>1, IsCopyNext, IsCopy DEF PoolGet, Kept
<1>4. CASE PoolCreate
  <2>1. P.i \in Instances /\ MirrorName[P.i] \in Names
    BY <1>1, <1>4, PoolHolds DEF PoolCreate
  <2> DEFINE w == Bare(P.pool)
  <2>2. w.pool = P.pool
    BY DEF Bare
  <2>3. MirrorName[P.i] = m => Created(i, w)
    BY <1>1, <1>4, <2>1, <2>2 DEF NamesFit, Created, PoolCreate
  <2>4. CASE /\ runners' = [runners EXCEPT ![MirrorName[P.i]] = w]
             /\ P' = [P EXCEPT !.at = "status", !.copy = w]
    <3>1. P'.i = P.i /\ P'.copy = w
      BY <1>1, <2>4 DEF PoolWorker
    <3>2. runners'[m] = IF MirrorName[P.i] = m THEN w ELSE runners[m]
      BY <2>1, <2>4 DEF TypeOK
    <3>3. UNCHANGED <<cache, R>>
      BY <1>4 DEF PoolCreate
    <3>4. o \in Copies(m) \/ (o = w /\ MirrorName[P.i] = m)
      BY <3>1, <3>2, <3>3, IsCopyNext, IsCopy
    <3> QED
      BY <2>3, <3>4 DEF Kept
  <2>5. CASE PoolFails
    <3>1. P'.i = Nobody
      BY <1>1, <2>5, PoolFailsType
    <3>2. CASE UNCHANGED runners
      BY <1>4, <3>1, <3>2, IsCopyNext, IsCopy DEF PoolCreate, Kept
    <3>3. CASE Store(MirrorName[P.i], w)
      <4>1. MirrorName[P.i] # m \/ Kept(i, w)
        BY <2>3 DEF Kept
      <4>2. UNCHANGED <<cache, R>>
        BY <1>4 DEF PoolCreate
      <4> HIDE DEF w
      <4> QED
        BY <2>1, <3>1, <3>3, <4>1, <4>2, KeptByWrite
    <3>4. UNCHANGED runners \/ Store(MirrorName[P.i], w)
      <4>1. w = [pool |-> P.pool, id |-> Nobody, state |-> "none", ready |-> FALSE]
        BY DEF Bare
      <4>2. P'.at # "status"
        BY <1>1, <2>5, PoolFailsType
      <4>3. CASE P' = [P EXCEPT !.at = "status", !.copy = w]
        BY <1>1, <4>2, <4>3 DEF PoolWorker
      <4> HIDE DEF w
      <4> QED
        BY <1>4, <4>1, <4>3 DEF PoolCreate
    <3> QED
      BY <3>2, <3>3, <3>4
  <2> QED
    BY <1>4, <2>4, <2>5 DEF PoolCreate, Bare
<1>5. CASE PoolStatus
  <2>1. /\ P.i \in Instances /\ P.copy \in Runner /\ P.todo[P.i] \in Statuses
        /\ MirrorName[P.i] \in Names
    BY <1>1, <1>5, PoolHolds DEF PoolStatus, TypeOK
  <2> DEFINE w == Shown(P.copy, P.i, P.todo[P.i])
  <2>2. w \in Runner /\ w.pool = P.copy.pool
    BY <2>1, ShownType
  <2>3. P.i # Nobody /\ P.copy # Absent
    BY <2>1
  <2>4. MirrorName[P.i] # m \/ Kept(i, w)
    BY <1>1, <2>2, <2>3, IsCopy DEF Kept
  <2>5. P'.i = Nobody
    BY <1>1, <1>5, PoolFailsType DEF PoolStatus, PoolWorker
  <2>6. UNCHANGED <<cache, R>>
    BY <1>5 DEF PoolStatus
  <2>7. CASE UNCHANGED runners
    BY <2>5, <2>6, <2>7, IsCopyNext, IsCopy DEF Kept
  <2>8. CASE Store(MirrorName[P.i], w)
    <3> HIDE DEF w
    <3> QED
      BY <2>1, <2>4, <2>5, <2>6, <2>8, KeptByWrite
  <2>9. UNCHANGED runners \/ Store(MirrorName[P.i], w)
    BY <1>5 DEF PoolStatus
  <2> QED
    BY <2>7, <2>8, <2>9
<1>6. CASE PoolSweepList
  <2>1. P'.i = P.i /\ P'.copy = P.copy
    BY <1>1, <1>6 DEF PoolSweepList, PoolWorker
  <2>2. UNCHANGED <<runners, cache, R>>
    BY <1>6 DEF PoolSweepList
  <2>3. o \in Copies(m)
    BY <1>1, <2>1, <2>2, IsCopyNext, IsCopy
  <2> QED
    BY <2>3 DEF Kept
<1>7. ASSUME NEW n \in Names, PoolSweep(n) PROVE Kept(i, o)
  <2>1. CASE Store(n, Absent) /\ P' = [P EXCEPT !.names = @ \ {n},
                               !.at = IF P.names = {n} THEN "done" ELSE "sweep"]
    <3>1. P'.i = P.i /\ P'.copy = P.copy
      BY <1>1, <2>1 DEF PoolWorker
    <3>2. UNCHANGED <<cache, R>>
      BY <1>7 DEF PoolSweep
    <3>3. runners'[m] = runners[m] \/ runners'[m] = Absent
      BY <2>1 DEF Store, TypeOK
    <3> QED
      BY <1>1, <3>1, <3>2, <3>3, IsCopyNext, IsCopy DEF Kept
  <2>2. CASE PoolFails /\ UNCHANGED runners
    <3>1. P'.i = Nobody
      BY <1>1, <2>2, PoolFailsType
    <3> QED
      BY <1>7, <2>2, <3>1, IsCopyNext, IsCopy DEF PoolSweep, Kept
  <2> QED
    BY <1>7, <2>1, <2>2 DEF PoolSweep
<1>8. CASE PoolEnd
  BY <1>8, IsCopyNext, IsCopy DEF PoolEnd, Kept
<1> QED
  BY <1>2, <1>3, <1>4, <1>5, <1>6, <1>7, <1>8 DEF PoolWork

LEMMA KeptByRunner ==
  ASSUME TypeOK, RunnerWork \/ (\E n \in Names : RunnerStart(n)),
         NEW i \in Instances, NEW o \in Copies(MirrorName[i])'
  PROVE  Kept(i, o)
<1> DEFINE m == MirrorName[i]
<1> USE DEF RunnerUnchanged
<1>1. ASSUME NEW n \in Names, RunnerStart(n) PROVE Kept(i, o)
  <2>1. CASE cache[n] = Absent
    BY <1>1, <2>1, IsCopyNext, IsCopy DEF RunnerStart, Kept
  <2>2. CASE cache[n] # Absent
    <3>1. R'.copy = cache[n] /\ R'.name = n
      BY <1>1, <2>2 DEF RunnerStart
    <3>2. UNCHANGED <<runners, cache, P>>
      BY <1>1 DEF RunnerStart
    <3>3. o \in Copies(m)
      BY <3>1, <3>2, IsCopyNext, IsCopy
    <3> QED
      BY <3>3 DEF Kept
  <2> QED
    BY <2>1, <2>2
<1>2. CASE RunnerList
  <2>1. R # Absent /\ R \in RunnerWorker /\ R.copy \in Runner
    BY <1>2, RunnerHolds DEF RunnerList
  <2>2. UNCHANGED <<runners, cache, P>>
    BY <1>2 DEF RunnerList
  <2>3. R'.name = R.name
    BY <1>2, <2>1 DEF RunnerList, RunnerWorker
  <2>4. R'.copy.pool = R.copy.pool
    <3>1. ASSUME NEW j \in Instances, Alive(j),
                 R' = [R EXCEPT !.at = "status", !.copy = Shown(@, j, inst[j])]
          PROVE  R'.copy.pool = R.copy.pool
      <4>1. R'.copy = Shown(R.copy, j, inst[j])
        BY <2>1, <3>1 DEF RunnerWorker
      <4> QED
        BY <2>1, <3>1, <4>1, ShownType DEF Alive
    <3> QED
      BY <1>2, <2>1, <3>1 DEF RunnerList, RunnerWorker
  <2>5. o \in Copies(m) \/ (R.name = m /\ o = R'.copy)
    BY <2>2, <2>3, IsCopyNext, IsCopy
  <2>6. CASE R.name = m /\ o = R'.copy
    <3>1. R.copy \in Copies(m)
      BY <2>1, <2>6, IsCopy
    <3> QED
      BY <2>4, <2>6, <3>1 DEF Kept
  <2> QED
    BY <2>5, <2>6 DEF Kept
<1>3. ASSUME R # Absent, NEW w \in Runner, w.pool = R.copy.pool, NEW again, RunnerWrite(w, again)
      PROVE  Kept(i, o)
  <2>1. R' = Absent /\ UNCHANGED <<cache, P>> /\ R.name \in Names /\ R.copy \in Runner
    BY <1>3, RunnerHolds DEF RunnerWrite, RunnerReturn
  <2>2. R.name # m \/ Kept(i, w)
    BY <1>3, <2>1, IsCopy DEF Kept
  <2>3. CASE UNCHANGED runners
    <3>1. o \in Copies(m)
      BY <2>1, <2>3, IsCopyNext, IsCopy
    <3> QED
      BY <3>1 DEF Kept
  <2>4. CASE Store(R.name, w)
    BY <2>1, <2>2, <2>4, KeptByWrite
  <2> QED
    BY <1>3, <2>3, <2>4 DEF RunnerWrite
<1>4. CASE RunnerStatus
  BY <1>3, <1>4, RunnerHolds DEF RunnerStatus
<1>5. CASE RunnerFalse
  <2>1. /\ [R.copy EXCEPT !.ready = FALSE] \in Runner
        /\ [R.copy EXCEPT !.ready = FALSE].pool = R.copy.pool
    BY <1>5, RunnerHolds DEF RunnerFalse, Runner
  <2> QED
    BY <1>3, <1>5, <2>1 DEF RunnerFalse
<1>6. CASE RunnerDelete
  <2>1. R' = Absent /\ UNCHANGED <<cache, P>> /\ R.name \in Names
    BY <1>6, RunnerHolds DEF RunnerDelete, RunnerReturn
  <2>2. CASE UNCHANGED runners
    <3>1. o \in Copies(m)
      BY <2>1, <2>2, IsCopyNext, IsCopy
    <3> QED
      BY <3>1 DEF Kept
  <2>3. CASE Store(R.name, Absent)
    BY <2>1, <2>3, KeptByWrite
  <2> QED
    BY <1>6, <2>2, <2>3 DEF RunnerDelete
<1> QED
  BY <1>1, <1>2, <1>4, <1>5, <1>6 DEF RunnerWork

LEMMA KeptByWorld ==
  ASSUME NamesFit, TypeOK, Environment \/ (\E p \in Pools : PoolStart(p)),
         NEW i \in Instances, NEW o \in Copies(MirrorName[i])'
  PROVE  Kept(i, o)
<1> DEFINE m == MirrorName[i]
<1> USE DEF Outside, PoolUnchanged
<1>1. ASSUME NEW p \in Pools, PoolStart(p) PROVE Kept(i, o)
  <2>1. P'.i = Nobody /\ UNCHANGED <<runners, cache, R>>
    BY <1>1 DEF PoolStart
  <2>2. o \in Copies(m)
    BY <2>1, IsCopyNext, IsCopy
  <2> QED
    BY <2>2 DEF Kept
<1>2. ASSUME NEW n \in Names, CacheSync(n) PROVE Kept(i, o)
  <2>1. cache'[m] = cache[m] \/ cache'[m] = runners[m]
    BY <1>2 DEF CacheSync, TypeOK
  <2>2. UNCHANGED <<runners, P, R>>
    BY <1>2 DEF CacheSync
  <2>3. o \in Copies(m)
    BY <2>1, <2>2, IsCopyNext, IsCopy
  <2> QED
    BY <2>3 DEF Kept
<1>3. ASSUME NEW n \in Names, UserCreate(n) PROVE Kept(i, o)
  <2>1. PICK p \in Pools \cup {Nobody} : Store(n, Bare(p))
    BY <1>3 DEF UserCreate, Bare
  <2>2. n # m
    BY <1>3 DEF UserCreate, NamesFit
  <2>3. UNCHANGED <<cache, P, R>>
    BY <1>3 DEF UserCreate
  <2> QED
    BY <2>1, <2>2, <2>3, KeptByWrite
<1>4. ASSUME NEW n \in Names, UserDelete(n) \/ Collect(n) PROVE Kept(i, o)
  <2>1. Store(n, Absent) /\ UNCHANGED <<cache, P, R>>
    BY <1>4 DEF UserDelete, Collect
  <2> QED
    BY <2>1, KeptByWrite
<1>5. ASSUME UNCHANGED <<runners, cache, P, R>> PROVE Kept(i, o)
  <2>1. o \in Copies(m)
    BY <1>5, IsCopyNext, IsCopy
  <2> QED
    BY <2>1 DEF Kept
<1>6. CASE Crash
  <2>1. P' = Absent /\ R' = Absent /\ cache' = runners /\ runners' = runners
    BY <1>6 DEF Crash
  <2>2. o \in Copies(m)
    BY <2>1, IsCopyNext, IsCopy
  <2> QED
    BY <2>2 DEF Kept
<1> QED
  BY <1>1, <1>2, <1>3, <1>4, <1>5, <1>6 DEF Environment, PoolSync, PoolGone, Live

\* Every copy of the mirror of an instance comes from one that was there, or from
\* the Pool worker that has just created it.
LEMMA CopiesKept ==
  ASSUME NamesFit, TypeOK, [Next]_vars, NEW i \in Instances, NEW o \in Copies(MirrorName[i])'
  PROVE  Kept(i, o)
<1>1. CASE UNCHANGED vars
  <2>1. o \in Copies(MirrorName[i])
    BY <1>1, IsCopyNext, IsCopy DEF vars
  <2> QED
    BY <2>1 DEF Kept
<1> QED
  BY <1>1, KeptByPool, KeptByRunner, KeptByWorld DEF Next

\* An instance that was started does not become unborn, and one that has gone stays
\* away; the step that starts it changes nothing else.
LEMMA InstanceLife ==
  ASSUME TypeOK, [Next]_vars, NEW i \in Instances
  PROVE  /\ inst[i] # "unborn" => inst'[i] # "unborn"
         /\ inst[i] = "gone" => inst'[i] = "gone"
         /\ Alive(i)' /\ ~Alive(i) =>
              /\ pools[Home[i]] # "absent" /\ inst[i] = "unborn"
              /\ UNCHANGED <<runners, cache, stale, queue, poolSide, P, R, fresh, budget>>
<1>1. ASSUME NEW j \in Instances, Live(j)
      PROVE  /\ inst[i] # "unborn" => inst'[i] # "unborn"
             /\ inst[i] = "gone" => inst'[i] = "gone"
             /\ Alive(i)' /\ ~Alive(i) =>
                  /\ pools[Home[i]] # "absent" /\ inst[i] = "unborn"
                  /\ UNCHANGED <<runners, cache, stale, queue, poolSide, P, R, fresh, budget>>
  BY <1>1 DEF Live, Alive, TypeOK
<1>2. ASSUME UNCHANGED inst
      PROVE  /\ inst[i] # "unborn" => inst'[i] # "unborn"
             /\ inst[i] = "gone" => inst'[i] = "gone"
             /\ Alive(i)' => Alive(i)
  BY <1>2 DEF Alive
<1>3. (\E j \in Instances : Live(j)) \/ UNCHANGED inst
  <2>1. CASE PoolWork
    BY <2>1 DEF PoolWork, PoolList, PoolGet, PoolCreate, PoolStatus, PoolSweepList,
                PoolSweep, PoolEnd, PoolUnchanged
  <2>2. CASE RunnerWork
    BY <2>2 DEF RunnerWork, RunnerList, RunnerStatus, RunnerFalse, RunnerDelete,
                RunnerWrite, RunnerUnchanged
  <2>3. CASE Environment
    BY <2>3 DEF Environment, CacheSync, UserCreate, UserDelete, Collect, PoolSync,
                PoolGone, Crash, Outside
  <2>4. CASE (\E p \in Pools : PoolStart(p)) \/ (\E n \in Names : RunnerStart(n))
    BY <2>4 DEF PoolStart, RunnerStart, PoolUnchanged, RunnerUnchanged
  <2> QED
    BY <2>1, <2>2, <2>3, <2>4 DEF Next, vars
<1> QED
  BY <1>1, <1>2, <1>3

-----------------------------------------------------------------------------
(* The mirror of a running instance stays.                                   *)

LEMMA MirrorsHoldNext ==
  ASSUME NamesFit, TypeOK, MirrorInv, [Next]_vars
  PROVE  MirrorsHold'
<1> SUFFICES ASSUME NEW i \in Instances, NEW o \in Copies(MirrorName[i])'
             PROVE  o.pool = Home[i] /\ inst'[i] # "unborn"
  BY DEF MirrorsHold
<1>1. Kept(i, o)
  BY CopiesKept
<1>2. inst[i] # "unborn" => inst'[i] # "unborn"
  BY InstanceLife
<1>3. CASE \E q \in Copies(MirrorName[i]) : q.pool = o.pool
  BY <1>2, <1>3 DEF MirrorInv, MirrorsHold
<1>4. CASE Created(i, o)
  <2>1. P.todo[i] # "none" /\ o.pool = P.pool
    BY <1>4, PoolHolds DEF Created
  <2>2. Home[i] = P.pool /\ inst[i] # "unborn"
    BY <1>4, <2>1 DEF Created, MirrorInv, PoolWorkerHolds
  <2> QED
    BY <1>2, <2>1, <2>2
<1> QED
  BY <1>1, <1>3, <1>4 DEF Kept

\* What happens to Pools.
LEMMA PoolLife ==
  ASSUME TypeOK, MirrorInv, [Next]_vars, NEW p \in Pools
  PROVE  /\ pools'[p] = "absent" => pools[p] = "absent" \/ PoolGone(p)
         /\ pools[p] = "absent" => pools'[p] = "absent"
         /\ seen'[p] = "absent" => seen[p] = "absent" \/ pools'[p] = "absent"
<1>1. CASE PoolEnd
  <2>1. P # Absent /\ UNCHANGED seen
    BY <1>1 DEF PoolEnd
  <2>2. pools[P.pool] # "absent" /\ P.pool \in Pools
    BY <2>1, PoolHolds DEF MirrorInv, PoolWorkerHolds
  <2> QED
    BY <1>1, <2>1, <2>2 DEF PoolEnd, TypeOK
<1>2. ASSUME NEW q \in Pools, PoolGone(q)
      PROVE  /\ pools'[p] = "absent" => pools[p] = "absent" \/ PoolGone(p)
             /\ pools[p] = "absent" => pools'[p] = "absent"
             /\ seen'[p] = "absent" => seen[p] = "absent" \/ pools'[p] = "absent"
  <2>1. pools' = [pools EXCEPT ![q] = "absent"] /\ UNCHANGED seen
    BY <1>2 DEF PoolGone
  <2> QED
    BY <1>2, <2>1 DEF TypeOK
<1>3. ASSUME NEW q \in Pools, PoolSync(q)
      PROVE  UNCHANGED pools /\ (seen'[p] = seen[p] \/ seen'[p] = pools[p])
  BY <1>3 DEF PoolSync, TypeOK
<1>4. CASE Crash
  BY <1>4 DEF Crash
<1>5. CASE UNCHANGED <<pools, seen>>
  BY <1>5
<1>6. \/ UNCHANGED <<pools, seen>>
      \/ PoolEnd \/ Crash
      \/ \E q \in Pools : PoolGone(q) \/ PoolSync(q)
  <2>1. CASE PoolWork
    BY <2>1 DEF PoolWork, PoolList, PoolGet, PoolCreate, PoolStatus, PoolSweepList,
                PoolSweep, poolSide
  <2>2. CASE RunnerWork
    BY <2>2 DEF RunnerWork, RunnerList, RunnerStatus, RunnerFalse, RunnerDelete,
                RunnerWrite, RunnerUnchanged, poolSide
  <2>3. CASE Environment
    BY <2>3 DEF Environment, CacheSync, UserCreate, UserDelete, Collect, Live, Outside, poolSide
  <2>4. CASE (\E q \in Pools : PoolStart(q)) \/ (\E n \in Names : RunnerStart(n))
    BY <2>4 DEF PoolStart, RunnerStart, RunnerUnchanged, poolSide
  <2> QED
    BY <2>1, <2>2, <2>3, <2>4 DEF Next, vars, poolSide
<1> QED
  BY <1>1, <1>2, <1>3, <1>4, <1>5, <1>6

LEMMA PoolsGoLastNext ==
  ASSUME TypeOK, MirrorInv, [Next]_vars
  PROVE  PoolsGoLast'
<1> SUFFICES ASSUME NEW p \in Pools
             PROVE  /\ seen'[p] = "absent" => pools'[p] = "absent"
                    /\ pools'[p] = "absent" =>
                         \A i \in Instances : Home[i] = p => ~Alive(i)'
  BY DEF PoolsGoLast
<1>1. seen'[p] = "absent" => pools'[p] = "absent"
  BY PoolLife DEF MirrorInv, PoolsGoLast
<1>2. ASSUME pools'[p] = "absent", NEW i \in Instances, Home[i] = p PROVE ~Alive(i)'
  <2>1. CASE pools[p] = "absent"
    BY <1>2, <2>1, InstanceLife DEF MirrorInv, PoolsGoLast
  <2>2. CASE PoolGone(p)
    BY <1>2, <2>2 DEF PoolGone, Alive
  <2> QED
    BY <1>2, <2>1, <2>2, PoolLife
<1> QED
  BY <1>1, <1>2

\* While the Pool worker goes through its list, an instance of its pool that runs
\* is still on the list, or its mirror is to be kept, or it has none.
LEMMA EachKept ==
  ASSUME NamesFit, TypeOK, MirrorInv, [Next]_vars, P # Absent,
         P.at \in {"each", "create", "status"},
         NEW i \in Instances, Home[i] = P.pool, Alive(i)'
  PROVE  \/ P.todo[i] # "none"
         \/ MirrorName[i] \in P.names
         \/ Copies(MirrorName[i])' = {}
<1>1. CASE Alive(i)
  <2>1. CASE Copies(MirrorName[i]) = {}
    <3> SUFFICES ASSUME NEW o \in Copies(MirrorName[i])'
                 PROVE  MirrorName[i] \in P.names
      OBVIOUS
    <3>1. Created(i, o)
      BY <2>1, CopiesKept DEF Kept
    <3> QED
      BY <3>1 DEF Created, MirrorInv, PoolWorkerHolds
  <2> QED
    BY <1>1, <2>1 DEF MirrorInv, PoolWorkerHolds
<1>2. CASE ~Alive(i)
  <2>1. inst[i] = "unborn" /\ UNCHANGED <<runners, cache, P, R>>
    BY <1>2, InstanceLife
  <2>2. Copies(MirrorName[i]) = {}
    BY <2>1 DEF MirrorInv, MirrorsHold
  <2>3. ASSUME NEW o \in Copies(MirrorName[i])' PROVE FALSE
    <3>1. o \in Copies(MirrorName[i])
      BY <2>1, IsCopyNext, IsCopy
    <3> QED
      BY <2>2, <3>1
  <2> QED
    BY <2>3
<1> QED
  BY <1>1, <1>2

\* The steps of others leave the Pool worker what it holds.
LEMMA PoolWorkerBystands ==
  ASSUME NamesFit, TypeOK, MirrorInv, [Next]_vars, UNCHANGED P, P # Absent
  PROVE  PoolWorkerHolds'
<1>1. P.pool \in Pools /\ pools'[P.pool] # "absent"
  BY PoolHolds, PoolLife DEF MirrorInv, PoolWorkerHolds, PoolGone
<1>2. ASSUME NEW i \in Instances, P.todo[i] # "none"
      PROVE  Home[i] = P.pool /\ inst'[i] # "unborn"
  BY <1>2, InstanceLife DEF MirrorInv, PoolWorkerHolds
<1>3. P.at \in {"create", "status"} => MirrorName[P.i] \in P.names
  BY DEF MirrorInv, PoolWorkerHolds
<1>4. ASSUME P.at = "sweep", NEW i \in Instances, MirrorName[i] \in P.names
      PROVE  inst'[i] = "gone"
  BY <1>4, InstanceLife DEF MirrorInv, PoolWorkerHolds
<1>5. P.at \in {"each", "create", "status"} =>
         \A i \in Instances : Home[i] = P.pool /\ Alive(i)' =>
           \/ P.todo[i] # "none"
           \/ MirrorName[i] \in P.names
           \/ Copies(MirrorName[i])' = {}
  BY EachKept
<1> QED
  BY <1>1, <1>2, <1>3, <1>4, <1>5 DEF PoolWorkerHolds

\* An instance that runs has no mirror that the Pool worker sweeps away.
LEMMA SurplusGone ==
  ASSUME TypeOK, MirrorInv, P # Absent, P.at = "each", P.todo = Nothing,
         NEW i \in Instances, MirrorName[i] \in Surplus(P.names)
  PROVE  inst[i] = "gone"
<1> DEFINE m == MirrorName[i]
<1>1. cache[m] # Absent /\ cache[m].pool = P.pool /\ m \notin P.names
  BY DEF Surplus
<1>2. cache[m] \in Copies(m)
  BY <1>1, IsCopy
<1>3. Home[i] = P.pool /\ inst[i] # "unborn"
  BY <1>1, <1>2 DEF MirrorInv, MirrorsHold
<1>4. P.todo[i] = "none"
  BY DEF Nothing
<1>5. ~Alive(i)
  BY <1>1, <1>2, <1>3, <1>4 DEF MirrorInv, PoolWorkerHolds
<1> QED
  BY <1>3, <1>5 DEF Alive, TypeOK

LEMMA PoolWorkerSteps ==
  ASSUME NamesFit, TypeOK, MirrorInv, [Next]_vars,
         PoolWork \/ (\E p \in Pools : PoolStart(p)), P' # Absent
  PROVE  PoolWorkerHolds'
<1> USE DEF PoolUnchanged, poolSide
<1>1. ASSUME NEW p \in Pools, PoolStart(p) PROVE PoolWorkerHolds'
  <2>1. P'.pool = p /\ P'.at = "list" /\ P'.todo = Nothing /\ pools'[p] # "absent"
    BY <1>1 DEF PoolStart
  <2> QED
    BY <2>1 DEF PoolWorkerHolds, Nothing
<1>2. ASSUME PoolWork PROVE PoolWorkerHolds'
  <2>1. P # Absent /\ P \in PoolWorker /\ P.pool \in Pools /\ UNCHANGED inst
    BY <1>2, PoolHolds
    DEF PoolWork, PoolList, PoolGet, PoolCreate, PoolStatus, PoolSweepList, PoolSweep, PoolEnd
  <2>2. pools'[P.pool] # "absent"
    BY <2>1, PoolLife DEF MirrorInv, PoolWorkerHolds, PoolGone
  <2>3. ASSUME NEW i \in Instances, P.todo[i] # "none"
        PROVE  Home[i] = P.pool /\ inst'[i] # "unborn"
    BY <2>1, <2>3 DEF MirrorInv, PoolWorkerHolds
  <2>4. CASE PoolFails
    <3>1. P'.at = "false" /\ P'.pool = P.pool /\ P'.todo = Nothing
      BY <2>1, <2>4, PoolFailsType
    <3> QED
      BY <2>2, <3>1 DEF PoolWorkerHolds, Nothing
  <2>5. CASE PoolList
    <3> DEFINE todo == [i \in Instances |->
                          IF Home[i] = P.pool /\ Alive(i) THEN inst[i] ELSE "none"]
    <3>1. CASE P' = [P EXCEPT !.at = "each", !.todo = todo]
      <4>1. P'.at = "each" /\ P'.pool = P.pool /\ P'.todo = todo
        BY <2>1, <3>1 DEF PoolWorker
      <4>2. ASSUME NEW i \in Instances, todo[i] # "none"
            PROVE  Home[i] = P.pool /\ inst'[i] # "unborn"
        BY <2>1, <4>2 DEF Alive
      <4>3. ASSUME NEW i \in Instances, Home[i] = P.pool, Alive(i)' PROVE todo[i] # "none"
        BY <2>1, <4>3 DEF Alive
      <4> HIDE DEF todo
      <4> QED
        BY <2>2, <4>1, <4>2, <4>3 DEF PoolWorkerHolds
    <3>2. CASE P' = [P EXCEPT !.at = "done"]
      <4>1. P'.at = "done" /\ P'.pool = P.pool /\ P'.todo = P.todo
        BY <2>1, <3>2 DEF PoolWorker
      <4> QED
        BY <2>2, <2>3, <4>1 DEF PoolWorkerHolds
    <3> QED
      BY <2>5, <3>1, <3>2 DEF PoolList
  <2>6. ASSUME NEW j \in Instances, PoolGet(j) PROVE PoolWorkerHolds'
    <3>1. /\ P'.at \in {"create", "status"} /\ P'.pool = P.pool /\ P'.todo = P.todo
          /\ P'.names = P.names \cup {MirrorName[j]} /\ P'.i = j /\ P.at = "each"
      BY <2>1, <2>6 DEF PoolGet, PoolWorker
    <3>2. ASSUME NEW i \in Instances, Home[i] = P.pool, Alive(i)'
          PROVE  \/ P.todo[i] # "none"
                 \/ MirrorName[i] \in P.names
                 \/ Copies(MirrorName[i])' = {}
      BY <2>1, <3>1, <3>2, EachKept
    <3> QED
      BY <2>2, <2>3, <3>1, <3>2 DEF PoolWorkerHolds
  <2>7. CASE PoolCreate
    <3> DEFINE w == Bare(P.pool)
    <3>1. CASE P' = [P EXCEPT !.at = "status", !.copy = w]
      <4>1. /\ P'.at = "status" /\ P'.pool = P.pool /\ P'.todo = P.todo
            /\ P'.names = P.names /\ P'.i = P.i /\ P.at = "create"
        BY <2>1, <2>7, <3>1 DEF PoolCreate, PoolWorker
      <4>2. ASSUME NEW i \in Instances, Home[i] = P.pool, Alive(i)'
            PROVE  \/ P.todo[i] # "none"
                   \/ MirrorName[i] \in P.names
                   \/ Copies(MirrorName[i])' = {}
        BY <2>1, <4>1, <4>2, EachKept
      <4>3. MirrorName[P.i] \in P.names
        BY <2>1, <4>1 DEF MirrorInv, PoolWorkerHolds
      <4> QED
        BY <2>2, <2>3, <4>1, <4>2, <4>3 DEF PoolWorkerHolds
    <3> QED
      BY <2>4, <2>7, <3>1 DEF PoolCreate, Bare
  <2>8. CASE PoolStatus
    <3>1. CASE P' = [P EXCEPT !.at = "each", !.todo[P.i] = "none", !.i = Nobody,
                              !.copy = Absent]
      <4>1. P.i \in Instances /\ P.at = "status"
        BY <2>1, <2>8, PoolHolds DEF PoolStatus
      <4>2. /\ P'.at = "each" /\ P'.pool = P.pool /\ P'.names = P.names
            /\ P'.todo = [P.todo EXCEPT ![P.i] = "none"]
        BY <2>1, <3>1 DEF PoolWorker
      <4>3. MirrorName[P.i] \in P.names
        BY <2>1, <4>1 DEF MirrorInv, PoolWorkerHolds
      <4>4. P.todo \in [Instances -> Statuses \cup {"none"}]
        BY <2>1, PoolHolds
      <4>5. ASSUME NEW i \in Instances, Home[i] = P.pool, Alive(i)'
            PROVE  \/ P'.todo[i] # "none"
                   \/ MirrorName[i] \in P'.names
                   \/ Copies(MirrorName[i])' = {}
        BY <2>1, <4>1, <4>2, <4>3, <4>4, <4>5, EachKept
      <4>6. ASSUME NEW i \in Instances, P'.todo[i] # "none"
            PROVE  Home[i] = P.pool /\ inst'[i] # "unborn"
        BY <2>3, <4>2, <4>4, <4>6
      <4> QED
        BY <2>2, <4>2, <4>5, <4>6 DEF PoolWorkerHolds
    <3> QED
      BY <2>4, <2>8, <3>1 DEF PoolStatus
  <2>9. CASE PoolSweepList
    <3>1. /\ P'.pool = P.pool /\ P'.todo = P.todo /\ P'.names = Surplus(P.names)
          /\ P'.at \in {"done", "sweep"} /\ P.at = "each" /\ P.todo = Nothing
      BY <2>1, <2>9 DEF PoolSweepList, PoolWorker
    <3>2. ASSUME NEW i \in Instances, MirrorName[i] \in Surplus(P.names)
          PROVE  inst'[i] = "gone"
      BY <2>1, <3>1, <3>2, SurplusGone
    <3> QED
      BY <2>2, <2>3, <3>1, <3>2 DEF PoolWorkerHolds
  <2>10. ASSUME NEW n \in Names, PoolSweep(n) PROVE PoolWorkerHolds'
    <3>1. CASE P' = [P EXCEPT !.names = @ \ {n},
                              !.at = IF P.names = {n} THEN "done" ELSE "sweep"]
      <4>1. /\ P'.pool = P.pool /\ P'.todo = P.todo /\ P'.names = P.names \ {n}
            /\ P'.at \in {"done", "sweep"} /\ P.at = "sweep"
        BY <2>1, <2>10, <3>1 DEF PoolSweep, PoolWorker
      <4>2. ASSUME NEW i \in Instances, MirrorName[i] \in P.names
            PROVE  inst'[i] = "gone"
        BY <2>1, <4>1, <4>2 DEF MirrorInv, PoolWorkerHolds
      <4> QED
        BY <2>2, <2>3, <4>1, <4>2 DEF PoolWorkerHolds
    <3> QED
      BY <2>4, <2>10, <3>1 DEF PoolSweep
  <2>11. CASE PoolEnd
    BY <2>11 DEF PoolEnd
  <2> QED
    BY <1>2, <2>5, <2>6, <2>7, <2>8, <2>9, <2>10, <2>11 DEF PoolWork
<1> QED
  BY <1>1, <1>2

LEMMA PoolWorkerNext ==
  ASSUME NamesFit, TypeOK, MirrorInv, [Next]_vars
  PROVE  PoolWorkerHolds'
<1>1. CASE P' = Absent
  BY <1>1 DEF PoolWorkerHolds
<1>2. CASE PoolWork \/ (\E p \in Pools : PoolStart(p))
  BY <1>1, <1>2, PoolWorkerSteps
<1>3. CASE UNCHANGED P
  BY <1>1, <1>3, PoolWorkerBystands
<1>4. PoolWork \/ (\E p \in Pools : PoolStart(p)) \/ UNCHANGED P \/ P' = Absent
  <2>1. CASE RunnerWork
    BY <2>1 DEF RunnerWork, RunnerList, RunnerStatus, RunnerFalse, RunnerDelete,
                RunnerWrite, RunnerUnchanged
  <2>2. CASE Environment
    BY <2>2 DEF Environment, CacheSync, UserCreate, UserDelete, Collect, PoolSync,
                PoolGone, Live, Crash, Outside
  <2>3. CASE \E n \in Names : RunnerStart(n)
    BY <2>3 DEF RunnerStart, RunnerUnchanged
  <2> QED
    BY <2>1, <2>2, <2>3 DEF Next, vars
<1> QED
  BY <1>1, <1>2, <1>3, <1>4

\* What the Runner worker is about to delete stands for no instance that runs: its
\* Pool has gone and took its instances first, or the list did not show it, though
\* it was started before.
LEMMA RunnerDeletesGone ==
  ASSUME NamesFit, TypeOK, MirrorInv,
         RunnerWork \/ (\E n \in Names : RunnerStart(n)),
         R' # Absent, R'.at = "delete", NEW i \in Instances, MirrorName[i] = R'.name
  PROVE  inst[i] = "gone"
<1> USE DEF RunnerUnchanged
<1>1. ASSUME NEW n \in Names, RunnerStart(n), cache[n] # Absent PROVE inst[i] = "gone"
  <2>1. R'.at = FirstCall(cache[n]) /\ R'.name = n /\ cache[n] \in Runner
    BY <1>1 DEF RunnerStart, TypeOK
  <2>2. cache[n].pool \in Pools /\ seen[cache[n].pool] = "absent"
    BY <2>1 DEF FirstCall, Runner
  <2>3. cache[n] \in Copies(n)
    BY <1>1, IsCopy
  <2>4. cache[n].pool = Home[i] /\ inst[i] # "unborn"
    BY <2>1, <2>3 DEF MirrorInv, MirrorsHold
  <2>5. ~Alive(i)
    BY <2>2, <2>4 DEF MirrorInv, PoolsGoLast
  <2> QED
    BY <2>4, <2>5 DEF Alive, TypeOK
<1>2. CASE RunnerList
  <2>1. R # Absent /\ R \in RunnerWorker /\ R.copy \in Runner
    BY <1>2, RunnerHolds DEF RunnerList
  <2>2. R' = [R EXCEPT !.at = "delete"] /\ R'.name = R.name
    BY <1>2, <2>1 DEF RunnerList, RunnerWorker
  <2>3. \A j \in Instances : Home[j] = R.copy.pool /\ Alive(j) => ~Matches(R.name, R.copy, j)
    BY <1>2, <2>1 DEF RunnerList, RunnerWorker
  <2>4. R.copy \in Copies(R.name)
    BY <2>1, IsCopy
  <2>5. R.copy.pool = Home[i] /\ inst[i] # "unborn"
    BY <2>2, <2>4 DEF MirrorInv, MirrorsHold
  <2>6. Matches(R.name, R.copy, i)
    BY <2>2 DEF Matches, NamesFit
  <2>7. ~Alive(i)
    BY <2>3, <2>5, <2>6
  <2> QED
    BY <2>5, <2>7 DEF Alive, TypeOK
<1>3. CASE RunnerStatus \/ RunnerFalse \/ RunnerDelete
  BY <1>3 DEF RunnerStatus, RunnerFalse, RunnerDelete, RunnerWrite, RunnerReturn
<1>4. ASSUME NEW n \in Names, RunnerStart(n), cache[n] = Absent PROVE inst[i] = "gone"
  BY <1>4 DEF RunnerStart
<1> QED
  BY <1>1, <1>2, <1>3, <1>4 DEF RunnerWork

LEMMA RunnerWorkerNext ==
  ASSUME NamesFit, TypeOK, MirrorInv, [Next]_vars
  PROVE  RunnerWorkerHolds'
<1> SUFFICES ASSUME R' # Absent, R'.at = "delete", NEW i \in Instances, MirrorName[i] = R'.name
             PROVE  inst'[i] = "gone"
  BY DEF RunnerWorkerHolds
<1>1. CASE RunnerWork \/ (\E n \in Names : RunnerStart(n))
  BY <1>1, RunnerDeletesGone, InstanceLife
<1>2. CASE UNCHANGED R
  BY <1>2, InstanceLife DEF MirrorInv, RunnerWorkerHolds
<1>3. RunnerWork \/ (\E n \in Names : RunnerStart(n)) \/ UNCHANGED R \/ R' = Absent
  <2>1. CASE PoolWork
    BY <2>1 DEF PoolWork, PoolList, PoolGet, PoolCreate, PoolStatus, PoolSweepList,
                PoolSweep, PoolEnd, PoolUnchanged
  <2>2. CASE Environment
    BY <2>2 DEF Environment, CacheSync, UserCreate, UserDelete, Collect, PoolSync,
                PoolGone, Live, Crash, Outside
  <2>3. CASE \E p \in Pools : PoolStart(p)
    BY <2>3 DEF PoolStart, PoolUnchanged
  <2> QED
    BY <2>1, <2>2, <2>3 DEF Next, vars
<1> QED
  BY <1>1, <1>2, <1>3

LEMMA MirrorInit ==
  ASSUME Init
  PROVE  MirrorInv
<1>1. TypeOK
  BY TypeInit
<1>2. ASSUME NEW i \in Instances, NEW o \in Copies(MirrorName[i]) PROVE FALSE
  <2>1. MirrorName[i] \in Names
    OBVIOUS
  <2>2. runners[MirrorName[i]] = Absent /\ cache[MirrorName[i]] = Absent
    BY <2>1 DEF Init
  <2> QED
    BY <2>2, IsCopy DEF Init
<1>3. PoolsGoLast
  <2>1. \A p \in Pools : pools[p] # "absent"
    BY DEF Init
  <2> QED
    BY <2>1 DEF Init, PoolsGoLast
<1>4. PoolWorkerHolds /\ RunnerWorkerHolds
  BY DEF Init, PoolWorkerHolds, RunnerWorkerHolds
<1> QED
  BY <1>2, <1>3, <1>4 DEF MirrorInv, MirrorsHold

\* If no name is cut and each instance has a name of its own: a Runner under the
\* name of an instance, wherever a copy of it is, belongs to the instance's pool
\* and the instance was started; a Pool goes after its instances; what either
\* worker is about to delete stands for instances that have gone.
THEOREM MirrorInvariant ==
  ASSUME NamesFit
  PROVE  Spec => []MirrorInv
<1>1. TypeOK /\ MirrorInv /\ [Next]_vars => MirrorInv'
  BY MirrorsHoldNext, PoolsGoLastNext, PoolWorkerNext, RunnerWorkerNext DEF MirrorInv
<1> QED
  BY <1>1, MirrorInit, TypeCorrect, PTL DEF Spec

\* One step of a worker and the mirror of an instance that runs.
LEMMA MirrorStays ==
  ASSUME TypeOK, MirrorInv, [Next]_vars, WorkersStep,
         NEW i \in Instances, Alive(i), Exists(MirrorName[i])
  PROVE  runners'[MirrorName[i]] # Absent
<1> DEFINE m == MirrorName[i]
<1> USE DEF PoolUnchanged, RunnerUnchanged, Outside
<1>1. m \in Names /\ runners[m] \in Runner /\ inst[i] # "gone"
  BY DEF Exists, Alive, TypeOK
<1>2. CASE UNCHANGED runners
  BY <1>2 DEF Exists
<1>3. ASSUME NEW n \in Names, NEW o \in Runner, Store(n, o) PROVE runners'[m] # Absent
  BY <1>1, <1>3, Stored DEF Exists
<1>4. ASSUME NEW n \in Names, n # m, Store(n, Absent) PROVE runners'[m] # Absent
  BY <1>1, <1>4, Stored DEF Exists
<1>5. CASE PoolWork
  <2>1. P # Absent /\ P \in PoolWorker /\ P.pool \in Pools
    BY <1>5, PoolHolds
    DEF PoolWork, PoolList, PoolGet, PoolCreate, PoolStatus, PoolSweepList, PoolSweep, PoolEnd
  <2>2. CASE PoolCreate
    <3>1. P.i \in Instances /\ MirrorName[P.i] \in Names
      BY <2>1, <2>2, PoolHolds DEF PoolCreate
    <3>2. Bare(P.pool) \in Runner
      BY <2>1, BareType
    <3>3. CASE runners' = [runners EXCEPT ![MirrorName[P.i]] = Bare(P.pool)]
      BY <1>1, <3>1, <3>2, <3>3 DEF TypeOK
    <3>4. CASE Store(MirrorName[P.i], Bare(P.pool))
      BY <1>3, <3>1, <3>2, <3>4
    <3>5. \/ runners' = [runners EXCEPT ![MirrorName[P.i]] = Bare(P.pool)]
          \/ Store(MirrorName[P.i], Bare(P.pool)) \/ UNCHANGED runners
      BY <2>2 DEF PoolCreate, Bare
    <3> QED
      BY <1>2, <3>3, <3>4, <3>5
  <2>3. CASE PoolStatus
    <3>1. /\ P.i \in Instances /\ P.copy \in Runner /\ P.todo[P.i] \in Statuses
          /\ MirrorName[P.i] \in Names
      BY <2>1, <2>3, PoolHolds DEF PoolStatus, TypeOK
    <3>2. Shown(P.copy, P.i, P.todo[P.i]) \in Runner
      BY <3>1, ShownType
    <3>3. Store(MirrorName[P.i], Shown(P.copy, P.i, P.todo[P.i])) \/ UNCHANGED runners
      BY <2>3 DEF PoolStatus
    <3> QED
      BY <1>2, <1>3, <3>1, <3>2, <3>3
  <2>4. ASSUME NEW n \in Names, PoolSweep(n) PROVE runners'[m] # Absent
    <3>1. n # m
      BY <1>1, <2>1, <2>4 DEF PoolSweep, MirrorInv, PoolWorkerHolds
    <3> QED
      BY <1>2, <1>4, <2>4, <3>1 DEF PoolSweep
  <2>5. CASE PoolList \/ (\E j \in Instances : PoolGet(j)) \/ PoolSweepList \/ PoolEnd
    BY <1>2, <2>5 DEF PoolList, PoolGet, PoolSweepList, PoolEnd
  <2> QED
    BY <1>5, <2>2, <2>3, <2>4, <2>5 DEF PoolWork
<1>6. CASE RunnerWork
  <2>1. R # Absent /\ R \in RunnerWorker /\ R.name \in Names /\ R.copy \in Runner
    BY <1>6, RunnerHolds DEF RunnerWork, RunnerList, RunnerStatus, RunnerFalse, RunnerDelete
  <2>2. ASSUME NEW o \in Runner, NEW again, RunnerWrite(o, again) PROVE runners'[m] # Absent
    BY <1>2, <1>3, <2>1, <2>2 DEF RunnerWrite
  <2>3. [R.copy EXCEPT !.ready = FALSE] \in Runner
    BY <2>1 DEF Runner
  <2>4. CASE RunnerDelete
    <3>1. R.name # m
      BY <1>1, <2>1, <2>4 DEF RunnerDelete, MirrorInv, RunnerWorkerHolds
    <3> QED
      BY <1>2, <1>4, <2>1, <2>4, <3>1 DEF RunnerDelete
  <2>5. CASE RunnerList
    BY <1>2, <2>5 DEF RunnerList
  <2> QED
    BY <1>6, <2>1, <2>2, <2>3, <2>4, <2>5 DEF RunnerWork, RunnerStatus, RunnerFalse
<1>7. CASE (\E p \in Pools : PoolStart(p)) \/ (\E n \in Names : RunnerStart(n))
  BY <1>2, <1>7 DEF PoolStart, RunnerStart
<1>8. CASE Environment
  BY <1>2, <1>8
  DEF Environment, CacheSync, UserCreate, UserDelete, Collect, PoolSync, PoolGone, Live,
      Crash, WorkersStep
<1> QED
  BY <1>5, <1>6, <1>7, <1>8 DEF Next, vars, WorkersStep

\* If no name is cut and each instance has a name of its own, neither worker deletes
\* the mirror of an instance that is running, whatever the other has done since it
\* made its list.
THEOREM RunningMirrorsStay ==
  ASSUME NamesFit
  PROVE  Spec => LiveMirrorsStay
<1>1. TypeOK /\ MirrorInv /\ [Next]_vars =>
        [WorkersStep => \A i \in Instances :
           Alive(i) /\ Exists(MirrorName[i]) => runners'[MirrorName[i]] # Absent]_vars
  BY MirrorStays
<1> QED
  BY <1>1, MirrorInvariant, TypeCorrect, PTL DEF Spec, LiveMirrorsStay
=============================================================================
