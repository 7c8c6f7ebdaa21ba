---------------------------- MODULE RunnerMirror ----------------------------
(***************************************************************************)
(* Runner resources mirror GARM's runner instances.  Two workers keep them: *)
(* the Pool worker creates, refreshes and sweeps the mirrors of a pool      *)
(* (syncRunnerMirrors, pool_controller.go) and the Runner worker refreshes   *)
(* or deletes one mirror at a time (runner_controller.go).  Both read one   *)
(* informer cache and do not know of each other.                            *)
(***************************************************************************)
EXTENDS Naturals

CONSTANTS
  Pools,            \* Pool resources
  Instances,        \* runner instances GARM may ever start
  Statuses,         \* runner_status of an instance that GARM lists
  Home,             \* Home[i]: the pool of instance i
  Names,            \* names of Runner resources
  MirrorName,       \* MirrorName[i]: runnerMirrorName, cut to 63 bytes
  PlainName,        \* PlainName[i]: the label before it is cut
  Strays,           \* names of Runners that users may make by hand
  Disruptive, MaxDisruptions,
  Absent, Nobody

\* A Runner resource: spec.poolRef, and in its status the instance (id and
\* name, which are written together), runnerStatus and Ready.
Runner == [pool : Pools \cup {Nobody}, id : Instances \cup {Nobody},
           state : Statuses \cup {"none"}, ready : BOOLEAN]

DisruptionKinds == {"fault", "crash", "user"}

ASSUME MaxDisruptionsAssumption == MaxDisruptions \in Nat
ASSUME StatusesAssumption == Statuses \cap {"none", "unborn", "gone"} = {}
ASSUME HomeAssumption == Home \in [Instances -> Pools]
ASSUME NamesAssumption == /\ MirrorName \in [Instances -> Names]
                          /\ PlainName \in [Instances -> Names]
                          /\ Strays \subseteq Names
ASSUME DisruptiveAssumption == Disruptive \subseteq DisruptionKinds
ASSUME AbsentAssumption == Absent \notin Runner
ASSUME NobodyAssumption == Nobody \notin Names \cup Pools \cup Instances

VARIABLES
  runners,  \* the API server's Runners
  cache,    \* the informer's copy of them
  stale,    \* names whose cached copy is behind
  queue,    \* the Runner worker's queue
  pools,    \* whether each Pool exists and its status.id is written
  seen,     \* the informer's copy of pools
  readyPools, \* pools whose Ready condition is true
  inst,     \* GARM's instances
  P, R,     \* the Pool worker and the Runner worker; Absent: idle
  fresh,    \* workers whose copy has the API server's resourceVersion
  budget    \* disruptions left

poolSide == <<pools, seen, readyPools>>
vars == <<runners, cache, stale, queue, pools, seen, readyPools, inst, P, R, fresh, budget>>

PoolState == {"absent", "unrecorded", "recorded"}

\* at: the next call.  todo: what the list said of the instances that are still
\* to be mirrored.  names: the mirrors to keep; in "sweep", those to delete.
\* i, copy: the instance at hand and its mirror.
PoolWorker ==
  [at : {"list", "each", "create", "status", "sweep", "done", "false"},
   pool : Pools, todo : [Instances -> Statuses \cup {"none"}], names : SUBSET Names,
   i : Instances \cup {Nobody}, copy : Runner \cup {Absent}]

RunnerWorker ==
  [at : {"list", "status", "false", "reject", "delete"}, name : Names, copy : Runner]

TypeOK ==
  /\ runners \in [Names -> Runner \cup {Absent}]
  /\ cache \in [Names -> Runner \cup {Absent}]
  /\ stale \subseteq Names /\ queue \subseteq Names
  /\ pools \in [Pools -> PoolState] /\ seen \in [Pools -> PoolState]
  /\ readyPools \subseteq Pools
  /\ inst \in [Instances -> Statuses \cup {"unborn", "gone"}]
  /\ P \in PoolWorker \cup {Absent}
  /\ P # Absent /\ P.at \in {"create", "status"} =>
       /\ P.i \in Instances /\ P.todo[P.i] # "none"
       /\ P.at = "status" => P.copy # Absent
  /\ R \in RunnerWorker \cup {Absent}
  /\ fresh \subseteq {"P", "R"}
  /\ budget \in 0 .. MaxDisruptions

Exists(n) == runners[n] # Absent
Alive(i) == inst[i] \in Statuses
Nothing == [i \in Instances |-> "none"]

Init ==
  /\ runners = [n \in Names |-> Absent] /\ cache = runners
  /\ stale = {} /\ queue = {}
  /\ pools \in [Pools -> {"unrecorded", "recorded"}] /\ seen = pools
  /\ readyPools = {}
  /\ inst = [i \in Instances |-> "unborn"]
  /\ P = Absent /\ R = Absent /\ fresh = {}
  /\ budget = MaxDisruptions

Disrupt(kind) == kind \in Disruptive /\ budget > 0 /\ budget' = budget - 1

-----------------------------------------------------------------------------
(* The API server                                                           *)

\* Workers that hold a copy of the Runner n.
Holders(n) ==
  {w \in {"P", "R"} : \/ w = "P" /\ P # Absent /\ P.i # Nobody /\ MirrorName[P.i] = n
                      \/ w = "R" /\ R # Absent /\ R.name = n}

\* The Runner n becomes o (Absent: it is deleted).  A write that changes nothing
\* makes no new version.
Store(n, o) ==
  /\ runners' = [runners EXCEPT ![n] = o]
  /\ IF o = runners[n]
     THEN UNCHANGED <<stale, fresh>>
     ELSE stale' = stale \cup {n} /\ fresh' = fresh \ Holders(n)

Shown(o, i, state) == [o EXCEPT !.id = i, !.state = state, !.ready = TRUE]

-----------------------------------------------------------------------------
(* The Pool worker: syncRunnerMirrors, with the list before it and the status  *)
(* write after it.                                                           *)

PoolUnchanged == UNCHANGED <<cache, queue, inst, R>>

PoolStart(p) ==
  /\ P = Absent /\ seen[p] # "absent" /\ pools[p] # "absent"
  /\ P' = [at |-> "list", pool |-> p, todo |-> Nothing, names |-> {},
           i |-> Nobody, copy |-> Absent]
  /\ PoolUnchanged /\ UNCHANGED <<runners, stale, poolSide, fresh, budget>>

\* ListPoolInstances.  Its failure is only logged, and the Pool becomes Ready.
PoolList ==
  /\ P # Absent /\ P.at = "list"
  /\ \/ /\ P' = [P EXCEPT !.at = "each",
                   !.todo = [i \in Instances |->
                     IF Home[i] = P.pool /\ Alive(i) THEN inst[i] ELSE "none"]]
        /\ UNCHANGED budget
     \/ Disrupt("fault") /\ P' = [P EXCEPT !.at = "done"]
  /\ PoolUnchanged /\ UNCHANGED <<runners, stale, poolSide, fresh>>

\* The mirror of the next instance is read from the cache, ...
PoolGet(i) ==
  /\ P # Absent /\ P.at = "each" /\ P.todo[i] # "none"
  /\ LET n == MirrorName[i]
     IN  /\ P' = [P EXCEPT !.at = IF cache[n] = Absent THEN "create" ELSE "status",
                           !.names = @ \cup {n}, !.i = i, !.copy = cache[n]]
         /\ fresh' = IF cache[n] # Absent /\ n \notin stale THEN fresh \cup {"P"}
                                                            ELSE fresh \ {"P"}
  /\ PoolUnchanged /\ UNCHANGED <<runners, stale, poolSide, budget>>

PoolFails ==
  P' = [P EXCEPT !.at = "false", !.names = {}, !.todo = Nothing, !.i = Nobody, !.copy = Absent]

\* ... created if the cache has none (which fails if there is one), ...
PoolCreate ==
  /\ P # Absent /\ P.at = "create"
  /\ LET n == MirrorName[P.i]
         bare == [pool |-> P.pool, id |-> Nobody, state |-> "none", ready |-> FALSE]
     IN  \/ /\ ~Exists(n)
            /\ runners' = [runners EXCEPT ![n] = bare]
            /\ stale' = stale \cup {n} /\ fresh' = fresh \cup {"P"}
            /\ P' = [P EXCEPT !.at = "status", !.copy = bare]
            /\ UNCHANGED budget
         \/ Exists(n) /\ PoolFails /\ UNCHANGED <<runners, stale, fresh, budget>>
         \/ Disrupt("fault") /\ PoolFails /\ UNCHANGED <<runners, stale, fresh>>
         \/ Disrupt("fault") /\ ~Exists(n) /\ PoolFails /\ Store(n, bare)
  /\ PoolUnchanged /\ UNCHANGED poolSide

\* ... and given the status that the list showed.
PoolStatus ==
  /\ P # Absent /\ P.at = "status"
  /\ LET n == MirrorName[P.i]
     IN  \/ /\ "P" \in fresh /\ Store(n, Shown(P.copy, P.i, P.todo[P.i]))
            /\ P' = [P EXCEPT !.at = "each", !.todo[P.i] = "none", !.i = Nobody, !.copy = Absent]
            /\ UNCHANGED budget
         \/ "P" \notin fresh /\ PoolFails /\ UNCHANGED <<runners, stale, fresh, budget>>
         \/ Disrupt("fault") /\ PoolFails /\ UNCHANGED <<runners, stale, fresh>>
  /\ PoolUnchanged /\ UNCHANGED poolSide

Surplus(names) ==
  {n \in Names : cache[n] # Absent /\ cache[n].pool = P.pool /\ n \notin names}

\* The pool's other mirrors, as the cache has them, are deleted one by one.
PoolSweepList ==
  /\ P # Absent /\ P.at = "each" /\ P.todo = Nothing
  /\ LET surplus == Surplus(P.names)
     IN  P' = [P EXCEPT !.at = IF surplus = {} THEN "done" ELSE "sweep",
                           !.names = surplus]
  /\ PoolUnchanged /\ UNCHANGED <<runners, stale, poolSide, fresh, budget>>

PoolSweep(n) ==
  /\ P # Absent /\ P.at = "sweep" /\ n \in P.names
  /\ \/ /\ Store(n, Absent) /\ UNCHANGED budget
        /\ P' = [P EXCEPT !.names = @ \ {n}, !.at = IF P.names = {n} THEN "done" ELSE "sweep"]
     \/ Disrupt("fault") /\ PoolFails /\ UNCHANGED <<runners, stale, fresh>>
  /\ PoolUnchanged /\ UNCHANGED poolSide

\* The status write that ends the reconciliation, with its id; it is lost when
\* the Pool has been edited.
PoolEnd ==
  /\ P # Absent /\ P.at \in {"done", "false"}
  /\ \/ /\ pools' = [pools EXCEPT ![P.pool] = "recorded"]
        /\ readyPools' = IF P.at = "done" THEN readyPools \cup {P.pool}
                                        ELSE readyPools \ {P.pool}
        /\ UNCHANGED budget
     \/ (Disrupt("fault") \/ Disrupt("user")) /\ UNCHANGED <<pools, readyPools>>
  /\ P' = Absent /\ fresh' = fresh \ {"P"}
  /\ PoolUnchanged /\ UNCHANGED <<runners, stale, seen>>

PoolWork ==
  \/ PoolList \/ (\E i \in Instances : PoolGet(i)) \/ PoolCreate \/ PoolStatus
  \/ PoolSweepList \/ (\E n \in Names : PoolSweep(n)) \/ PoolEnd

-----------------------------------------------------------------------------
(* The Runner worker                                                        *)

RunnerUnchanged == UNCHANGED <<cache, poolSide, inst, P>>

FirstCall(o) ==
  CASE o.pool = Nobody -> "reject"
    [] o.pool # Nobody -> CASE seen[o.pool] = "absent" -> "delete"
                            [] seen[o.pool] = "unrecorded" -> "false"
                            [] OTHER -> "list"

\* Mutant of RunnerStart: a Runner that is not found is reconciled all the same.
RunnerStartNotFound(n) ==
  /\ R = Absent /\ n \in queue
  /\ queue' = queue \ {n}
  /\ R' = [at |-> "list", name |-> n, copy |-> cache[n]]
  /\ UNCHANGED <<runners, cache, stale, poolSide, inst, P, fresh, budget>>

RunnerStart(n) ==
  /\ R = Absent /\ n \in queue
  /\ queue' = queue \ {n}
  /\ IF cache[n] = Absent
     THEN UNCHANGED <<R, fresh>>
     ELSE /\ R' = [at |-> FirstCall(cache[n]), name |-> n, copy |-> cache[n]]
          /\ fresh' = IF n \in stale THEN fresh \ {"R"} ELSE fresh \cup {"R"}
  /\ RunnerUnchanged /\ UNCHANGED <<runners, stale, budget>>

\* Mutant of Matches: a mirror is told only by what it shows.
MatchesById(n, o, i) == o.id = i

\* runnerMatchesInstance
Matches(n, o, i) == o.id = i \/ n = PlainName[i]

\* ListPoolInstances; the first instance that matches is shown.
RunnerList ==
  /\ R # Absent /\ R.at = "list"
  /\ LET own == {i \in Instances : Home[i] = R.copy.pool /\ Alive(i)}
     IN  \/ /\ \E i \in own : /\ Matches(R.name, R.copy, i)
                              /\ R' = [R EXCEPT !.at = "status",
                                                !.copy = Shown(@, i, inst[i])]
            /\ UNCHANGED budget
         \/ /\ \A i \in own : ~Matches(R.name, R.copy, i)
            /\ R' = [R EXCEPT !.at = "delete"]
            /\ UNCHANGED budget
         \/ Disrupt("fault") /\ R' = [R EXCEPT !.at = "false"]
  /\ RunnerUnchanged /\ UNCHANGED <<runners, stale, queue, fresh>>

\* Reconcile returns; again: it is to be called again.
RunnerReturn(again) ==
  /\ R' = Absent
  /\ queue' = IF again THEN queue \cup {R.name} ELSE queue

RunnerWrite(o, again) ==
  /\ \/ /\ "R" \in fresh /\ Store(R.name, o)
        /\ RunnerReturn(again) /\ UNCHANGED budget
     \/ "R" \notin fresh /\ RunnerReturn(TRUE) /\ UNCHANGED <<runners, stale, fresh, budget>>
     \/ Disrupt("fault") /\ RunnerReturn(TRUE) /\ UNCHANGED <<runners, stale, fresh>>
  /\ RunnerUnchanged

RunnerStatus == R # Absent /\ R.at = "status" /\ RunnerWrite(R.copy, TRUE)

\* Only a Runner without a poolRef is left at that.
RunnerFalse ==
  /\ R # Absent /\ R.at \in {"false", "reject"}
  /\ RunnerWrite([R.copy EXCEPT !.ready = FALSE], R.at = "false")

\* The deletion carries neither version nor uid: it takes what has the name now.
RunnerDelete ==
  /\ R # Absent /\ R.at = "delete"
  /\ \/ Exists(R.name) /\ Store(R.name, Absent) /\ RunnerReturn(FALSE) /\ UNCHANGED budget
     \/ ~Exists(R.name) /\ RunnerReturn(TRUE) /\ UNCHANGED <<runners, stale, fresh, budget>>
     \/ Disrupt("fault") /\ RunnerReturn(TRUE) /\ UNCHANGED <<runners, stale, fresh>>
  /\ RunnerUnchanged

RunnerWork == RunnerList \/ RunnerStatus \/ RunnerFalse \/ RunnerDelete
-----------------------------------------------------------------------------
(* The world around them.                                                   *)

CacheSync(n) ==
  /\ n \in stale
  /\ cache' = [cache EXCEPT ![n] = runners[n]]
  /\ stale' = stale \ {n}
  /\ queue' = queue \cup {n}
  /\ UNCHANGED <<runners, poolSide, inst, P, R, fresh, budget>>

\* The informer of Pools catches up; poolToRunners queues the pool's mirrors.
PoolSync(p) ==
  /\ seen[p] # pools[p]
  /\ seen' = [seen EXCEPT ![p] = pools[p]]
  /\ queue' = queue \cup {n \in Names : cache[n] # Absent /\ cache[n].pool = p}
  /\ UNCHANGED <<runners, cache, stale, pools, readyPools, inst, P, R, fresh, budget>>

Outside == UNCHANGED <<cache, queue, poolSide, inst, P, R>>

UserCreate(n) ==
  /\ n \in Strays /\ ~Exists(n) /\ Disrupt("user")
  /\ \E p \in Pools \cup {Nobody} :
       Store(n, [pool |-> p, id |-> Nobody, state |-> "none", ready |-> FALSE])
  /\ Outside

UserDelete(n) == Exists(n) /\ Disrupt("user") /\ Store(n, Absent) /\ Outside

\* A Pool that has been drained is gone, and with it, in the end, what it owns.
PoolGone(p) ==
  /\ pools[p] # "absent" /\ Disrupt("user")
  /\ ~(P # Absent /\ P.pool = p)
  /\ \A i \in Instances : Home[i] = p => ~Alive(i)
  /\ pools' = [pools EXCEPT ![p] = "absent"]
  /\ UNCHANGED <<runners, cache, stale, queue, seen, readyPools, inst, P, R, fresh>>

Collect(n) ==
  /\ Exists(n) /\ n \notin Strays /\ runners[n].pool # Nobody /\ pools[runners[n].pool] = "absent"
  /\ Store(n, Absent) /\ Outside /\ UNCHANGED budget

\* An instance is started, changes its status and goes, and is not listed before
\* and after.
Live(i) ==
  /\ \/ /\ inst[i] = "unborn" /\ pools[Home[i]] # "absent"
        /\ \E state \in Statuses : inst' = [inst EXCEPT ![i] = state]
     \/ Alive(i) /\ \E state \in Statuses \cup {"gone"} :
                       state # inst[i] /\ inst' = [inst EXCEPT ![i] = state]
  /\ UNCHANGED <<runners, cache, stale, queue, poolSide, P, R, fresh, budget>>

\* The operator's process dies; the next one lists everything afresh.
Crash ==
  /\ Disrupt("crash")
  /\ P' = Absent /\ R' = Absent /\ fresh' = {}
  /\ cache' = runners /\ stale' = {}
  /\ queue' = {n \in Names : Exists(n)}
  /\ seen' = pools
  /\ UNCHANGED <<runners, pools, readyPools, inst>>

Environment ==
  \/ \E n \in Names : CacheSync(n) \/ UserCreate(n) \/ UserDelete(n) \/ Collect(n)
  \/ \E p \in Pools : PoolSync(p) \/ PoolGone(p)
  \/ \E i \in Instances : Live(i)
  \/ Crash

Next ==
  \/ \E p \in Pools : PoolStart(p)
  \/ \E n \in Names : RunnerStart(n)
  \/ PoolWork \/ RunnerWork \/ Environment

Spec == Init /\ [][Next]_vars

\* Each worker goes on with what it has begun and serves in turn what waits for
\* it (every Pool is requeued for ever); the informers catch up.
Fairness ==
  /\ WF_vars(PoolWork) /\ WF_vars(RunnerWork)
  /\ \A p \in Pools : SF_vars(PoolStart(p)) /\ WF_vars(PoolSync(p))
  /\ \A n \in Names : SF_vars(RunnerStart(n)) /\ WF_vars(CacheSync(n))

FairSpec == Spec /\ Fairness

-----------------------------------------------------------------------------
(* Safety                                                                   *)

\* The two workers judge by lists and copies of different ages, and delete by
\* name; still neither deletes the mirror of an instance that is running.
WorkersStep == P' # P \/ R' # R

LiveMirrorsStay ==
  [][WorkersStep => \A i \in Instances :
       Alive(i) /\ Exists(MirrorName[i]) => runners'[MirrorName[i]] # Absent]_vars

\* Why that is so, if no name is cut, no two instances have one name, and users
\* make no Runner of such a name.
NamesFit ==
  /\ PlainName = MirrorName
  /\ \A i, j \in Instances : MirrorName[i] = MirrorName[j] => i = j
  /\ \A i \in Instances : MirrorName[i] \notin Strays

\* The copies of the Runner n, wherever they are.
Copies(n) ==
  {o \in {runners[n], cache[n],
          IF P # Absent /\ P.i # Nobody /\ MirrorName[P.i] = n THEN P.copy ELSE Absent,
          IF R # Absent /\ R.name = n THEN R.copy ELSE Absent} : o # Absent}

\* A mirror is made only of an instance that was listed, ...
MirrorsHold ==
  \A i \in Instances : \A o \in Copies(MirrorName[i]) :
    o.pool = Home[i] /\ inst[i] # "unborn"

\* ... a Pool goes only when its instances have gone, ...
PoolsGoLast ==
  \A p \in Pools :
    /\ seen[p] = "absent" => pools[p] = "absent"
    /\ pools[p] = "absent" => \A i \in Instances : Home[i] = p => ~Alive(i)

\* ... an instance that started after the Pool worker's list has no mirror that it
\* could sweep away, ...
PoolWorkerHolds ==
  P # Absent =>
    /\ pools[P.pool] # "absent"
    /\ \A i \in Instances : P.todo[i] # "none" => Home[i] = P.pool /\ inst[i] # "unborn"
    /\ P.at \in {"create", "status"} => MirrorName[P.i] \in P.names
    /\ P.at \in {"each", "create", "status"} =>
         \A i \in Instances : Home[i] = P.pool /\ Alive(i) =>
           \/ P.todo[i] # "none"
           \/ MirrorName[i] \in P.names
           \/ Copies(MirrorName[i]) = {}
    /\ P.at = "sweep" => \A i \in Instances : MirrorName[i] \in P.names => inst[i] = "gone"

\* ... and what the Runner worker does not find was there, and does not come back.
RunnerWorkerHolds ==
  R # Absent /\ R.at = "delete" =>
    \A i \in Instances : MirrorName[i] = R.name => inst[i] = "gone"

\* A Pool worker that sweeps, and a Runner worker that deletes, work from lists that
\* may be old; these four say that nothing has begun since that they could destroy.
MirrorInv == MirrorsHold /\ PoolsGoLast /\ PoolWorkerHolds /\ RunnerWorkerHolds

-----------------------------------------------------------------------------
(* Liveness                                                                 *)

\* "Runner is a read-mostly mirror of GARM's runner inventory": once disruptions
\* and the instances' own changes stop, every recorded Pool has one mirror for each of its instances, which
\* shows it as it is and is Ready, and no other; and conflicts between the two
\* workers do not keep the Pool from being Ready.
Mirrors(p) ==
  /\ \A i \in Instances : Home[i] = p /\ Alive(i) =>
       runners[MirrorName[i]] = [pool |-> p, id |-> i, state |-> inst[i], ready |-> TRUE]
  /\ \A n \in Names : Exists(n) /\ runners[n].pool = p =>
       \E i \in Instances : Home[i] = p /\ Alive(i) /\ MirrorName[i] = n

MirrorsSettle ==
  <>[][FALSE]_inst =>
    \A p \in Pools : <>[](pools[p] # "absent" => Mirrors(p) /\ p \in readyPools)
=============================================================================
