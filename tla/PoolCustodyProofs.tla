------------------------- MODULE PoolCustodyProofs -------------------------
(***************************************************************************)
(* What adoption by scope and prefix achieves, proved for every value of    *)
(* the constants: if Pools keep their scope and prefix, these name at most  *)
(* one GARM pool, and if no two Pools have the same, none is shared.  From   *)
(* that follows custody of the GARM pools (second part).                     *)
(***************************************************************************)
EXTENDS PoolControllerProofs

\* GARM's pools h are some of g, each with the scope and prefix it had.
Narrows(g, h) ==
  \A i \in Ids : h[i] # Absent => g[i] # Absent /\ SameIdentity(h[i], g[i])

\* A copy that fits goes on to fit while GARM's pools are only changed and deleted.
LEMMA FitsNarrowed ==
  ASSUME NEW o, NEW p, NEW g, NEW h, NEW m, Fits(o, p, g, m), Narrows(g, h)
  PROVE  Fits(o, p, h, m)
BY DEF Fits, Narrows, SameIdentity

LEMMA NothingChanged == ASSUME garm' = garm PROVE Narrows(garm, garm')
BY DEF Narrows, SameIdentity

-----------------------------------------------------------------------------
(* All steps but the creation of a pool.                                    *)

LEMMA IdentityFrame ==
  ASSUME IdentityInv,
         minted' = minted, Narrows(garm, garm'),
         \A p \in Names : cr'[p] # Absent => Fits(cr'[p], p, garm, minted),
         \A p \in Names : cache'[p] # Absent => Fits(cache'[p], p, garm, minted),
         pc' # "idle" => Fits(obj', me', garm, minted),
         "prefix" \notin patch',
         pc' = "create" => Matches(obj'.spec) = {}
  PROVE  IdentityInv'
<1>1. /\ \A p \in Names : Exists(p)' => Fits(cr'[p], p, garm', minted')
      /\ \A p \in Names : cache'[p] # Absent => Fits(cache'[p], p, garm', minted')
      /\ pc' # "idle" => Fits(obj', me', garm', minted')
  BY FitsNarrowed DEF Exists
<1>2. \A i \in Ids : Live(i)' => Live(i) /\ SameIdentity(garm'[i], garm[i])
  BY DEF Narrows, Live
<1>3. \A i \in Ids : Live(i)' => i <= minted'
  BY <1>2 DEF IdentityInv
<1>4. AtMostOnePool'
  BY <1>2 DEF IdentityInv, AtMostOnePool, SameIdentity
<1>5. pc' = "create" => Matches(obj.spec)' = {}
  <2> SUFFICES ASSUME pc' = "create", NEW i \in Matches(obj.spec)'
               PROVE  FALSE
    OBVIOUS
  <2>1. i \in Matches(obj'.spec)
    BY <1>2 DEF Matches, SameIdentity
  <2> QED
    BY <2>1
<1> QED
  BY <1>1, <1>3, <1>4, <1>5 DEF IdentityInv

\* What the frame needs when only the worker's progress changes.
LEMMA IdentityKube ==
  ASSUME IdentityInv, cr' = cr, cache' = cache
  PROVE  /\ \A p \in Names : cr'[p] # Absent => Fits(cr'[p], p, garm, minted)
         /\ \A p \in Names : cache'[p] # Absent => Fits(cache'[p], p, garm, minted)
BY DEF IdentityInv, Exists

LEMMA IdentityCommit ==
  ASSUME TypeOK, IdentityInv, pc # "idle", NEW o, Commit(o),
         SameIdentity(o.spec, obj.spec), o.id = obj.id
  PROVE  IdentityInv'
<1>1. me \in Names /\ Fits(obj, me, garm, minted)
  BY WorkerHolds DEF IdentityInv
<1>2. Fits(o, me, garm, minted)
  BY <1>1 DEF Fits, SameIdentity
<1>3. minted' = minted /\ garm' = garm /\ cache' = cache
  BY DEF Commit, garmVars, Write
<1>4. pc' = "idle" /\ patch' = {}
  BY DEF Commit, Requeue, Rest, Write
<1>5. \A p \in Names : cr'[p] # Absent => Fits(cr'[p], p, garm, minted)
  <2>1. cr' = cr \/ cr' = [cr EXCEPT ![me] = o]
    BY DEF Commit, Write
  <2> QED
    BY <1>1, <1>2, <2>1 DEF IdentityInv, Exists, TypeOK
<1>6. \A p \in Names : cache'[p] # Absent => Fits(cache'[p], p, garm, minted)
  BY <1>3 DEF IdentityInv
<1> QED
  BY <1>3, <1>4, <1>5, <1>6, IdentityFrame, NothingChanged

LEMMA IdentityWrites ==
  ASSUME TypeOK, IdentityInv,
         AddFinalizer \/ MarkReady \/ MarkPoolFalse \/ ClearId \/ DrainMark \/ DrainWait
  PROVE  IdentityInv'
<1>1. pc # "idle"
  BY DEF AddFinalizer, MarkReady, MarkPoolFalse, ClearId, DrainMark, DrainWait
<1>2. obj \in Pool
  BY <1>1, WorkerHolds
<1>3. CASE AddFinalizer
  <2> DEFINE o == [obj EXCEPT !.finalizer = TRUE,
                              !.spec = Defaulted(obj.spec),
                              !.current = obj.current /\ Defaulted(obj.spec) = obj.spec]
  <2>1. SameIdentity(o.spec, obj.spec) /\ o.id = obj.id
    BY <1>2 DEF Pool, PoolSpec, Defaulted, SameIdentity
  <2>2. Commit(o)
    BY <1>3 DEF AddFinalizer
  <2> HIDE DEF o
  <2> QED
    BY <1>1, <2>1, <2>2, IdentityCommit
<1>4. CASE MarkReady
  <2> DEFINE o == [obj EXCEPT !.ready = TRUE, !.current = TRUE]
  <2>1. SameIdentity(o.spec, obj.spec) /\ o.id = obj.id
    BY <1>2 DEF Pool, SameIdentity
  <2>2. Commit(o)
    BY <1>4 DEF MarkReady
  <2> HIDE DEF o
  <2> QED
    BY <1>1, <2>1, <2>2, IdentityCommit
<1>5. CASE MarkPoolFalse
  <2> DEFINE o == [obj EXCEPT !.ready = FALSE]
  <2>1. SameIdentity(o.spec, obj.spec) /\ o.id = obj.id
    BY <1>2 DEF Pool, SameIdentity
  <2>2. Commit(o)
    BY <1>5 DEF MarkPoolFalse
  <2> HIDE DEF o
  <2> QED
    BY <1>1, <2>1, <2>2, IdentityCommit
<1>6. CASE ClearId
  BY <1>1, <1>6, IdentityCommit DEF ClearId, SameIdentity
<1>7. CASE DrainMark
  <2> DEFINE o == [obj EXCEPT !.draining = "Disabled"]
  <2>1. SameIdentity(o.spec, obj.spec) /\ o.id = obj.id
    BY <1>2 DEF Pool, SameIdentity
  <2>2. Commit(o)
    BY <1>7 DEF DrainMark
  <2> HIDE DEF o
  <2> QED
    BY <1>1, <2>1, <2>2, IdentityCommit
<1>8. CASE DrainWait
  <2> DEFINE o == [obj EXCEPT !.draining = "WaitingForRunners"]
  <2>1. SameIdentity(o.spec, obj.spec) /\ o.id = obj.id
    BY <1>2 DEF Pool, SameIdentity
  <2>2. Commit(o)
    BY <1>8 DEF DrainWait
  <2> HIDE DEF o
  <2> QED
    BY <1>1, <2>1, <2>2, IdentityCommit
<1> QED
  BY <1>3, <1>4, <1>5, <1>6, <1>7, <1>8

\* Calls that leave GARM's pools alone: only the worker's copy moves on.
LEMMA IdentityProgress ==
  ASSUME TypeOK, IdentityInv, ListPools \/ GetPool \/ SyncInstances
  PROVE  IdentityInv'
<1>1. pc # "idle" /\ me \in Names /\ obj \in Pool /\ Fits(obj, me, garm, minted)
  BY WorkerHolds DEF ListPools, GetPool, SyncInstances, IdentityInv
<1>2. UNCHANGED <<cr, cache, garm, minted, me>>
  BY DEF ListPools, GetPool, SyncInstances, Goto, kube, garmVars
<1>3. Fits(obj', me', garm, minted)
  <2>1. CASE obj' = obj
    BY <1>1, <1>2, <2>1
  <2>2. CASE obj' = [obj EXCEPT !.id = NoId]
    <3>1. obj'.spec = obj.spec /\ obj'.id = 0
      BY <1>1, <2>2 DEF Pool, NoId
    <3>2. 0 <= minted /\ 0 \notin Ids
      BY MaxPoolsAssumption DEF TypeOK, Ids
    <3> QED
      BY <1>1, <1>2, <3>1, <3>2 DEF Fits
  <2>3. ASSUME NEW i \in Ids, Matches(obj.spec) = {i}, obj' = [obj EXCEPT !.id = i]
        PROVE  Fits(obj', me', garm, minted)
    <3>1. obj'.spec = obj.spec /\ obj'.id = i
      BY <1>1, <2>3 DEF Pool
    <3>2. i \in Matches(obj.spec)
      BY <2>3
    <3>3. Live(i) /\ SameIdentity(garm[i], obj.spec)
      BY <3>2 DEF Matches, SameIdentity
    <3>4. i <= minted
      BY <3>3 DEF IdentityInv
    <3> QED
      BY <1>1, <1>2, <3>1, <3>3, <3>4 DEF Fits
  <2> QED
    BY <2>1, <2>2, <2>3 DEF ListPools, GetPool, SyncInstances
<1>4. "prefix" \notin patch'
  <2>1. CASE patch' = patch
    BY <2>1 DEF IdentityInv
  <2>2. CASE Live(obj.id) /\ patch' = Diff(garm[obj.id], obj.spec)
    <3>1. garm[obj.id].prefix = obj.spec.prefix
      BY <1>1, <2>2 DEF Fits, Live, SameIdentity
    <3> QED
      BY <2>2, <3>1 DEF Diff
  <2> QED
    BY <2>1, <2>2 DEF ListPools, GetPool, SyncInstances
<1>5. pc' = "create" => Matches(obj'.spec) = {}
  BY DEF ListPools, GetPool, SyncInstances, Goto
<1> QED
  BY <1>2, <1>3, <1>4, <1>5, IdentityFrame, IdentityKube, NothingChanged

\* Drift correction changes no prefix, because there is no difference to correct.
LEMMA IdentityUpdate ==
  ASSUME TypeOK, IdentityInv, UpdatePool
  PROVE  IdentityInv'
<1>1. pc # "idle" /\ UNCHANGED <<cr, cache, minted, me, obj>> /\ patch' = {}
  BY DEF UpdatePool, Goto, kube
<1>2. Narrows(garm, garm')
  <2>1. CASE garm' = garm
    BY <2>1, NothingChanged
  <2>2. CASE ApplyPatch
    <3>1. garm[obj.id] # Absent /\ obj.id \in Ids
      BY <2>2 DEF ApplyPatch, Live
    <3>2. SameIdentity(Patched(garm[obj.id], obj.spec, patch), garm[obj.id])
      BY DEF Patched, SameIdentity, IdentityInv
    <3>3. \A i \in Ids : garm'[i] = garm[i] \/ i = obj.id
      BY <2>2 DEF ApplyPatch, TypeOK
    <3>4. garm'[obj.id] = Patched(garm[obj.id], obj.spec, patch)
      BY <2>2, <3>1 DEF ApplyPatch, TypeOK
    <3> QED
      BY <3>1, <3>2, <3>3, <3>4 DEF Narrows, SameIdentity
  <2> QED
    BY <2>1, <2>2 DEF UpdatePool
<1>3. pc' # "create"
  BY DEF UpdatePool, Goto
<1>4. Fits(obj', me', garm, minted)
  BY <1>1 DEF IdentityInv
<1> QED
  BY <1>1, <1>2, <1>3, <1>4, IdentityFrame, IdentityKube

LEMMA IdentityDrain ==
  ASSUME TypeOK, IdentityInv,
         \/ DrainGet \/ DrainDisable \/ DrainList \/ DrainDelete
         \/ \E r \in Runners : DrainRunner(r)
  PROVE  IdentityInv'
<1>1. pc # "idle" /\ me \in Names /\ obj \in Pool /\ Fits(obj, me, garm, minted)
  BY WorkerHolds DEF DrainGet, DrainDisable, DrainList, DrainDelete, DrainRunner, IdentityInv
<1>2. UNCHANGED <<cr, cache, minted>>
  BY DEF DrainGet, DrainDisable, DrainList, DrainDelete, DrainRunner, DrainGoto, DrainFailed,
    kube, garmVars
<1>3. pc' # "create" /\ (pc' = "idle" \/ UNCHANGED <<me, obj>>)
  BY DEF DrainGet, DrainDisable, DrainList, DrainDelete, DrainRunner, DrainGoto, DrainFailed,
    Goto, Requeue, Rest, Return
<1>4. "prefix" \notin patch'
  BY DEF DrainGet, DrainDisable, DrainList, DrainDelete, DrainRunner, DrainGoto, DrainFailed,
    Requeue, Rest, IdentityInv, Return
<1>5. Narrows(garm, garm')
  <2>1. CASE garm' = garm
    BY <2>1, NothingChanged
  <2>2. CASE Disable
    <3>1. /\ \A i \in Ids : i # obj.id => garm'[i] = garm[i]
          /\ obj.id \in Ids /\ garm[obj.id] # Absent
          /\ garm'[obj.id] = [garm[obj.id] EXCEPT !.enabled = FALSE]
      BY <2>2 DEF Disable, Live, TypeOK
    <3>2. garm[obj.id] \in GarmPool
      BY <3>1 DEF TypeOK
    <3>3. SameIdentity(garm'[obj.id], garm[obj.id])
      BY <3>1, <3>2 DEF GarmPool, SameIdentity
    <3> QED
      BY <3>1, <3>3 DEF Narrows, SameIdentity
  <2>3. CASE garm' = [garm EXCEPT ![obj.id] = Absent]
    BY <2>3 DEF Narrows, SameIdentity, TypeOK
  <2> QED
    BY <2>1, <2>2, <2>3 DEF DrainGet, DrainDisable, DrainList, DrainDelete, DrainRunner,
      DrainGoto, DrainFailed, garmVars
<1> QED
  BY <1>1, <1>2, <1>3, <1>4, <1>5, IdentityFrame, IdentityKube

\* Taking a name from the queue and releasing a Pool.
LEMMA IdentityStart ==
  ASSUME TypeOK, IdentityInv, NEW p \in Names, Start(p)
  PROVE  IdentityInv'
<1>1. UNCHANGED <<cr, cache, garm, minted, patch>>
  BY DEF Start, garmVars, Take
<1>2. pc' # "create"
  BY DEF Start, FirstStep, Take
<1>3. pc' # "idle" => Fits(obj', me', garm, minted)
  BY DEF Start, Finished, IdentityInv, Take
<1> QED
  BY <1>1, <1>2, <1>3, IdentityFrame, IdentityKube, NothingChanged DEF IdentityInv

LEMMA IdentityRemove ==
  ASSUME TypeOK, IdentityInv, RemoveFinalizer
  PROVE  IdentityInv'
<1>1. UNCHANGED <<cache, garm, minted>> /\ pc' = "idle" /\ patch' = {}
  BY DEF RemoveFinalizer, Requeue, Rest, garmVars, Release
<1>2. \A p \in Names : cr'[p] = cr[p] \/ cr'[p] = Absent
  BY DEF RemoveFinalizer, TypeOK, Release
<1>3. \A p \in Names : cr'[p] # Absent => Fits(cr'[p], p, garm, minted)
  BY <1>2 DEF IdentityInv, Exists
<1>4. \A p \in Names : cache'[p] # Absent => Fits(cache'[p], p, garm, minted)
  BY <1>1 DEF IdentityInv
<1> QED
  BY <1>1, <1>3, <1>4, IdentityFrame, NothingChanged

-----------------------------------------------------------------------------
(* The creation of a pool.  Its id is new, so no copy records it yet, and   *)
(* nothing with its scope and prefix has appeared since the list.           *)

LEMMA FitsMinted ==
  ASSUME minted \in Nat, NEW o \in Pool, NEW p, Fits(o, p, garm, minted),
         NEW spec, Mint(spec)
  PROVE  Fits(o, p, garm', minted')
<1>1. minted' = minted + 1 /\ o.id <= minted /\ o.id \in Nat
  BY MaxPoolsAssumption DEF Fits, Mint, Pool
<1>2. o.id # minted + 1 /\ o.id <= minted'
  BY <1>1
<1>3. garm'[o.id] = garm[o.id] \/ o.id \notin DOMAIN garm'
  BY <1>2 DEF Mint
<1>4. o.id \in Ids /\ garm'[o.id] # Absent => SameIdentity(garm'[o.id], o.spec)
  BY <1>2, <1>3 DEF Fits, Mint
<1> QED
  BY <1>2, <1>4 DEF Fits

LEMMA IdentityMint ==
  ASSUME TypeOK, IdentityInv, pc = "create", Mint(obj.spec),
         UNCHANGED <<cr, cache, patch, me>>, pc' # "create",
         obj' = obj \/ obj' = [obj EXCEPT !.id = minted + 1]
  PROVE  IdentityInv'
<1> DEFINE new == minted + 1
<1>1. /\ me \in Names /\ obj \in Pool /\ Fits(obj, me, garm, minted)
      /\ Matches(obj.spec) = {}
  BY WorkerHolds DEF IdentityInv
<1>2. minted \in Nat /\ minted' = new /\ new \in Ids /\ minted < new
  BY MaxPoolsAssumption DEF TypeOK, Mint, Ids
<1>3. /\ garm'[new] = Desired(obj.spec)
      /\ \A i \in Ids : i # new => garm'[i] = garm[i]
  BY <1>2 DEF Mint, TypeOK
<1>4. SameIdentity(garm'[new], obj.spec)
  BY <1>3 DEF Desired, SameIdentity
<1>5. /\ \A p \in Names : Exists(p)' => Fits(cr'[p], p, garm', minted')
      /\ \A p \in Names : cache'[p] # Absent => Fits(cache'[p], p, garm', minted')
  BY <1>2, FitsMinted DEF IdentityInv, Exists, TypeOK
<1>6. Fits(obj', me', garm', minted')
  <2>1. CASE obj' = obj
    BY <1>1, <1>2, <2>1, FitsMinted
  <2>2. CASE obj' = [obj EXCEPT !.id = new]
    <3>1. obj'.spec = obj.spec /\ obj'.id = new
      BY <1>1, <2>2 DEF Pool
    <3> QED
      BY <1>1, <1>2, <1>4, <3>1 DEF Fits
  <2> QED
    BY <2>1, <2>2
<1>7. \A i \in Ids : Live(i)' => i <= minted'
  <2>1. \A i \in Ids : i # new /\ Live(i)' => i <= minted
    BY <1>3 DEF Live, IdentityInv
  <2> QED
    BY <1>2, <2>1 DEF Ids
<1>8. AtMostOnePool'
  <2> SUFFICES ASSUME NEW i \in Ids, NEW j \in Ids, Live(i)', Live(j)',
                      SameIdentity(garm'[i], garm'[j])
               PROVE  i = j
    BY DEF AtMostOnePool, SameIdentity
  <2>1. \A k \in Ids : k # new /\ Live(k)' => Live(k) /\ ~SameIdentity(garm'[k], obj.spec)
    BY <1>1, <1>3 DEF Live, Matches, SameIdentity
  <2>2. CASE i = new \/ j = new
    BY <1>4, <2>1, <2>2 DEF SameIdentity
  <2>3. CASE i # new /\ j # new
    BY <1>3, <2>1, <2>3 DEF IdentityInv, AtMostOnePool, SameIdentity
  <2> QED
    BY <2>2, <2>3
<1> QED
  BY <1>5, <1>6, <1>7, <1>8 DEF IdentityInv

LEMMA IdentityCreate ==
  ASSUME TypeOK, IdentityInv, CreatePool
  PROVE  IdentityInv'
<1>1. /\ pc = "create" /\ pc' # "create" /\ pc # "idle"
      /\ UNCHANGED <<cr, cache, patch, me>>
  BY DEF CreatePool, Goto, kube
<1>2. CASE Mint(obj.spec)
  BY <1>1, <1>2, IdentityMint DEF CreatePool
<1>3. CASE UNCHANGED <<obj, garm, minted>>
  <2>1. Fits(obj', me', garm, minted)
    BY <1>1, <1>3 DEF IdentityInv
  <2> QED
    BY <1>1, <1>3, <2>1, IdentityFrame, IdentityKube, NothingChanged DEF IdentityInv
<1> QED
  BY <1>2, <1>3 DEF CreatePool, garmVars

-----------------------------------------------------------------------------
(* Users, the informer, the administrator, runners and crashes.             *)

LEMMA NewPoolFits ==
  ASSUME NEW p \in Names, NEW s \in Wanted[p], minted \in Nat
  PROVE  Fits(NewPool(s), p, garm, minted)
BY DEF Fits, NewPool, NoId, Ids, SameIdentity

LEMMA IdentityTouch ==
  ASSUME TypeOK, IdentityInv, NEW p \in Names, NEW o, Touch(p, o),
         o # Absent => Fits(o, p, garm, minted)
  PROVE  IdentityInv'
<1>1. UNCHANGED <<cache, pc, me, obj, patch, garm, minted>>
  BY DEF Touch, garmVars, Change
<1>2. \A q \in Names : cr'[q] # Absent => Fits(cr'[q], q, garm, minted)
  BY DEF Touch, IdentityInv, Exists, TypeOK, Change
<1> QED
  BY <1>1, <1>2, IdentityFrame, NothingChanged DEF IdentityInv

\* An edit keeps the scope and the prefix: this is where StableIdentities is used.
LEMMA IdentityUser ==
  ASSUME StableIdentities, TypeOK, IdentityInv, NEW p \in Names,
         UserCreate(p) \/ UserEdit(p) \/ UserDelete(p)
  PROVE  IdentityInv'
<1>1. minted \in Nat
  BY DEF TypeOK
<1>2. CASE UserCreate(p)
  <2>1. PICK s \in Wanted[p] : Touch(p, NewPool(s))
    BY <1>2 DEF UserCreate
  <2> QED
    BY <1>1, <2>1, NewPoolFits, IdentityTouch
<1>3. CASE UserEdit(p)
  <2>1. PICK s \in Wanted[p] : Touch(p, [cr[p] EXCEPT !.spec = s, !.current = FALSE])
    BY <1>3 DEF UserEdit
  <2> DEFINE o == [cr[p] EXCEPT !.spec = s, !.current = FALSE]
  <2>2. cr[p] \in Pool /\ Fits(cr[p], p, garm, minted)
    BY <1>3 DEF UserEdit, Exists, TypeOK, IdentityInv
  <2>3. o.spec = s /\ o.id = cr[p].id
    BY <2>2 DEF Pool
  <2>4. SameIdentity(s, cr[p].spec)
    BY <2>2 DEF Fits, StableIdentities, SameIdentity
  <2>5. Touch(p, o)
    BY <2>1
  <2> HIDE DEF o
  <2>6. Fits(o, p, garm, minted)
    BY <2>2, <2>3, <2>4 DEF Fits, SameIdentity
  <2> QED
    BY <2>5, <2>6, IdentityTouch
<1>4. CASE UserDelete(p)
  <2> DEFINE o == IF cr[p].finalizer
                  THEN [cr[p] EXCEPT !.deleting = TRUE, !.current = FALSE]
                  ELSE Absent
  <2>1. cr[p] \in Pool /\ Fits(cr[p], p, garm, minted)
    BY <1>4 DEF UserDelete, Exists, TypeOK, IdentityInv, Deleted
  <2>2. o # Absent => o.spec = cr[p].spec /\ o.id = cr[p].id
    BY <2>1 DEF Pool
  <2>3. Touch(p, o)
    BY <1>4 DEF UserDelete, Deleted
  <2> HIDE DEF o
  <2>4. o # Absent => Fits(o, p, garm, minted)
    BY <2>1, <2>2 DEF Fits
  <2> QED
    BY <2>3, <2>4, IdentityTouch
<1> QED
  BY <1>2, <1>3, <1>4

LEMMA IdentityGarm ==
  ASSUME TypeOK, IdentityInv, NEW i \in Ids, GarmEdit(i) \/ GarmDelete(i)
  PROVE  IdentityInv'
<1>1. UNCHANGED <<cr, cache, pc, me, obj, patch, minted>>
  BY DEF GarmEdit, GarmDelete, kube, worker
<1>2. Narrows(garm, garm')
  <2>1. CASE GarmDelete(i)
    BY <2>1 DEF GarmDelete, Narrows, SameIdentity, TypeOK
  <2>2. CASE GarmEdit(i)
    <3>1. PICK v \in Settings, e \in BOOLEAN :
            garm' = [garm EXCEPT ![i] = [@ EXCEPT !.settings = v, !.enabled = e]]
      BY <2>2 DEF GarmEdit
    <3>2. garm[i] # Absent /\ garm[i] \in GarmPool
      BY <2>2 DEF GarmEdit, Live, TypeOK
    <3>3. garm'[i] = [garm[i] EXCEPT !.settings = v, !.enabled = e]
      BY <3>1 DEF TypeOK
    <3>4. SameIdentity(garm'[i], garm[i])
      BY <3>2, <3>3 DEF GarmPool, SameIdentity
    <3>5. \A j \in Ids : j # i => garm'[j] = garm[j]
      BY <3>1 DEF TypeOK
    <3> QED
      BY <3>2, <3>4, <3>5 DEF Narrows, SameIdentity
  <2> QED
    BY <2>1, <2>2
<1> QED
  BY <1>1, <1>2, IdentityFrame, IdentityKube DEF IdentityInv

LEMMA IdentityOutside ==
  ASSUME TypeOK, IdentityInv,
         \/ \E p \in Names : CacheSync(p)
         \/ \E s \in Scopes : ScopeChange(s)
         \/ \E r \in Runners, i \in Ids : Spawn(r, i)
         \/ \E r \in Runners : Advance(r) \/ Reap(r)
         \/ Crash
  PROVE  IdentityInv'
<1>1. UNCHANGED <<cr, garm, minted>>
  BY DEF CacheSync, ScopeChange, Spawn, Advance, Reap, Crash, kube, garmVars, Refresh, Restart
<1>2. \A p \in Names : cr'[p] # Absent => Fits(cr'[p], p, garm, minted)
  BY <1>1 DEF IdentityInv, Exists
<1>3. \A p \in Names : cache'[p] # Absent => Fits(cache'[p], p, garm, minted)
  <2>1. \A p \in Names : cache'[p] = cache[p] \/ cache'[p] = cr[p]
    BY DEF CacheSync, ScopeChange, Spawn, Advance, Reap, Crash, kube, TypeOK, Refresh, Restart
  <2> QED
    BY <2>1 DEF IdentityInv, Exists
<1>4. UNCHANGED <<pc, me, obj, patch>> \/ (pc' = "idle" /\ patch' = {})
  BY DEF CacheSync, ScopeChange, Spawn, Advance, Reap, Crash, Rest, worker, Refresh, Restart
<1> QED
  BY <1>1, <1>2, <1>3, <1>4, IdentityFrame, NothingChanged DEF IdentityInv

-----------------------------------------------------------------------------
LEMMA IdentityInit == Init => IdentityInv
<1> SUFFICES ASSUME Init PROVE IdentityInv
  OBVIOUS
<1>1. minted \in Nat
  BY DEF Init
<1>2. \A p \in Names : Exists(p) => \E s \in Wanted[p] : cr[p] = NewPool(s)
  BY DEF Init, Exists, NewPool
<1>3. \A p \in Names : Exists(p) => Fits(cr[p], p, garm, minted)
  BY <1>1, <1>2, NewPoolFits
<1>4. \A p \in Names : cache[p] # Absent => Fits(cache[p], p, garm, minted)
  BY <1>3 DEF Init, Exists
<1>5. \A i \in Ids : Live(i) => i = 1 /\ minted = 1
  BY DEF Init, Live
<1> QED
  BY <1>3, <1>4, <1>5 DEF IdentityInv, AtMostOnePool, Init

LEMMA IdentityNext ==
  ASSUME StableIdentities
  PROVE  TypeOK /\ IdentityInv /\ [Next]_vars => IdentityInv'
<1> SUFFICES ASSUME TypeOK, IdentityInv, [Next]_vars PROVE IdentityInv'
  OBVIOUS
<1>1. CASE \E p \in Names : Start(p)
  BY <1>1, IdentityStart
<1>2. CASE Work
  BY <1>2, IdentityWrites, IdentityProgress, IdentityUpdate, IdentityCreate, IdentityDrain,
    IdentityRemove DEF Work
<1>3. CASE Environment
  BY <1>3, IdentityUser, IdentityGarm, IdentityOutside DEF Environment
<1>4. CASE UNCHANGED vars
  <2>1. UNCHANGED <<cr, cache, pc, me, obj, patch, garm, minted>>
    BY <1>4 DEF vars
  <2> QED
    BY <2>1, IdentityFrame, IdentityKube, NothingChanged DEF IdentityInv
<1> QED
  BY <1>1, <1>2, <1>3, <1>4 DEF Next

\* If Pools keep their scope and prefix, every copy of a Pool, however stale,
\* and every GARM pool it records have them too, and nothing with them appears
\* between adoptOrCreatePool's list and its create.
THEOREM IdentityInvariant ==
  ASSUME StableIdentities
  PROVE  Spec => [](TypeOK /\ IdentityInv)
<1>1. Init => TypeOK /\ IdentityInv
  BY InitType, IdentityInit
<1>2. TypeOK /\ IdentityInv /\ [Next]_vars => (TypeOK /\ IdentityInv)'
  BY NextType, IdentityNext
<1> QED
  BY <1>1, <1>2, PTL DEF Spec

\* Then a scope and prefix name at most one GARM pool: adoptOrCreatePool finds
\* again what a lost answer, a crash or a conflict made it forget.
THEOREM AdoptionFindsThePool ==
  ASSUME StableIdentities
  PROVE  Spec => []AtMostOnePool
<1>1. TypeOK /\ IdentityInv => AtMostOnePool
  BY DEF IdentityInv
<1> QED
  BY <1>1, IdentityInvariant, PTL

\* And if, as with the chart's prefixes, no two Pools have the same scope and
\* prefix, adoption never makes two Pools share a GARM pool.
THEOREM PoolsAreNotShared ==
  ASSUME StableIdentities, DistinctIdentities
  PROVE  Spec => []NoSharedPool
<1>1. TypeOK /\ IdentityInv => NoSharedPool
  <2> SUFFICES ASSUME IdentityInv, NEW p \in Names, NEW q \in Names,
                      Exists(p), Exists(q), Live(cr[p].id), cr[p].id = cr[q].id
               PROVE  p = q
    BY DEF NoSharedPool
  <2>1. SameIdentity(cr[p].spec, cr[q].spec)
    BY DEF IdentityInv, Fits, Live, SameIdentity
  <2> QED
    BY <2>1 DEF IdentityInv, Fits, DistinctIdentities, SameIdentity
<1> QED
  BY <1>1, IdentityInvariant, PTL

-----------------------------------------------------------------------------
(* Whose pool is deleted.                                                    *)

LEMMA DeleteIsRequested ==
  ASSUME DistinctIdentities, TypeOK, IdentityInv, DeletionInv, [Next]_vars,
         pc = "drainDelete", pc' # pc,
         NEW p \in Names, Exists(p), cr[p].id # NoId, Live(cr[p].id), garm'[cr[p].id] = Absent
  PROVE  cr[p].deleting
<1>1. me \in Names /\ obj \in Pool /\ Fits(obj, me, garm, minted)
  BY WorkerHolds DEF IdentityInv
<1>2. DrainDelete \/ Crash
  <2>1. CASE \E q \in Names : Start(q)
    BY <2>1 DEF Start, Take
  <2>2. CASE Work
    BY <2>2 DEF Work, AddFinalizer, ListPools, CreatePool, GetPool, UpdatePool, SyncInstances,
      MarkReady, MarkPoolFalse, ClearId, DrainGet, DrainDisable, DrainMark, DrainList,
      DrainRunner, DrainWait, RemoveFinalizer
  <2>3. CASE Environment
    BY <2>3 DEF Environment, CacheSync, Refresh, UserCreate, UserEdit, UserDelete, Touch, Change,
      ScopeChange, GarmEdit, GarmDelete, Spawn, Advance, Reap, worker
  <2> QED
    BY <2>1, <2>2, <2>3 DEF Next, vars
<1>3. garm' # garm
  BY DEF Live
<1>4. DrainDelete
  BY <1>2, <1>3 DEF Crash, garmVars
<1>5. garm' = [garm EXCEPT ![obj.id] = Absent]
  BY <1>3, <1>4 DEF DrainDelete
<1>6. cr[p].id = obj.id
  BY <1>5 DEF Live, TypeOK
<1>7. SameIdentity(cr[p].spec, obj.spec)
  BY <1>1, <1>6 DEF IdentityInv, Fits, Live, SameIdentity
<1>8. p = me
  BY <1>1, <1>7 DEF IdentityInv, Fits, DistinctIdentities, SameIdentity
<1> QED
  BY <1>8 DEF DeletionInv, Succeeded, DrainSteps

\* Then, too, draining a Pool takes no runners from another: the GARM pool that is
\* deleted is recorded by no Pool but the one whose deletion was asked for, even if
\* names are used again while the informer lags behind.
THEOREM DeletionIsRequested ==
  ASSUME StableIdentities, DistinctIdentities
  PROVE  Spec => DeletesOnlyOnRequest
<1>1. TypeOK /\ IdentityInv /\ DeletionInv /\ [Next]_vars =>
        [pc = "drainDelete" /\ pc' # pc
           => \A p \in Names : /\ Exists(p) /\ cr[p].id # NoId
                                /\ Live(cr[p].id) /\ garm'[cr[p].id] = Absent
                                => cr[p].deleting]_vars
  BY DeleteIsRequested
<1> QED
  BY <1>1, IdentityInvariant, DeletionInvariant, PTL DEF Spec, DeletesOnlyOnRequest

-----------------------------------------------------------------------------
(* Custody.  The Pool reconciler keeps custody of its GARM pools: every step *)
(* of PoolController is, seen from afar, a step of Custody or none.          *)

-----------------------------------------------------------------------------
(* What a copy says about the Pool's id.                                    *)

\* A reconciliation that has come to rest relies on nothing.
LEMMA RecordAtRest ==
  ASSUME pc' \notin ReconcileSteps
  PROVE  RecordInv'
BY DEF RecordInv, ReconcileSteps

\* Others may change other Pools, and GARM may lose pools.
LEMMA RecordFrame ==
  ASSUME RecordInv, UNCHANGED <<pc, me, obj>>,
         fresh' => fresh /\ cr'[me] = cr[me],
         \A i : Live(i)' => Live(i)
  PROVE  RecordInv'
BY DEF RecordInv

LEMMA RecordWrites ==
  ASSUME AddFinalizer \/ MarkReady \/ MarkPoolFalse \/ ClearId \/ DrainMark \/ DrainWait
         \/ RemoveFinalizer
  PROVE  RecordInv'
<1>1. pc' = "idle"
  BY DEF AddFinalizer, MarkReady, MarkPoolFalse, ClearId, DrainMark, DrainWait,
    RemoveFinalizer, Commit, Write, Release, Requeue, Rest
<1> QED
  BY <1>1, RecordAtRest DEF ReconcileSteps

LEMMA RecordDrain ==
  ASSUME \/ DrainGet \/ DrainDisable \/ DrainList \/ DrainDelete
         \/ \E r \in Runners : DrainRunner(r)
  PROVE  RecordInv'
<1>1. pc' \notin ReconcileSteps
  BY DEF DrainGet, DrainDisable, DrainList, DrainDelete, DrainRunner, DrainGoto, DrainFailed,
    Goto, Return, Requeue, Rest, ReconcileSteps
<1> QED
  BY <1>1, RecordAtRest

\* A fresh copy is the cached one, and that is what the API server holds.
LEMMA RecordStart ==
  ASSUME TypeOK, FinalizerInv, RecordInv, NEW p \in Names, Start(p)
  PROVE  RecordInv'
<1>1. CASE Finished(cache[p])
  <2>1. UNCHANGED <<pc, me, obj, fresh, cr, garm>>
    BY <1>1 DEF Start, Take, garmVars
  <2>2. \A i : Live(i)' => Live(i)
    BY <2>1 DEF Live
  <2> QED
    BY <2>1, <2>2, RecordFrame
<1>2. CASE ~Finished(cache[p])
  <2>1. /\ pc' = FirstStep(obj') /\ me' = p /\ obj' = cache[p]
        /\ fresh' = (p \notin stale) /\ cr' = cr
    BY <1>2 DEF Start, Take
  <2>2. fresh' => obj'.id = cr'[me'].id
    BY <2>1 DEF FinalizerInv, CacheIsCurrent
  <2>3. pc' # "create" /\ (pc' = "list" => obj'.id = NoId)
    BY <2>1 DEF FirstStep
  <2> QED
    BY <2>2, <2>3 DEF RecordInv
<1> QED
  BY <1>1, <1>2

\* Two specs of one Pool have one scope and prefix, so a pool on record that
\* lives would have been found by the list.
LEMMA RecordedIsGone ==
  ASSUME StableIdentities, TypeOK, FinalizerInv, IdentityInv, pc = "create"
  PROVE  Exists(me) /\ cr[me].finalizer /\ ~Live(cr[me].id)
<1>1. me \in Names /\ Exists(me) /\ cr[me].finalizer
  BY WorkerHolds DEF FinalizerInv, ReconcileUnderFinalizer, ReconcileSteps
<1>2. PICK s \in Wanted[me] : SameIdentity(obj.spec, s)
  BY DEF IdentityInv, Fits
<1>3. PICK t \in Wanted[me] : SameIdentity(cr[me].spec, t)
  BY <1>1 DEF IdentityInv, Fits
<1>4. SameIdentity(s, t)
  BY <1>1 DEF StableIdentities
<1>5. SUFFICES ASSUME Live(cr[me].id) PROVE FALSE
  BY <1>1
<1>6. SameIdentity(garm[cr[me].id], cr[me].spec)
  BY <1>1, <1>5 DEF IdentityInv, Fits, Live
<1>7. cr[me].id \in Matches(obj.spec)
  BY <1>2, <1>3, <1>4, <1>5, <1>6 DEF Matches, SameIdentity, Live
<1> QED
  BY <1>7 DEF IdentityInv

\* The id that GARM hands out next is not one that a Pool has on record.
LEMMA MintedIsNew ==
  ASSUME TypeOK, IdentityInv, pc = "create", Mint(obj.spec)
  PROVE  /\ minted + 1 \in Ids /\ ~Live(minted + 1)
         /\ \A i : Live(i)' <=> Live(i) \/ i = minted + 1
         /\ \A n \in Names : Exists(n) => cr[n].id # minted + 1
<1>1. minted \in Nat /\ minted + 1 \in Ids /\ ~(minted + 1 <= minted)
  BY MaxPoolsAssumption DEF TypeOK, Mint, Ids
<1>2. ~Live(minted + 1)
  BY <1>1 DEF IdentityInv
<1>3. Desired(obj.spec) \in GarmPool
  <2>1. obj.spec \in PoolSpec
    BY WorkerHolds DEF Pool
  <2> QED
    BY <2>1 DEF Desired, GarmPool, PoolSpec
<1>4. /\ garm'[minted + 1] # Absent
      /\ \A i \in Ids : i # minted + 1 => garm'[i] = garm[i]
  BY <1>1, <1>3, AbsentAssumption DEF Mint, TypeOK
<1>5. \A n \in Names : Exists(n) => cr[n].id # minted + 1
  BY <1>1 DEF IdentityInv, Fits
<1> QED
  BY <1>1, <1>2, <1>4, <1>5 DEF Live

LEMMA RecordCreate ==
  ASSUME StableIdentities, TypeOK, FinalizerInv, IdentityInv, CreatePool
  PROVE  RecordInv'
<1>1. pc = "create" /\ pc' \in {"instances", "false"} /\ UNCHANGED <<cr, me, fresh>>
  BY DEF CreatePool, Goto, kube
<1>2. me \in Names /\ Exists(me) /\ ~Live(cr[me].id)
  BY <1>1, RecordedIsGone, WorkerHolds
<1>3. ~Live(cr[me].id)'
  <2>1. CASE Mint(obj.spec)
    BY <1>1, <1>2, <2>1, MintedIsNew
  <2>2. CASE garm' = garm
    BY <1>1, <1>2, <2>2 DEF Live
  <2> QED
    BY <2>1, <2>2 DEF CreatePool, garmVars
<1> QED
  BY <1>1, <1>3 DEF RecordInv

\* The calls that leave an id in place, find one, or find that it is gone.
LEMMA RecordProgress ==
  ASSUME TypeOK, RecordInv, ListPools \/ GetPool \/ UpdatePool \/ SyncInstances
  PROVE  RecordInv'
<1>1. /\ pc \in ReconcileSteps \ {"finalize", "create"} /\ pc' \in ReconcileSteps \ {"finalize", "list"}
      /\ UNCHANGED <<cr, me, fresh>>
  BY DEF ListPools, GetPool, UpdatePool, SyncInstances, Goto, kube, ReconcileSteps
<1>2. obj \in Pool
  BY <1>1, WorkerHolds DEF ReconcileSteps
<1>3. ~Live(NoId)
  BY DEF Live, Ids, NoId
<1>4. \A i : Live(i)' => Live(i)
  <2>1. CASE garm' = garm
    BY <2>1 DEF Live
  <2>2. CASE ApplyPatch
    BY <2>2 DEF ApplyPatch, Live, TypeOK
  <2> QED
    BY <2>1, <2>2 DEF ListPools, GetPool, UpdatePool, SyncInstances, garmVars
<1>5. pc' = "create" => obj'.id = NoId
  BY DEF ListPools, GetPool, UpdatePool, SyncInstances, Goto, RecordInv
<1>6. fresh => obj'.id = cr[me].id \/ ~Live(cr[me].id)
  <2>1. fresh => obj.id = cr[me].id \/ ~Live(cr[me].id)
    BY <1>1 DEF RecordInv
  <2>2. CASE obj' = obj
    BY <2>1, <2>2
  <2>3. CASE ListPools
    BY <1>3, <2>1, <2>3 DEF ListPools, RecordInv
  <2>4. CASE GetPool /\ obj' # obj
    BY <2>1, <2>4 DEF GetPool
  <2> QED
    BY <2>2, <2>3, <2>4 DEF UpdatePool, SyncInstances
<1> QED
  BY <1>1, <1>4, <1>5, <1>6 DEF RecordInv

LEMMA RecordEnvironment ==
  ASSUME TypeOK, RecordInv, Environment
  PROVE  RecordInv'
<1>1. ASSUME NEW p \in Names, NEW o, Touch(p, o) PROVE RecordInv'
  <2>1. UNCHANGED <<pc, me, obj, garm>> /\ (fresh' => fresh /\ me # p)
    BY <1>1 DEF Touch, Change, garmVars
  <2>2. fresh' => cr'[me] = cr[me]
    BY <1>1, <2>1 DEF Touch, Change, TypeOK
  <2>3. \A i : Live(i)' => Live(i)
    BY <2>1 DEF Live
  <2> QED
    BY <2>1, <2>2, <2>3, RecordFrame
<1>2. CASE \E p \in Names : UserCreate(p) \/ UserEdit(p) \/ UserDelete(p)
  BY <1>1, <1>2 DEF UserCreate, UserEdit, UserDelete
<1>3. ASSUME UNCHANGED <<cr, pc, me, obj, fresh>>, \A i : Live(i)' => Live(i)
      PROVE  RecordInv'
  BY <1>3, RecordFrame
<1>4. CASE \/ \E p \in Names : CacheSync(p)
           \/ \E s \in Scopes : ScopeChange(s)
           \/ \E r \in Runners, i \in Ids : Spawn(r, i)
           \/ \E r \in Runners : Advance(r) \/ Reap(r)
  <2>1. UNCHANGED <<cr, pc, me, obj, fresh, garm>>
    BY <1>4 DEF CacheSync, Refresh, ScopeChange, Spawn, Advance, Reap, kube, worker, garmVars
  <2> QED
    BY <1>3, <2>1 DEF Live
<1>5. ASSUME NEW i \in Ids, GarmEdit(i) \/ GarmDelete(i) PROVE RecordInv'
  <2>1. UNCHANGED <<cr, pc, me, obj, fresh>>
    BY <1>5 DEF GarmEdit, GarmDelete, kube, worker
  <2>2. \A j : Live(j)' => Live(j)
    BY <1>5 DEF GarmEdit, GarmDelete, Live, TypeOK
  <2> QED
    BY <1>3, <2>1, <2>2
<1>6. CASE Crash
  <2>1. pc' = "idle"
    BY <1>6 DEF Crash, Restart, Rest
  <2> QED
    BY <2>1, RecordAtRest DEF ReconcileSteps
<1> QED
  BY <1>2, <1>4, <1>5, <1>6 DEF Environment

LEMMA RecordInit == Init => RecordInv
BY DEF Init, RecordInv, ReconcileSteps

LEMMA RecordNext ==
  ASSUME StableIdentities
  PROVE  TypeOK /\ FinalizerInv /\ IdentityInv /\ RecordInv /\ [Next]_vars => RecordInv'
<1> SUFFICES ASSUME TypeOK, FinalizerInv, IdentityInv, RecordInv, [Next]_vars
             PROVE  RecordInv'
  OBVIOUS
<1>1. CASE \E p \in Names : Start(p)
  BY <1>1, RecordStart
<1>2. CASE Work
  BY <1>2, RecordWrites, RecordDrain, RecordCreate, RecordProgress DEF Work
<1>3. CASE Environment
  BY <1>3, RecordEnvironment
<1>4. CASE UNCHANGED vars
  <2>1. UNCHANGED <<cr, pc, me, obj, fresh, garm>>
    BY <1>4 DEF vars
  <2> QED
    BY <2>1, RecordFrame DEF Live
<1> QED
  BY <1>1, <1>2, <1>3, <1>4 DEF Next

\* If Pools keep their scope and prefix, a copy that may still be written says
\* of the Pool's id what the API server says, or GARM has lost the pool that the
\* API server has on record.
THEOREM RecordInvariant ==
  ASSUME StableIdentities
  PROVE  Spec => []RecordInv
<1>1. TypeOK /\ FinalizerInv /\ IdentityInv /\ RecordInv /\ [Next]_vars => RecordInv'
  BY RecordNext
<1> QED
  BY <1>1, RecordInit, FinalizerInvariant, IdentityInvariant, PTL DEF Spec

-----------------------------------------------------------------------------
(* The steps as Custody sees them.                                          *)

\* Neither a resource nor the set of living objects has changed.
LEMMA CustodyStutter ==
  ASSUME cr' = cr, \A i \in Ids : Live(i)' <=> Live(i)
  PROVE  UNCHANGED GarmCustody!custody
BY DEF GarmCustody!custody, Guarded, Recorded, Alive

\* What Guarded and Recorded say of one resource.
LEMMA CustodyAt ==
  ASSUME NEW p \in Names
  PROVE  /\ p \in Guarded <=> HasFinalizer(cr[p])
         /\ Recorded[p] = OnRecord(cr[p])
         /\ [Recorded EXCEPT ![p] = OnRecord(cr[p])] = Recorded
<1>1. Recorded = [n \in Names |-> Recorded[n]] /\ Recorded[p] = OnRecord(cr[p])
  BY DEF Recorded
<1> QED
  BY <1>1 DEF Guarded

\* Someone has written one resource.
Writes(p, o) == cr' = [cr EXCEPT ![p] = o] /\ garm' = garm

LEMMA CustodyOf ==
  ASSUME TypeOK, NEW p \in Names, NEW o, Writes(p, o)
  PROVE  /\ Alive' = Alive
         /\ HasFinalizer(o) => Guarded' = Guarded \cup {p}
         /\ ~HasFinalizer(o) => Guarded' = Guarded \ {p}
         /\ Recorded' = [Recorded EXCEPT ![p] = OnRecord(o)]
<1>1. cr'[p] = o /\ \A n \in Names : n # p => cr'[n] = cr[n]
  BY DEF TypeOK, Writes
<1>2. \A n \in Names : Recorded'[n] = IF n = p THEN OnRecord(o) ELSE Recorded[n]
  BY <1>1 DEF Recorded
<1>3. /\ Recorded = [n \in Names |-> Recorded[n]]
      /\ Recorded' = [n \in Names |-> Recorded'[n]]
  BY DEF Recorded
<1>4. Recorded' = [Recorded EXCEPT ![p] = OnRecord(o)]
  BY <1>2, <1>3
<1> QED
  BY <1>1, <1>4 DEF Guarded, Alive, Live, Writes

\* A write that leaves finalizer and id as they were.
LEMMA CustodyKept ==
  ASSUME TypeOK, NEW p \in Names, NEW o, Writes(p, o),
         HasFinalizer(cr[p]) <=> HasFinalizer(o), OnRecord(cr[p]) = OnRecord(o)
  PROVE  UNCHANGED GarmCustody!custody
<1>1. Guarded' = Guarded
  BY CustodyOf, CustodyAt
<1>2. Recorded' = Recorded
  BY CustodyOf, CustodyAt
<1> QED
  BY <1>1, <1>2, CustodyOf DEF GarmCustody!custody

\* The write that puts the finalizer on.
LEMMA CustodyGuard ==
  ASSUME TypeOK, FinalizerInv, RecordInv, AddFinalizer
  PROVE  [GarmCustody!Next]_(GarmCustody!custody)
<1> DEFINE o == [obj EXCEPT !.finalizer = TRUE,
                            !.spec = Defaulted(obj.spec),
                            !.current = obj.current /\ Defaulted(obj.spec) = obj.spec]
<1>1. me \in Names /\ obj \in Pool /\ garm' = garm
  BY WorkerHolds DEF AddFinalizer, Commit, garmVars
<1>2. Defaulted(obj.spec) \in PoolSpec
  BY <1>1 DEF Defaulted, Pool, PoolSpec
<1>3. o \in Pool /\ o.finalizer /\ o.id = obj.id
  BY <1>1, <1>2 DEF Pool
<1>4. Commit(o)
  BY DEF AddFinalizer
<1> HIDE DEF o
<1>5. CASE cr' = cr
  BY <1>1, <1>5, CustodyStutter DEF Live
<1>6. CASE fresh /\ Writes(me, o)
  <2>1. HasFinalizer(o) /\ OnRecord(cr[me]) = OnRecord(o)
    BY <1>3, <1>6, AbsentAssumption
    DEF AddFinalizer, RecordInv, FinalizerInv, FreshCopy, Exists, HasFinalizer, OnRecord
  <2>2. CASE HasFinalizer(cr[me])
    BY <1>1, <1>6, <2>1, <2>2, CustodyKept
  <2>3. CASE ~HasFinalizer(cr[me])
    <3>1. Alive' = Alive /\ Guarded' = Guarded \cup {me} /\ Recorded' = Recorded
      BY <1>1, <1>6, <2>1, CustodyOf, CustodyAt
    <3>2. me \notin Guarded
      BY <1>1, <2>3, CustodyAt
    <3> QED
      BY <1>1, <3>1, <3>2 DEF GarmCustody!Next, GarmCustody!Guard
  <2> QED
    BY <2>2, <2>3
<1> QED
  BY <1>1, <1>4, <1>5, <1>6 DEF Commit, Write, Writes

\* The writes that end a reconciliation record the id that the copy holds.
LEMMA CustodyRecord ==
  ASSUME TypeOK, FinalizerInv, RecordInv, pc \in ReconcileSteps \ {"finalize"},
         NEW o \in Pool, o.finalizer = obj.finalizer, o.id = obj.id, Commit(o)
  PROVE  [GarmCustody!Next]_(GarmCustody!custody)
<1>1. me \in Names /\ obj \in Pool /\ garm' = garm
  BY WorkerHolds DEF Commit, garmVars, ReconcileSteps
<1>2. CASE cr' = cr
  BY <1>1, <1>2, CustodyStutter DEF Live
<1>3. CASE fresh /\ Writes(me, o)
  <2>1. HasFinalizer(cr[me]) /\ HasFinalizer(o)
    BY AbsentAssumption DEF FinalizerInv, ReconcileUnderFinalizer, Exists, HasFinalizer
  <2>2. OnRecord(cr[me]) = cr[me].id /\ OnRecord(o) = o.id
    BY <2>1 DEF HasFinalizer, OnRecord
  <2>3. CASE o.id = cr[me].id
    BY <1>1, <1>3, <2>1, <2>2, <2>3, CustodyKept
  <2>4. CASE ~Live(cr[me].id)
    <3>1. me \in Guarded /\ Recorded[me] \notin Alive
      BY <1>1, <2>1, <2>2, <2>4, CustodyAt DEF Alive
    <3>2. /\ Alive' = Alive /\ Guarded' = Guarded \cup {me}
          /\ Recorded' = [Recorded EXCEPT ![me] = o.id]
      BY <1>1, <1>3, <2>1, <2>2, CustodyOf
    <3>3. o.id \in Ids \cup {NoId}
      BY DEF Pool, Ids, NoId
    <3>4. Guarded' = Guarded
      BY <3>1, <3>2
    <3>5. GarmCustody!Record(me, o.id)
      BY <3>1, <3>2, <3>4 DEF GarmCustody!Record
    <3> QED
      BY <1>1, <3>3, <3>5 DEF GarmCustody!Next
  <2> QED
    BY <1>3, <2>3, <2>4 DEF RecordInv
<1> QED
  BY <1>1, <1>2, <1>3 DEF Commit, Write, Writes

\* What drain writes to the status.
LEMMA CustodyDrainNote ==
  ASSUME TypeOK, FinalizerInv, pc \in DrainSteps,
         NEW o \in Pool, o.finalizer = obj.finalizer, o.id = obj.id, Commit(o)
  PROVE  UNCHANGED GarmCustody!custody
<1>1. me \in Names /\ garm' = garm
  BY WorkerHolds DEF Commit, garmVars, DrainSteps
<1>2. CASE cr' = cr
  BY <1>1, <1>2, CustodyStutter DEF Live
<1>3. CASE fresh /\ Writes(me, o)
  <2>1. Exists(me) /\ cr[me].finalizer /\ o.finalizer /\ cr[me].id = o.id
    BY <1>3, DrainHasFinalizer DEF FinalizerInv, FreshCopy, DrainCopy
  <2>2. /\ HasFinalizer(cr[me]) /\ HasFinalizer(o)
        /\ OnRecord(cr[me]) = OnRecord(o)
    BY <2>1, AbsentAssumption DEF Exists, HasFinalizer, OnRecord
  <2> QED
    BY <1>1, <1>3, <2>2, CustodyKept
<1> QED
  BY <1>1, <1>2, <1>3 DEF Commit, Write, Writes

LEMMA CustodyWrites ==
  ASSUME TypeOK, FinalizerInv, RecordInv,
         MarkReady \/ MarkPoolFalse \/ ClearId \/ DrainMark \/ DrainWait
  PROVE  [GarmCustody!Next]_(GarmCustody!custody)
<1>1. obj \in Pool
  BY WorkerHolds DEF MarkReady, MarkPoolFalse, ClearId, DrainMark, DrainWait
<1>2. CASE MarkReady
  <2> DEFINE o == [obj EXCEPT !.ready = TRUE, !.current = TRUE]
  <2>1. o \in Pool /\ o.finalizer = obj.finalizer /\ o.id = obj.id
    BY <1>1 DEF Pool
  <2>2. Commit(o) /\ pc \in ReconcileSteps \ {"finalize"}
    BY <1>2 DEF MarkReady, ReconcileSteps
  <2> HIDE DEF o
  <2> QED
    BY <2>1, <2>2, CustodyRecord
<1>3. CASE MarkPoolFalse
  <2> DEFINE o == [obj EXCEPT !.ready = FALSE]
  <2>1. o \in Pool /\ o.finalizer = obj.finalizer /\ o.id = obj.id
    BY <1>1 DEF Pool
  <2>2. Commit(o) /\ pc \in ReconcileSteps \ {"finalize"}
    BY <1>3 DEF MarkPoolFalse, ReconcileSteps
  <2> HIDE DEF o
  <2> QED
    BY <2>1, <2>2, CustodyRecord
<1>4. CASE ClearId
  <2>1. pc \in ReconcileSteps \ {"finalize"}
    BY <1>4 DEF ClearId, ReconcileSteps
  <2> QED
    BY <1>1, <1>4, <2>1, CustodyRecord DEF ClearId
<1>5. CASE DrainMark
  <2> DEFINE o == [obj EXCEPT !.draining = "Disabled"]
  <2>1. o \in Pool /\ o.finalizer = obj.finalizer /\ o.id = obj.id
    BY <1>1 DEF Pool
  <2>2. Commit(o) /\ pc \in DrainSteps
    BY <1>5 DEF DrainMark, DrainSteps
  <2> HIDE DEF o
  <2> QED
    BY <2>1, <2>2, CustodyDrainNote
<1>6. CASE DrainWait
  <2> DEFINE o == [obj EXCEPT !.draining = "WaitingForRunners"]
  <2>1. o \in Pool /\ o.finalizer = obj.finalizer /\ o.id = obj.id
    BY <1>1 DEF Pool
  <2>2. Commit(o) /\ pc \in DrainSteps
    BY <1>6 DEF DrainWait, DrainSteps
  <2> HIDE DEF o
  <2> QED
    BY <2>1, <2>2, CustodyDrainNote
<1> QED
  BY <1>2, <1>3, <1>4, <1>5, <1>6

\* The creation of a pool, whether or not its answer arrives.
LEMMA CustodyCreate ==
  ASSUME StableIdentities, TypeOK, FinalizerInv, IdentityInv, CreatePool
  PROVE  [GarmCustody!Next]_(GarmCustody!custody)
<1>1. pc = "create" /\ cr' = cr
  BY DEF CreatePool, kube
<1>2. CASE garm' = garm
  BY <1>1, <1>2, CustodyStutter DEF Live
<1>3. CASE Mint(obj.spec)
  <2>1. me \in Names /\ HasFinalizer(cr[me]) /\ ~Live(cr[me].id)
    BY <1>1, RecordedIsGone, WorkerHolds DEF Exists, HasFinalizer
  <2>2. me \in Guarded /\ Recorded[me] \notin Alive
    BY <2>1, CustodyAt DEF HasFinalizer, OnRecord, Alive
  <2>3. /\ minted + 1 \in Ids /\ minted + 1 \notin Alive
        /\ Alive' = Alive \cup {minted + 1}
    BY <1>1, <1>3, MintedIsNew DEF Alive
  <2>4. UNCHANGED <<Guarded, Recorded>>
    BY <1>1 DEF Guarded, Recorded
  <2>5. GarmCustody!Create(me, minted + 1)
    BY <2>2, <2>3, <2>4 DEF GarmCustody!Create
  <2> QED
    BY <2>1, <2>3, <2>5 DEF GarmCustody!Next
<1> QED
  BY <1>2, <1>3 DEF CreatePool, garmVars

\* Calls that change a pool at most.
LEMMA CustodyChange ==
  ASSUME TypeOK,
         \/ ListPools \/ GetPool \/ UpdatePool \/ SyncInstances
         \/ DrainGet \/ DrainDisable \/ DrainList
         \/ \E r \in Runners : DrainRunner(r)
         \/ \E i \in Ids : GarmEdit(i)
  PROVE  UNCHANGED GarmCustody!custody
<1>1. cr' = cr
  BY DEF ListPools, GetPool, UpdatePool, SyncInstances, DrainGet, DrainDisable, DrainList,
    DrainRunner, DrainGoto, DrainFailed, GarmEdit, kube
<1>2. CASE garm' = garm
  BY <1>1, <1>2, CustodyStutter DEF Live
<1>3. ASSUME NEW i \in Ids, NEW g \in GarmPool, Live(i), garm' = [garm EXCEPT ![i] = g]
      PROVE  UNCHANGED GarmCustody!custody
  <2>1. \A j \in Ids : Live(j)' <=> Live(j)
    BY <1>3, AbsentAssumption DEF Live, TypeOK
  <2> QED
    BY <1>1, <2>1, CustodyStutter
<1>4. CASE UpdatePool /\ ApplyPatch
  <2>1. obj \in Pool /\ Live(obj.id) /\ obj.id \in Ids /\ garm[obj.id] \in GarmPool
    BY <1>4, WorkerHolds DEF UpdatePool, ApplyPatch, Live, TypeOK
  <2>2. Patched(garm[obj.id], obj.spec, patch) \in GarmPool
    BY <2>1 DEF Patched, Pool, PoolSpec, GarmPool
  <2> QED
    BY <1>3, <1>4, <2>1, <2>2 DEF ApplyPatch
<1>5. CASE DrainDisable /\ Disable
  <2>1. Live(obj.id) /\ obj.id \in Ids /\ garm[obj.id] \in GarmPool
    BY <1>5 DEF Disable, Live, TypeOK
  <2>2. [garm[obj.id] EXCEPT !.enabled = FALSE] \in GarmPool
    BY <2>1 DEF GarmPool
  <2>3. garm' = [garm EXCEPT ![obj.id] = [garm[obj.id] EXCEPT !.enabled = FALSE]]
    BY <1>5 DEF Disable
  <2> QED
    BY <1>3, <2>1, <2>2, <2>3
<1>6. CASE \E i \in Ids : GarmEdit(i)
  <2>1. PICK i \in Ids, v \in Settings, e \in BOOLEAN :
          /\ Live(i)
          /\ garm' = [garm EXCEPT ![i] = [@ EXCEPT !.settings = v, !.enabled = e]]
    BY <1>6 DEF GarmEdit
  <2>2. [garm[i] EXCEPT !.settings = v, !.enabled = e] \in GarmPool
    BY <2>1 DEF Live, TypeOK, GarmPool
  <2>3. garm' = [garm EXCEPT ![i] = [garm[i] EXCEPT !.settings = v, !.enabled = e]]
    BY <2>1
  <2> QED
    BY <1>3, <2>1, <2>2, <2>3
<1>7. CASE ListPools \/ GetPool \/ SyncInstances \/ DrainGet \/ DrainList
           \/ \E r \in Runners : DrainRunner(r)
  <2>1. garm' = garm
    BY <1>7 DEF ListPools, GetPool, SyncInstances, DrainGet, DrainList, DrainRunner, garmVars
  <2> QED
    BY <1>2, <2>1
<1> QED
  BY <1>2, <1>4, <1>5, <1>6, <1>7 DEF UpdatePool, DrainDisable

\* The deletion of a pool, by drain or by the administrator.
LEMMA CustodyDestroy ==
  ASSUME TypeOK, DrainDelete \/ \E i \in Ids : GarmDelete(i)
  PROVE  [GarmCustody!Next]_(GarmCustody!custody)
<1>1. cr' = cr
  BY DEF DrainDelete, DrainGoto, DrainFailed, GarmDelete, kube
<1>2. ASSUME NEW i, garm' = [garm EXCEPT ![i] = Absent]
      PROVE  [GarmCustody!Next]_(GarmCustody!custody)
  <2>1. \A j \in Ids : Live(j)' <=> Live(j) /\ j # i
    BY <1>2 DEF Live, TypeOK
  <2>2. CASE i \notin Alive
    BY <1>1, <2>1, <2>2, CustodyStutter DEF Alive
  <2>3. CASE i \in Alive
    <3>1. Alive' = Alive \ {i} /\ UNCHANGED <<Guarded, Recorded>>
      BY <1>1, <2>1 DEF Alive, Guarded, Recorded
    <3>2. GarmCustody!Destroy(i) /\ i \in Ids
      BY <2>3, <3>1 DEF GarmCustody!Destroy, Alive
    <3> QED
      BY <3>2 DEF GarmCustody!Next
  <2> QED
    BY <2>2, <2>3
<1>3. CASE garm' = garm
  BY <1>1, <1>3, CustodyStutter DEF Live
<1> QED
  BY <1>2, <1>3 DEF DrainDelete, GarmDelete

\* Letting a resource go.
LEMMA CustodyRelease ==
  ASSUME TypeOK, FinalizerInv, RemoveFinalizer
  PROVE  [GarmCustody!Next]_(GarmCustody!custody)
<1>1. pc = "unfinalize" /\ pc \in DrainSteps /\ me \in Names /\ garm' = garm
  BY WorkerHolds DEF RemoveFinalizer, DrainSteps, garmVars
<1>2. CASE cr' = cr
  BY <1>1, <1>2, CustodyStutter DEF Live
<1>3. CASE fresh /\ Writes(me, Absent)
  <2>1. HasFinalizer(cr[me]) /\ cr[me].id = obj.id
    BY <1>1, <1>3, DrainHasFinalizer DEF FinalizerInv, FreshCopy, DrainCopy, Exists, HasFinalizer
  <2>2. ~Live(cr[me].id)
    BY <1>1, <2>1 DEF FinalizerInv, ReleasesNothing, Live, Ids, NoId
  <2>3. me \in Guarded /\ Recorded[me] \notin Alive
    BY <1>1, <2>1, <2>2, CustodyAt DEF HasFinalizer, OnRecord, Alive
  <2>4. ~HasFinalizer(Absent) /\ OnRecord(Absent) = NoId
    BY DEF HasFinalizer, OnRecord
  <2>5. /\ Alive' = Alive /\ Guarded' = Guarded \ {me}
        /\ Recorded' = [Recorded EXCEPT ![me] = NoId]
    BY <1>1, <1>3, <2>4, CustodyOf
  <2>6. GarmCustody!Release(me)
    BY <2>3, <2>5 DEF GarmCustody!Release
  <2> QED
    BY <1>1, <2>6 DEF GarmCustody!Next
<1> QED
  BY <1>1, <1>2, <1>3 DEF RemoveFinalizer, Release, Writes

\* What users do leaves both finalizers and ids as they are.
LEMMA CustodyUser ==
  ASSUME TypeOK, FinalizerInv, NEW p \in Names, UserCreate(p) \/ UserEdit(p) \/ UserDelete(p)
  PROVE  UNCHANGED GarmCustody!custody
<1>1. ASSUME NEW o, Touch(p, o), HasFinalizer(cr[p]) <=> HasFinalizer(o),
             OnRecord(cr[p]) = OnRecord(o)
      PROVE  UNCHANGED GarmCustody!custody
  <2>1. Writes(p, o)
    BY <1>1 DEF Touch, Change, garmVars, Writes
  <2> QED
    BY <1>1, <2>1, CustodyKept
<1>2. CASE UserCreate(p)
  <2>1. PICK s \in Wanted[p] : Touch(p, NewPool(s))
    BY <1>2 DEF UserCreate
  <2>2. /\ ~HasFinalizer(NewPool(s)) /\ OnRecord(NewPool(s)) = NoId
        /\ ~HasFinalizer(cr[p]) /\ OnRecord(cr[p]) = NoId
    BY <1>2 DEF UserCreate, Exists, HasFinalizer, OnRecord, NewPool
  <2> QED
    BY <1>1, <2>1, <2>2
<1>3. CASE UserEdit(p)
  <2>1. PICK s \in Wanted[p] : Touch(p, [cr[p] EXCEPT !.spec = s, !.current = FALSE])
    BY <1>3 DEF UserEdit
  <2> DEFINE o == [cr[p] EXCEPT !.spec = s, !.current = FALSE]
  <2>2. cr[p] \in Pool /\ s \in PoolSpec
    BY <1>3, WantedAssumption DEF UserEdit, Exists, TypeOK
  <2>3. o \in Pool /\ o.finalizer = cr[p].finalizer /\ o.id = cr[p].id /\ Touch(p, o)
    BY <2>1, <2>2 DEF Pool
  <2> HIDE DEF o
  <2>4. (HasFinalizer(cr[p]) <=> HasFinalizer(o)) /\ OnRecord(cr[p]) = OnRecord(o)
    BY <2>2, <2>3, AbsentAssumption DEF HasFinalizer, OnRecord
  <2> QED
    BY <1>1, <2>3, <2>4
<1>4. CASE UserDelete(p)
  <2> DEFINE o == Deleted(cr[p])
  <2>1. cr[p] \in Pool /\ Exists(p) /\ Touch(p, o)
    BY <1>4 DEF UserDelete, Exists, TypeOK
  <2>2. CASE cr[p].finalizer
    <3>1. o \in Pool /\ o.finalizer /\ o.id = cr[p].id
      BY <2>1, <2>2 DEF Deleted, Pool
    <3> HIDE DEF o
    <3>2. (HasFinalizer(cr[p]) <=> HasFinalizer(o)) /\ OnRecord(cr[p]) = OnRecord(o)
      BY <2>1, <2>2, <3>1, AbsentAssumption DEF HasFinalizer, OnRecord
    <3> QED
      BY <1>1, <2>1, <3>2
  <2>3. CASE ~cr[p].finalizer
    <3>1. o = Absent /\ cr[p].id = NoId
      BY <2>1, <2>3 DEF Deleted, FinalizerInv, BareHasNothing
    <3> HIDE DEF o
    <3>2. (HasFinalizer(cr[p]) <=> HasFinalizer(o)) /\ OnRecord(cr[p]) = OnRecord(o)
      BY <2>1, <2>3, <3>1, AbsentAssumption DEF HasFinalizer, OnRecord
    <3> QED
      BY <1>1, <2>1, <3>2
  <2> QED
    BY <2>2, <2>3
<1> QED
  BY <1>2, <1>3, <1>4

LEMMA CustodyInit == Init => GarmCustody!Init
<1> SUFFICES ASSUME Init PROVE GarmCustody!Init
  OBVIOUS
<1>1. \A p \in Names : Exists(p) => ~cr[p].finalizer /\ cr[p].id = NoId
  BY DEF Init, Exists, NewPool
<1>2. \A p \in Names : ~HasFinalizer(cr[p]) /\ OnRecord(cr[p]) = NoId
  BY <1>1 DEF Exists, HasFinalizer, OnRecord
<1>3. Guarded = {} /\ Alive \subseteq Ids
  BY <1>2 DEF Guarded, Alive
<1>4. Recorded = [n \in Names |-> NoId]
  BY <1>2 DEF Recorded
<1> QED
  BY <1>3, <1>4 DEF GarmCustody!Init

LEMMA CustodyNext ==
  ASSUME StableIdentities
  PROVE  TypeOK /\ FinalizerInv /\ IdentityInv /\ RecordInv /\ [Next]_vars
           => [GarmCustody!Next]_(GarmCustody!custody)
<1> SUFFICES ASSUME TypeOK, FinalizerInv, IdentityInv, RecordInv, [Next]_vars
             PROVE  [GarmCustody!Next]_(GarmCustody!custody)
  OBVIOUS
<1>1. ASSUME UNCHANGED <<cr, garm>> PROVE UNCHANGED GarmCustody!custody
  BY <1>1, CustodyStutter DEF Live
<1>2. CASE \E p \in Names : Start(p)
  BY <1>1, <1>2 DEF Start, Take, garmVars
<1>3. CASE Work
  BY <1>3, CustodyGuard, CustodyWrites, CustodyCreate, CustodyChange, CustodyDestroy,
    CustodyRelease DEF Work
<1>4. CASE Environment
  <2>1. CASE \/ \E p \in Names : CacheSync(p)
             \/ \E s \in Scopes : ScopeChange(s)
             \/ \E r \in Runners, i \in Ids : Spawn(r, i)
             \/ \E r \in Runners : Advance(r) \/ Reap(r)
             \/ Crash
    BY <1>1, <2>1 DEF CacheSync, Refresh, ScopeChange, Spawn, Advance, Reap, Crash, Restart,
      kube, garmVars
  <2> QED
    BY <1>4, <2>1, CustodyUser, CustodyChange, CustodyDestroy DEF Environment
<1>5. CASE UNCHANGED vars
  BY <1>1, <1>5 DEF vars
<1> QED
  BY <1>2, <1>3, <1>4, <1>5 DEF Next

\* The Pool reconciler implements Custody: whatever faults, crashes, conflicts and
\* stale copies there are, a pool is created only for a Pool under the finalizer
\* with no living pool on record, and no record of a living pool is given up.
THEOREM PoolKeepsCustody ==
  ASSUME StableIdentities
  PROVE  Spec => KeepsCustody
<1>1. TypeOK /\ FinalizerInv /\ IdentityInv /\ RecordInv /\ [Next]_vars
        => [GarmCustody!Next]_(GarmCustody!custody)
  BY CustodyNext
<1> QED
  BY <1>1, CustodyInit, FinalizerInvariant, IdentityInvariant, RecordInvariant, PTL
  DEF Spec, KeepsCustody, GarmCustody!Spec
=============================================================================
