--------------------------- MODULE ReconcileProofs ---------------------------
(***************************************************************************)
(* Proofs about the reconcile passes, for any instances, specs, faults and *)
(* lag: the passes follow the lock protocol, so that what LockProofs shows *)
(* of the protocol holds of them, and every variable keeps its type.       *)
(***************************************************************************)
EXTENDS Reconcile, LockProofs

-----------------------------------------------------------------------------
(* What a place in a pass says of the lock operation it is in.             *)
StagesAt ==
    [ idle    |-> {"out"},
      check   |-> {"out"},
      acquire |-> {"out", "create"},
      prepare |-> {"held", "parallel"},
      create  |-> {"held", "parallel"},
      verify  |-> {"held", "parallel"},
      end     |-> {"out", "delete", "confirm"},
      fail    |-> {"held", "parallel", "delete", "confirm"},
      patch   |-> {"out", "held", "parallel", "released"} ]

PassFollowsLock ==
    /\ pc \in [Instances -> PCs]
    /\ stage \in [Instances -> Stages]
    /\ \A i \in Instances : stage[i] \in StagesAt[pc[i]]

(* A pass that goes beyond the finalizer finds it in place, and as long as *)
(* the pass relies on the lock it stays there.                             *)
FinalizerHolds ==
    /\ finalizer \cap gone = {}
    /\ \A i \in Finalized :
          pc[i] \notin {"idle", "patch"} \/ stage[i] # "out" => i \in finalizer

(* The cache may be behind, but only a pass that has seen the deletion     *)
(* timestamp takes the finalizer off.                                      *)
CachedFinalizerHolds ==
    /\ crCache = [i \in Instances |-> crCache[i]]
    /\ \A i \in LaggingCR :
          crCache[i].finalizer /\ ~crCache[i].terminating => i \in finalizer

PassInv == PassFollowsLock /\ FinalizerHolds /\ CachedFinalizerHolds

(* A step that leaves pc, the lock and the finalizers alone, whatever it   *)
(* does to pods, queues and generations, keeps the invariant.              *)
LEMMA PassInvFrame ==
  ASSUME PassInv,
         UNCHANGED <<pc, stage, gone, finalizer, crCache>>
  PROVE  PassInv'
BY DEF PassInv, PassFollowsLock, FinalizerHolds, CachedFinalizerHolds

(* A pass moves on: only the place and the lock stage of i change.         *)
LEMMA PassInvMove ==
  ASSUME PassInv, NEW i \in Instances, NEW p \in PCs, NEW s \in StagesAt[p],
         Go(i, p), MoveTo(i, s), UNCHANGED <<gone, finalizer, crCache>>,
         (p \notin {"idle", "patch"} \/ s # "out") /\ i \in Finalized
           => i \in finalizer
  PROVE  PassInv'
<1>1. PassFollowsLock'
  <2>1. s \in Stages
    BY DEF StagesAt, PCs, Stages
  <2> QED
    BY <2>1 DEF PassInv, PassFollowsLock, Go, MoveTo
<1>2. FinalizerHolds'
  BY DEF PassInv, PassFollowsLock, FinalizerHolds, Go, MoveTo, Finalized
<1>3. CachedFinalizerHolds'
  BY DEF PassInv, CachedFinalizerHolds
<1> QED
  BY <1>1, <1>2, <1>3 DEF PassInv

(* Whoever reads a resource with the finalizer and without a deletion      *)
(* timestamp, from the cache or not, reads the truth about the finalizer.  *)
LEMMA FinalizerRead ==
  ASSUME PassInv, NEW i \in Instances, Get(i).finalizer, ~Get(i).terminating
  PROVE  i \in finalizer
BY DEF PassInv, CachedFinalizerHolds, Get, Resource

(* The steps of a pass keep the invariant.                                 *)
LEMMA PassInvWork ==
  ASSUME PassInv, NEW i \in Instances, Work(i) \/ Fails(i)
  PROVE  PassInv'
<1> DEFINE Same == UNCHANGED <<gone, finalizer, crCache>>
<1> USE DEF PassInv, PassFollowsLock, FinalizerHolds, StagesAt, PCs
<1>1. ASSUME NEW p \in PCs, pc[i] \notin {"idle", "patch"}, Go(i, p),
             stage[i] \in StagesAt[p], UNCHANGED lockVars, Same
      PROVE  PassInv'
  <2>1. MoveTo(i, stage[i])
    BY <1>1 DEF MoveTo, lockVars
  <2> QED
    BY <1>1, <2>1, PassInvMove
<1>2. CASE CheckConfigChange(i) \/ CheckConfigChangeFails(i)
  <2>1. pc[i] = "check" /\ Go(i, "patch") /\ UNCHANGED <<lockVars, crVars>>
    BY <1>2 DEF CheckConfigChange, CheckConfigChangeFails, Return
  <2> QED
    BY <1>1, <2>1 DEF crVars, resourceVars, lockVars
<1>3. CASE Dispatch(i)
  BY <1>1, <1>3 DEF Dispatch, Return, crVars, resourceVars, lockVars
<1>4. CASE Prepare(i) \/ PrepareStops(i) \/ PrepareFails(i)
  <2>1. /\ pc[i] = "prepare" /\ UNCHANGED <<lockVars, crVars>>
        /\ Go(i, "create") \/ Go(i, "patch")
    BY <1>4 DEF Prepare, PrepareStops, PrepareFails, StopAt, Return
  <2> QED
    BY <1>1, <2>1 DEF crVars, resourceVars, lockVars
<1>5. CASE CreatePod(i) \/ CreatePodFails(i) \/ CreatePodReplyLost(i)
  BY <1>1, <1>5 DEF CreatePod, CreatePodFails, CreatePodReplyLost,
                    crVars, resourceVars, lockVars
<1>6. CASE Verify(i)
  BY <1>1, <1>6 DEF Verify, Return, crVars, resourceVars, lockVars
<1>7. ASSUME NEW s \in Stages, MoveTo(i, s), Same, AfterAcquire(i),
             s \in {"out", "create", "held", "parallel"}, pc[i] = "acquire"
      PROVE  PassInv'
  <2>1. stage'[i] = s
    BY <1>7 DEF MoveTo
  <2>2. PICK p \in PCs : Go(i, p) /\ s \in StagesAt[p]
    BY <1>7, <2>1 DEF AfterAcquire, Return, Go, passVars
  <2> QED
    BY <1>7, <2>2, PassInvMove
<1>8. CASE Acquire(i) \/ AcquireFails(i)
  <2>1. PICK s \in {"out", "create", "held", "parallel"} : MoveTo(i, s)
    BY <1>8 DEF Acquire, AcquireFails, AcquireLock, CreateLock, CreateLockFails
  <2>2. Same
    BY <1>8 DEF Acquire, AcquireFails, AcquireLock, CreateLock,
                CreateLockFails, crVars, resourceVars
  <2> QED
    BY <1>7, <1>8, <2>1, <2>2 DEF Acquire, AcquireFails, Stages
<1>9. CASE Release(i) \/ ReleaseFails(i)
  <2>1. PICK s \in {"out", "delete", "confirm", "released"} : MoveTo(i, s)
    BY <1>9 DEF Release, ReleaseFails, ReleaseLock, DeleteLock,
                DeleteLockFails, ConfirmRelease, GiveUpRelease
  <2>2. Same
    BY <1>9 DEF Release, ReleaseFails, ReleaseLock, DeleteLock,
                DeleteLockFails, ConfirmRelease, GiveUpRelease,
                crVars, resourceVars
  <2>3. stage'[i] = s
    BY <2>1 DEF MoveTo
  <2>4. PICK p \in PCs : Go(i, p) /\ s \in StagesAt[p]
    BY <1>9, <2>3 DEF Release, ReleaseFails, AfterRelease, Return, Go, passVars
  <2> QED
    BY <1>9, <2>1, <2>2, <2>4, PassInvMove DEF Release, ReleaseFails
<1>10. CASE Patch(i) \/ PatchGone(i) \/ PatchFails(i)
  <2>1. Go(i, "idle") /\ MoveTo(i, "out")
    BY <1>10 DEF Patch, PatchGone, PatchFails, EndPass, LeaveLock, MoveTo,
                 lockVars
  <2>2. Same
    BY <1>10 DEF Patch, PatchGone, PatchFails, EndPass, LeaveLock, lockVars,
                 crVars, resourceVars
  <2> QED
    BY <2>1, <2>2, PassInvMove
<1> QED
  BY <1>2, <1>3, <1>4, <1>5, <1>6, <1>8, <1>9, <1>10 DEF Work, Fails

(* So do the steps that start a pass, and those of the user.               *)
LEMMA PassInvOthers ==
  ASSUME PassInv, NEW i \in Instances, Pick(i) \/ User(i) \/ DeliverCR(i)
  PROVE  PassInv'
<1> USE DEF PassInv, PassFollowsLock, FinalizerHolds, CachedFinalizerHolds
<1>1. CASE SkipGone(i)
  BY <1>1, PassInvFrame DEF SkipGone, lockVars, crVars, resourceVars, passVars
<1>2. CASE Initialize(i)
  <2>1. Go(i, "patch") /\ pc[i] = "idle" /\ UNCHANGED <<lockVars, crVars>>
    BY <1>2 DEF Initialize, Take
  <2>2. stage[i] = "out" /\ MoveTo(i, "out")
    BY <2>1 DEF MoveTo, lockVars, StagesAt
  <2>3. "out" \in StagesAt["patch"]
    BY DEF StagesAt
  <2> QED
    BY <2>1, <2>2, <2>3, PassInvMove DEF PCs, lockVars, crVars, resourceVars
<1>3. CASE AddFinalizer(i)
  <2>1. /\ UNCHANGED <<pc, stage, gone, crCache>>
        /\ finalizer' = finalizer \/ (finalizer' = finalizer \cup {i} /\ i \notin gone)
    BY <1>3 DEF AddFinalizer, TakeForFinalizer, lockVars, passVars
  <2> QED
    BY <2>1
<1>4. CASE RemoveFinalizer(i)
  <2>1. pc[i] = "idle" /\ Get(i).terminating /\ UNCHANGED <<pc, stage, crCache>>
    BY <1>4 DEF RemoveFinalizer, TakeForFinalizer, Take, RemoveInstance,
                lockVars, passVars
  <2>2. CASE i \in gone
    BY <1>4, <2>1, <2>2, PassInvFrame DEF RemoveFinalizer, lockVars
  <2>3. CASE i \notin gone
    <3>1. finalizer' = finalizer \ {i} /\ gone' = gone \cup {i}
      BY <1>4, <2>3 DEF RemoveFinalizer, RemoveInstance
    <3>2. stage[i] = "out"
      BY <2>1 DEF StagesAt
    <3>3. CachedFinalizerHolds'
      BY <2>1, <3>1 DEF Get
    <3> QED
      BY <2>1, <3>1, <3>2, <3>3
  <2> QED
    BY <2>2, <2>3
<1>5. CASE StartPass(i)
  <2>1. Go(i, "check") /\ pc[i] = "idle" /\ UNCHANGED <<lockVars, crVars>>
    BY <1>5 DEF StartPass, Take
  <2>2. stage[i] = "out" /\ MoveTo(i, "out")
    BY <2>1 DEF MoveTo, lockVars, StagesAt
  <2>3. "out" \in StagesAt["check"]
    BY DEF StagesAt
  <2>4. i \in Finalized => i \in finalizer
    BY <1>5, FinalizerRead DEF StartPass, Finalized
  <2> QED
    BY <2>1, <2>2, <2>3, <2>4, PassInvMove DEF PCs, lockVars, crVars, resourceVars
<1>6. CASE UpdateSpec(i) \/ Provide(i)
  BY <1>6, PassInvFrame DEF UpdateSpec, Provide, lockVars, crVars,
                            resourceVars, passVars
<1>7. CASE DeleteResource(i)
  <2>1. UNCHANGED <<pc, stage, finalizer, crCache>>
    BY <1>7 DEF DeleteResource, RemoveInstance, lockVars, passVars
  <2>2. gone' = gone \/ (gone' = gone \cup {i} /\ i \notin finalizer)
    BY <1>7 DEF DeleteResource, RemoveInstance, lockVars
  <2> QED
    BY <2>1, <2>2
<1>8. CASE DeliverCR(i)
  <2>1. /\ UNCHANGED <<pc, stage, gone, finalizer>>
        /\ crCache' = [crCache EXCEPT ![i] = Resource(i)]
    BY <1>8 DEF DeliverCR, lockVars, resourceVars, passVars
  <2>2. Resource(i).finalizer <=> i \in finalizer
    BY DEF Resource
  <2>3. \A j \in LaggingCR : crCache'[j] = IF j = i THEN Resource(i) ELSE crCache[j]
    BY <2>1, BoundsAssumption
  <2>4. crCache' = [j \in Instances |-> crCache'[j]]
    BY <2>1
  <2> QED
    BY <2>1, <2>2, <2>3, <2>4
<1> QED
  BY <1>1, <1>2, <1>3, <1>4, <1>5, <1>6, <1>7, <1>8 DEF Pick, User

(* Every step keeps the invariant.                                         *)
LEMMA PassInvStep ==
  ASSUME PassInv, [Next]_vars
  PROVE  PassInv'
<1>1. ASSUME NEW n \in DOMAIN pods, CollectPod(n) \/ RunPod(n) \/ RemovePod(n)
      PROVE  PassInv'
  BY <1>1, PassInvFrame DEF CollectPod, RunPod, RemovePod, lockVars, crVars,
                            resourceVars, passVars
<1>2. CASE DeliverLock \/ DeliverPods
  BY <1>2, PassInvFrame DEF DeliverLock, DeliverPods, SyncLock, lockVars,
                            crVars, resourceVars, passVars
<1>3. CASE CollectGoneLock \/ DeleteLockByHand
  BY <1>3, PassInvFrame DEF CollectGoneLock, DeleteLockByHand, CollectLock,
                            UserDeletesLock, crVars, resourceVars, passVars
<1>4. CASE Restart
  <2>1. /\ stage' = [i \in Instances |-> "out"]
        /\ pc' = [i \in Instances |-> "idle"]
        /\ UNCHANGED <<gone, finalizer>>
        /\ crCache' = [i \in Instances |-> IF i \in LaggingCR THEN Resource(i)
                                                              ELSE crCache[i]]
    BY <1>4 DEF Restart, RestartLock, resourceVars
  <2>2. PassFollowsLock'
    BY <2>1 DEF PassFollowsLock, StagesAt, PCs, Stages
  <2>3. FinalizerHolds'
    BY <2>1 DEF PassInv, FinalizerHolds, Finalized
  <2>4. CachedFinalizerHolds'
    <3>1. \A i \in Instances : Resource(i).finalizer <=> i \in finalizer
      BY DEF Resource
    <3> QED
      BY <2>1, <3>1, BoundsAssumption DEF CachedFinalizerHolds
  <2> QED
    BY <2>2, <2>3, <2>4 DEF PassInv
<1>5. CASE UNCHANGED vars
  BY <1>5, PassInvFrame DEF vars, lockVars, crVars, resourceVars, passVars
<1> QED
  BY <1>1, <1>2, <1>3, <1>4, <1>5, PassInvWork, PassInvOthers DEF Next

LEMMA PassInvInit == Init => PassInv
<1> SUFFICES ASSUME Init PROVE PassInv
  OBVIOUS
<1>1. PassFollowsLock /\ FinalizerHolds
  BY DEF Init, LockInit, PassFollowsLock, FinalizerHolds, StagesAt, PCs,
         Stages, Finalized
<1>2. CachedFinalizerHolds
  <2>1. \A i \in Instances : ~Resource(i).finalizer
    BY DEF Init, Resource
  <2>2. crCache = [i \in Instances |-> Resource(i)]
    BY DEF Init
  <2> QED
    BY <2>1, <2>2, BoundsAssumption DEF CachedFinalizerHolds
<1> QED
  BY <1>1, <1>2 DEF PassInv

(* A pass that has started works for a resource that exists, unless its    *)
(* kind has no finalizer.                                                  *)
LEMMA PassOfExisting ==
  ASSUME PassInv, NEW i \in Instances, pc[i] \notin {"idle", "patch"}
  PROVE  i \in Finalized => i \notin gone
BY DEF PassInv, FinalizerHolds

(* The steps of a pass are steps of the lock protocol, or none.            *)
LEMMA WorkFollowsLock ==
  ASSUME PassInv, NEW i \in Instances, Work(i) \/ Fails(i)
  PROVE  [LockNext]_lockVars
<1>1. CASE UNCHANGED lockVars
  BY <1>1
<1>2. CASE Acquire(i)
  <2>1. ASSUME NEW p, AcquireLock(i, p)
        PROVE  AcquireLock(i, TRUE) \/ AcquireLock(i, FALSE)
    BY <2>1 DEF AcquireLock
  <2> QED
    BY <1>2, <2>1, PassOfExisting
       DEF Acquire, LockNext, StartLock, ContinueLock
<1>3. CASE AcquireFails(i)
  BY <1>3 DEF AcquireFails, LockNext, ContinueLock
<1>4. CASE Release(i)
  BY <1>4, PassOfExisting DEF Release, LockNext, StartLock, ContinueLock
<1>5. CASE ReleaseFails(i)
  BY <1>5 DEF ReleaseFails, LockNext, ContinueLock
<1>6. CASE Patch(i) \/ PatchGone(i) \/ PatchFails(i)
  BY <1>6 DEF Patch, PatchGone, PatchFails, EndPass, LockNext, ContinueLock
<1> QED
  BY <1>1, <1>2, <1>3, <1>4, <1>5, <1>6
     DEF Work, Fails, CheckConfigChange, CheckConfigChangeFails, Dispatch,
         Prepare, PrepareStops, PrepareFails, CreatePod, CreatePodFails,
         CreatePodReplyLost, Verify

(* So are all other steps: in particular a resource with the finalizer     *)
(* ceases to exist only between its passes.                                *)
LEMMA ReconcileFollowsLock ==
  ASSUME PassInv, [Next]_vars
  PROVE  [LockNext]_lockVars
<1>1. ASSUME NEW i \in Instances, Pick(i)
      PROVE  [LockNext]_lockVars
  <2>1. CASE RemoveFinalizer(i)
    BY <2>1 DEF RemoveFinalizer, LockNext, LockEnvironment
  <2> QED
    BY <1>1, <2>1 DEF Pick, SkipGone, Initialize, AddFinalizer, StartPass
<1>2. ASSUME NEW i \in Instances, User(i) \/ DeliverCR(i)
      PROVE  [LockNext]_lockVars
  <2>1. CASE DeleteResource(i)
    BY <2>1 DEF DeleteResource, LockNext, LockEnvironment
  <2> QED
    BY <1>2, <2>1 DEF User, UpdateSpec, Provide, DeliverCR
<1>3. ASSUME NEW n \in DOMAIN pods, CollectPod(n) \/ RunPod(n) \/ RemovePod(n)
      PROVE  [LockNext]_lockVars
  BY <1>3 DEF CollectPod, RunPod, RemovePod
<1>4. CASE DeliverLock \/ DeliverPods \/ CollectGoneLock \/ DeleteLockByHand
  BY <1>4 DEF DeliverLock, DeliverPods, CollectGoneLock, DeleteLockByHand,
              LockNext, LockEnvironment
<1>5. CASE Restart
  BY <1>5 DEF Restart, LockNext, LockEnvironment
<1>6. CASE UNCHANGED vars
  BY <1>6 DEF vars
<1> QED
  BY <1>1, <1>2, <1>3, <1>4, <1>5, <1>6, WorkFollowsLock DEF Next

(* The passes implement the lock protocol, whatever fails or lags: every   *)
(* step of CommonReconcile, of the user and of the cluster is a step of    *)
(* LockSpec or leaves the lock alone.                                      *)
THEOREM ReconcileImplementsLock == Spec => ImplementsLock
<1>1. Init => LockInit
  BY DEF Init
<1> QED
  BY <1>1, PassInvInit, PassInvStep, ReconcileFollowsLock, PTL
     DEF Spec, ImplementsLock, LockSpec

(* So whoever AcquireLock let through owns the lock while its pass creates *)
(* a pod, until a resource without the finalizer is deleted.               *)
THEOREM ReconcileExclusion ==
  ASSUME Admitted = {}
  PROVE  Spec => []HeldIsOwned
BY ReconcileImplementsLock, LockExclusion, PTL DEF ImplementsLock

(* And the passes implement the abstract mutex.                            *)
THEOREM ReconcileImplementsMutex ==
  ASSUME Admitted = {}
  PROVE  Spec => ImplementsMutex
BY ReconcileImplementsLock, LockImplementsMutex, PTL DEF ImplementsLock

-----------------------------------------------------------------------------
(* Types.  TypeOK does not say what a pass remembers or what the cache of  *)
(* the custom resources holds, both of which end up in the status.         *)
ReadType ==
    [ gen : Nat, cond : AllConditions, observed : Nat,
      terminating : BOOLEAN, finalizer : BOOLEAN, gone : BOOLEAN ]

Actions == {"none", "CreateFirstPod", "CreateNextPod", "CheckPending", "Wait",
            "EndTesting"}

MemType ==
    [ gen : Nat, action : Actions, step : Nat, cond : AllConditions,
      before : {<<>>} \cup (AllConditions \X Nat), again : BOOLEAN ]

ResourcesTyped ==
    /\ gen \in [Instances -> Nat]
    /\ observed \in [Instances -> Nat]
    /\ cond \in [Instances -> AllConditions]
    /\ finalizer \subseteq Finalized
    /\ terminating \subseteq finalizer
    /\ \A i \in Instances : /\ 1 <= gen[i] /\ gen[i] <= Len(Specs[i])
                            /\ observed[i] <= gen[i]

(* What the cache shows of a resource was true at some time.               *)
CacheTyped ==
    /\ crCache \in [Instances -> ReadType]
    /\ \A i \in Instances : /\ 1 <= crCache[i].gen /\ crCache[i].gen <= gen[i]
                            /\ crCache[i].observed <= gen[i]

(* A pass works for a generation that exists, and creates a pod only for a *)
(* step within the bound.                                                  *)
PassesTyped ==
    /\ pc \in [Instances -> PCs]
    /\ mem \in [Instances -> MemType]
    /\ \A i \in Instances :
          /\ mem[i].gen <= gen[i]
          /\ pc[i] \notin {"idle", "patch"} => 1 <= mem[i].gen
          /\ pc[i] \in {"create", "verify"} => mem[i].step <= MaxStep

PodsTyped(view) ==
    /\ view \in [DOMAIN view -> PodType]
    /\ DOMAIN view \subseteq PodNames

TypeInv ==
    /\ ResourcesTyped
    /\ CacheTyped
    /\ PassesTyped
    /\ PodsTyped(pods) /\ PodsTyped(podCache)
    /\ queued \subseteq Instances

-----------------------------------------------------------------------------
(* The operators on conditions return conditions.                          *)
LEMMA MarkType ==
  ASSUME NEW c \in AllConditions, NEW types, NEW status \in Statuses
  PROVE  Mark(c, types, status) \in AllConditions
<1>1. CASE c = NoConditions
  BY <1>1 DEF NoConditions, Mark, AllConditions
<1>2. ASSUME NEW k \in Kinds, c \in [ConditionsOf(k) -> Statuses]
      PROVE  Mark(c, types, status) \in [ConditionsOf(k) -> Statuses]
  BY <1>2 DEF Mark
<1> QED
  BY <1>1, <1>2 DEF AllConditions

LEMMA DeferredType ==
  ASSUME NEW c \in AllConditions
  PROVE  Deferred(c) \in AllConditions
<1>1. Mirror(c) \in Statuses
  BY DEF Mirror, Statuses
<1> QED
  BY <1>1, MarkType DEF Deferred

LEMMA ReadyWhenAllTrueType ==
  ASSUME NEW c \in AllConditions
  PROVE  ReadyWhenAllTrue(c) \in AllConditions
BY MarkType DEF ReadyWhenAllTrue, Statuses

LEMMA InitialConditionsType ==
  ASSUME NEW k \in Kinds
  PROVE  InitialConditions(k) \in AllConditions
BY DEF InitialConditions, AllConditions, Statuses

LEMMA NoConditionsType == NoConditions \in AllConditions
BY DEF AllConditions

LEMMA ResourceType ==
  ASSUME ResourcesTyped, NEW i \in Instances
  PROVE  /\ Resource(i) \in ReadType
         /\ Resource(i).gen = gen[i] /\ Resource(i).observed = observed[i]
<1>1. Resource(i) \in ReadType
  BY DEF Resource, ReadType, ResourcesTyped
<1>2. Resource(i).gen = gen[i] /\ Resource(i).observed = observed[i]
  BY DEF Resource
<1> QED
  BY <1>1, <1>2

(* What a pass reads is a resource as it was at some time.                 *)
LEMMA GetType ==
  ASSUME ResourcesTyped, CacheTyped, NEW i \in Instances
  PROVE  /\ Get(i) \in ReadType
         /\ 1 <= Get(i).gen /\ Get(i).gen <= gen[i]
         /\ Get(i).observed <= gen[i]
BY ResourceType DEF Get, ResourcesTyped, CacheTyped

(* The generations of a resource name its specs.                           *)
LEMMA GenerationHasSpec ==
  ASSUME NEW i \in Instances, NEW g \in Nat, 1 <= g, g <= Len(Specs[i])
  PROVE  g \in DOMAIN Specs[i] /\ Specs[i][g] \in SpecType
BY SpecsAssumption

-----------------------------------------------------------------------------
(* The end of a pass changes what it remembers in two fields.              *)
LEMMA ReturnMem ==
  ASSUME mem \in [Instances -> MemType], NEW i \in Instances,
         NEW c \in AllConditions, NEW a \in BOOLEAN, Return(i, c, a)
  PROVE  /\ mem' \in [Instances -> MemType]
         /\ \A j \in Instances \ {i} : mem'[j] = mem[j]
         /\ mem'[i].gen = mem[i].gen /\ mem'[i].step = mem[i].step
         /\ mem'[i].action = mem[i].action /\ mem'[i].before = mem[i].before
         /\ mem'[i].cond = c /\ mem'[i].again = a
<1>1. mem' = [mem EXCEPT ![i] = [mem[i] EXCEPT !.cond = c, !.again = a]]
  BY DEF Return
<1> QED
  BY <1>1 DEF MemType

-----------------------------------------------------------------------------
(* The API server and the cache hold pods of the instances, and the events *)
(* of their changes are for instances.                                     *)
LEMMA SetPodsType ==
  ASSUME PodsTyped(pods), PodsTyped(podCache), NEW new, PodsTyped(new),
         NEW queue \in SUBSET Instances, SetPods(new, queue)
  PROVE  PodsTyped(pods)' /\ PodsTyped(podCache)' /\ queued' \subseteq Instances
<1>1. \A view : PodsTyped(view) => \A n \in DOMAIN view : view[n].owner \in Instances
  BY DEF PodsTyped, PodType
<1>2. Touched(podCache, new) \subseteq Instances
  BY <1>1 DEF Touched
<1>3. pods' = new /\ podCache' \in {podCache, new} /\ queued' \subseteq Instances
  BY <1>2 DEF SetPods
<1> QED
  BY <1>3

LEMMA DeletePodsType ==
  ASSUME PodsTyped(pods), PodsTyped(podCache), NEW S \in SUBSET DOMAIN pods,
         NEW queue \in SUBSET Instances, DeletePods(S, queue)
  PROVE  PodsTyped(pods)' /\ PodsTyped(podCache)' /\ queued' \subseteq Instances
<1> DEFINE Left(D) == [n \in DOMAIN Without(D) |->
                         IF n \in S THEN [Without(D)[n] EXCEPT !.deleting = TRUE]
                                    ELSE Without(D)[n]]
<1>1. PICK D : SetPods(Left(D), queue)
  BY DEF DeletePods
<1>2. \A pod \in PodType : [pod EXCEPT !.deleting = TRUE] \in PodType
  BY DEF PodType
<1>3. DOMAIN Without(D) = DOMAIN pods \ D
      /\ \A n \in DOMAIN pods \ D : Without(D)[n] = pods[n]
  BY DEF Without
<1>4. \A n \in DOMAIN pods : pods[n] \in PodType
  BY DEF PodsTyped
<1>5. PodsTyped(Left(D))
  <2>1. \A n \in DOMAIN Left(D) : Left(D)[n] \in PodType
    BY <1>2, <1>3, <1>4
  <2>2. DOMAIN Left(D) \subseteq DOMAIN pods
    BY <1>3
  <2> QED
    BY <2>1, <2>2 DEF PodsTyped
<1> HIDE DEF Left
<1> QED
  BY <1>1, <1>5, SetPodsType

(* The decisions of NextAction, from the phases of typed pods.             *)
LEMMA DecisionType ==
  ASSUME NEW i \in Instances, NEW spec \in SpecType, NEW view,
         PodsTyped(view), NEW d \in NextActions(i, spec, view)
  PROVE  d.action \in Actions /\ d.step \in Nat
<1>1. CASE d = Decision("CreateFirstPod", 0)
  BY <1>1 DEF Decision, Actions
<1>2. ASSUME NEW pod \in PodType, d = AfterPod(pod, WorkflowLength(spec))
      PROVE  d.action \in Actions /\ d.step \in Nat
  <2>1. pod.phase \in Phases /\ pod.step \in Nat
    BY BoundsAssumption DEF PodType
  <2>2. isLastPodIndex(pod.step, WorkflowLength(spec)) \in BOOLEAN
    BY DEF isLastPodIndex
  <2> QED
    BY <1>2, <2>1, <2>2 DEF AfterPod, Decision, Phases, Actions
<1>3. \A n \in LastPods(i, view) : view[n] \in PodType
  BY DEF LastPods, Listed, PodsTyped
<1> QED
  BY <1>1, <1>2, <1>3 DEF NextActions

(* A pass under way works for one of the specs.                            *)
LEMMA PassHasSpec ==
  ASSUME ResourcesTyped, PassesTyped, NEW i \in Instances,
         pc[i] \notin {"idle", "patch"}
  PROVE  mem[i].gen \in DOMAIN Specs[i] /\ SpecOf(i) \in SpecType
<1>1. mem[i] \in MemType /\ gen[i] \in Nat
  BY DEF PassesTyped, ResourcesTyped
<1>2. mem[i].gen \in Nat
  BY <1>1 DEF MemType
<1>3. Len(Specs[i]) \in Nat
  BY SpecsAssumption
<1>4. 1 <= mem[i].gen /\ mem[i].gen <= gen[i] /\ gen[i] <= Len(Specs[i])
  BY DEF PassesTyped, ResourcesTyped
<1>5. mem[i].gen <= Len(Specs[i])
  BY <1>1, <1>2, <1>3, <1>4
<1> QED
  BY <1>2, <1>4, <1>5, GenerationHasSpec DEF SpecOf

(* The pod that CreatePod builds has a type and a name of its own.         *)
LEMMA NewPodType ==
  ASSUME ResourcesTyped, PassesTyped, PodsTyped(pods),
         NEW i \in Instances, pc[i] = "create"
  PROVE  PodsTyped(WithPod(PodOf(i), NewPod(i)))
<1>1. mem[i].step \in Nat /\ mem[i].step <= MaxStep
  BY DEF PassesTyped, MemType
<1>2. mem[i].gen \in DOMAIN Specs[i] /\ SpecOf(i) \in SpecType
  BY PassHasSpec
<1>3. NewPod(i) \in PodType
  <2>1. CalculateConfigHash(i, SpecOf(i)) \in
          UNION {{CalculateConfigHash(j, Specs[j][g]) :
                    g \in DOMAIN Specs[j]} : j \in Instances}
    BY <1>2 DEF SpecOf
  <2> QED
    BY <1>1, <2>1, BoundsAssumption DEF NewPod, PodType, Phases
<1>4. PodOf(i) \in PodNames
  BY <1>1, BoundsAssumption DEF PodOf, GetPodName, PodNames
<1>5. \A n \in DOMAIN pods : pods[n] \in PodType
  BY DEF PodsTyped
<1> QED
  BY <1>3, <1>4, <1>5 DEF PodsTyped, WithPod

-----------------------------------------------------------------------------
(* A pass that ends keeps the types of what it remembers.                  *)
LEMMA ReturnTyped ==
  ASSUME PassesTyped, NEW i \in Instances, NEW c \in AllConditions,
         NEW a \in BOOLEAN, Return(i, c, a), UNCHANGED gen
  PROVE  PassesTyped'
<1>1. Go(i, "patch")
  BY DEF Return
<1> QED
  BY <1>1, ReturnMem DEF PassesTyped, Go, PCs

(* So does one that goes on with what it remembers.                        *)
LEMMA GoTyped ==
  ASSUME PassesTyped, NEW i \in Instances, pc[i] \notin {"idle", "patch"},
         NEW p \in PCs, Go(i, p), UNCHANGED <<mem, gen>>,
         p \in {"create", "verify"} => mem[i].step <= MaxStep
  PROVE  PassesTyped'
BY DEF PassesTyped, Go

(* The steps of a pass keep the types.                                     *)
LEMMA TypeInvWork ==
  ASSUME TypeInv, NEW i \in Instances, Work(i) \/ Fails(i)
  PROVE  TypeInv'
<1> DEFINE Pods == PodsTyped(pods) /\ PodsTyped(podCache) /\ queued \subseteq Instances
<1> USE DEF TypeInv
<1>0. mem[i] \in MemType /\ mem[i].cond \in AllConditions
      /\ mem[i].gen \in Nat /\ mem[i].step \in Nat
  BY DEF PassesTyped, MemType
<1>1. ASSUME PassesTyped', UNCHANGED crVars, Pods' PROVE TypeInv'
  BY <1>1 DEF ResourcesTyped, CacheTyped, crVars, resourceVars
<1>2. UNCHANGED <<podVars, queued>> => Pods'
  BY DEF podVars, PodsTyped
<1>3. CASE CheckConfigChange(i) \/ CheckConfigChangeFails(i)
  <2>1. Return(i, mem[i].cond, TRUE) /\ UNCHANGED crVars
    BY <1>3 DEF CheckConfigChange, CheckConfigChangeFails
  <2>2. PICK S \in SUBSET DOMAIN pods : DeletePods(S, queued)
    BY <1>3 DEF CheckConfigChange, CheckConfigChangeFails
  <2>3. Pods'
    BY <2>2, DeletePodsType
  <2>4. PassesTyped'
    BY <1>0, <2>1, ReturnTyped DEF crVars, resourceVars
  <2> QED
    BY <1>1, <2>1, <2>3, <2>4
<1>4. CASE Dispatch(i)
  <2>1. pc[i] = "check" /\ UNCHANGED <<crVars, podVars, queued>>
    BY <1>4 DEF Dispatch
  <2>2. \/ Return(i, mem[i].cond, TRUE)
        \/ (Go(i, "end") \/ Go(i, "acquire")) /\ UNCHANGED mem
    BY <1>4 DEF Dispatch
  <2>3. PassesTyped'
    BY <1>0, <2>1, <2>2, ReturnTyped, GoTyped DEF crVars, resourceVars, PCs
  <2> QED
    BY <1>1, <1>2, <2>1, <2>3
<1>5. CASE Acquire(i) \/ AcquireFails(i)
  <2>1. pc[i] = "acquire" /\ UNCHANGED <<crVars, podVars, queued>>
    BY <1>5 DEF Acquire, AcquireFails
  <2>2. \/ Return(i, mem[i].cond, TRUE)
        \/ Go(i, "prepare") /\ UNCHANGED mem
        \/ UNCHANGED passVars
    BY <1>5 DEF Acquire, AcquireFails, AfterAcquire
  <2>3. CASE UNCHANGED passVars
    BY <1>1, <1>2, <2>1, <2>3 DEF PassesTyped, passVars, crVars, resourceVars
  <2>4. CASE ~UNCHANGED passVars
    <3>1. PassesTyped'
      BY <1>0, <2>1, <2>2, <2>4, ReturnTyped, GoTyped DEF crVars, resourceVars, PCs
    <3> QED
      BY <1>1, <1>2, <2>1, <3>1
  <2> QED
    BY <2>3, <2>4
<1>6. \A k, t : MetBefore(i, k) \in AllConditions
                /\ Mark(MetBefore(i, k), t, "False") \in AllConditions
  BY <1>0, MarkType DEF MetBefore, Statuses
<1>7. CASE Prepare(i)
  <2>1. /\ pc[i] = "prepare" /\ mem[i].step <= MaxStep
        /\ UNCHANGED <<crVars, podVars, queued>> /\ Go(i, "create")
    BY <1>7 DEF Prepare
  <2>2. PICK c \in AllConditions : mem' = [mem EXCEPT ![i] = [mem[i] EXCEPT !.cond = c]]
    BY <1>6, <1>7 DEF Prepare
  <2>3. /\ mem' \in [Instances -> MemType]
        /\ \A j \in Instances \ {i} : mem'[j] = mem[j]
        /\ mem'[i].gen = mem[i].gen /\ mem'[i].step = mem[i].step
    BY <1>0, <2>2 DEF PassesTyped, MemType
  <2>4. PassesTyped'
    BY <2>1, <2>3 DEF PassesTyped, Go, crVars, resourceVars, PCs
  <2> QED
    BY <1>1, <1>2, <2>1, <2>4
<1>8. CASE PrepareStops(i) \/ PrepareFails(i)
  <2>1. UNCHANGED <<crVars, podVars, queued>>
    BY <1>8 DEF PrepareStops, PrepareFails
  <2>2. PICK k, t : Return(i, Mark(MetBefore(i, k), t, "False"), TRUE)
    BY <1>8 DEF PrepareStops, PrepareFails, StopAt
  <2>3. PassesTyped'
    BY <1>6, <2>1, <2>2, ReturnTyped DEF crVars, resourceVars
  <2> QED
    BY <1>1, <1>2, <2>1, <2>3
<1>9. CASE CreatePod(i) \/ CreatePodFails(i) \/ CreatePodReplyLost(i)
  <2>1. /\ pc[i] = "create" /\ UNCHANGED <<crVars, mem>>
        /\ Go(i, "verify") \/ Go(i, "fail")
    BY <1>9 DEF CreatePod, CreatePodFails, CreatePodReplyLost
  <2>2. \/ UNCHANGED <<podVars, queued>>
        \/ SetPods(WithPod(PodOf(i), NewPod(i)), queued)
    BY <1>9 DEF CreatePod, CreatePodFails, CreatePodReplyLost
  <2>3. Pods'
    BY <1>2, <2>1, <2>2, NewPodType, SetPodsType
  <2>4. PassesTyped'
    BY <2>1, GoTyped DEF PassesTyped, PCs, crVars, resourceVars
  <2> QED
    BY <1>1, <2>1, <2>3, <2>4
<1>10. CASE Verify(i)
  <2>1. UNCHANGED <<crVars, podVars, queued>>
    BY <1>10 DEF Verify
  <2>2. PICK c \in AllConditions, a \in BOOLEAN : Return(i, c, a)
    <3>1. \A st \in Statuses : Mark(mem[i].cond, {"NetworkAttachmentsReady"}, st) \in AllConditions
      BY <1>0, MarkType
    <3> QED
      BY <1>0, <1>10, <3>1, ReadyWhenAllTrueType DEF Verify, Statuses
  <2>3. PassesTyped'
    BY <2>1, <2>2, ReturnTyped DEF crVars, resourceVars
  <2> QED
    BY <1>1, <1>2, <2>1, <2>3
<1>11. CASE Release(i) \/ ReleaseFails(i)
  <2>1. UNCHANGED <<crVars, podVars, queued>> /\ AfterRelease(i)
    BY <1>11 DEF Release, ReleaseFails
  <2>2. CASE UNCHANGED passVars
    BY <1>1, <1>2, <2>1, <2>2 DEF PassesTyped, passVars, crVars, resourceVars
  <2>3. CASE ~UNCHANGED passVars
    <3>1. \A st \in Statuses : Mark(mem[i].cond, {"DeploymentReady"}, st) \in AllConditions
      BY <1>0, MarkType
    <3>2. PICK c \in AllConditions, a \in BOOLEAN : Return(i, c, a)
      BY <1>0, <2>1, <2>3, <3>1, ReadyWhenAllTrueType DEF AfterRelease, Statuses
    <3>3. PassesTyped'
      BY <2>1, <3>2, ReturnTyped DEF crVars, resourceVars
    <3> QED
      BY <1>1, <1>2, <2>1, <3>3
  <2> QED
    BY <2>2, <2>3
<1>12. CASE Patch(i) \/ PatchGone(i) \/ PatchFails(i)
  <2>1. /\ Go(i, "idle") /\ mem' = [mem EXCEPT ![i] = NoPass]
        /\ UNCHANGED <<gen, terminating, finalizer, crCache, podVars>>
        /\ queued' \subseteq queued \cup {i}
    BY <1>12 DEF Patch, PatchGone, PatchFails, EndPass, crVars, resourceVars
  <2>2. NoPass \in MemType /\ NoPass.gen = 0
    BY NoConditionsType DEF NoPass, MemType, Actions
  <2>3. PassesTyped'
    BY <2>1, <2>2 DEF PassesTyped, Go, PCs, ResourcesTyped
  <2>4. /\ cond' \in {cond, [cond EXCEPT ![i] = Deferred(mem[i].cond)]}
        /\ observed' \in {observed, [observed EXCEPT ![i] = mem[i].gen]}
    BY <1>12 DEF Patch, PatchGone, PatchFails, WriteStatus, NewStatus, crVars,
                 resourceVars
  <2>5. ResourcesTyped'
    <3>1. Deferred(mem[i].cond) \in AllConditions
      BY <1>0, DeferredType
    <3>2. mem[i].gen <= gen[i]
      BY DEF PassesTyped
    <3> QED
      BY <1>0, <2>1, <2>4, <3>1, <3>2 DEF ResourcesTyped
  <2>6. CacheTyped'
    BY <2>1 DEF CacheTyped
  <2>7. Pods'
    BY <2>1 DEF podVars, PodsTyped
  <2> QED
    BY <2>3, <2>5, <2>6, <2>7
<1> QED
  BY <1>3, <1>4, <1>5, <1>7, <1>8, <1>9, <1>10, <1>11, <1>12 DEF Work, Fails

(* The steps that start a pass keep the types.                             *)
LEMMA TypeInvPick ==
  ASSUME TypeInv, NEW i \in Instances, Pick(i)
  PROVE  TypeInv'
<1> DEFINE Pods == PodsTyped(pods) /\ PodsTyped(podCache)
<1> USE DEF TypeInv
<1>0. /\ Get(i) \in ReadType /\ 1 <= Get(i).gen /\ Get(i).gen <= gen[i]
      /\ Get(i).observed <= gen[i]
  BY GetType
<1>1. Get(i).gen \in Nat /\ Get(i).observed \in Nat /\ Get(i).cond \in AllConditions
  BY <1>0 DEF ReadType
<1>2. Status(Get(i)) \in AllConditions \X Nat
  BY <1>1 DEF Status
<1>3. UNCHANGED podVars => Pods'
  BY DEF podVars, PodsTyped
<1>4. UNCHANGED crVars => ResourcesTyped' /\ CacheTyped'
  BY DEF crVars, resourceVars, ResourcesTyped, CacheTyped
<1>5. CASE SkipGone(i)
  <2>1. PassesTyped'
    BY <1>5 DEF SkipGone, passVars, PassesTyped, crVars, resourceVars
  <2> QED
    BY <1>3, <1>4, <1>5, <2>1 DEF SkipGone
<1>6. CASE Initialize(i)
  <2>1. /\ UNCHANGED <<crVars, podVars>> /\ queued' = queued \ {i} /\ Go(i, "patch")
        /\ mem' = [mem EXCEPT ![i] =
                     [mem[i] EXCEPT !.gen = Get(i).observed,
                                    !.before = Status(Get(i)),
                                    !.cond = InitialConditions(Kind[i])]]
    BY <1>6 DEF Initialize
  <2>2. InitialConditions(Kind[i]) \in AllConditions
    BY InitialConditionsType, KindAssumption
  <2>3. /\ mem' \in [Instances -> MemType]
        /\ \A j \in Instances \ {i} : mem'[j] = mem[j]
        /\ mem'[i].gen = Get(i).observed
    BY <1>1, <1>2, <2>1, <2>2 DEF PassesTyped, MemType
  <2>4. PassesTyped'
    BY <1>0, <2>1, <2>3 DEF PassesTyped, Go, PCs, crVars, resourceVars
  <2> QED
    BY <1>3, <1>4, <2>1, <2>4
<1>7. CASE AddFinalizer(i)
  <2>1. /\ UNCHANGED <<gen, terminating, cond, crCache, podVars, passVars>>
        /\ queued' \subseteq queued \cup {i}
        /\ finalizer' = finalizer \/ finalizer' = finalizer \cup {i}
        /\ observed' \in {observed, [observed EXCEPT ![i] = Get(i).gen]}
        /\ i \in Finalized
    BY <1>7 DEF AddFinalizer, TakeForFinalizer, QueueChanged, Finalized
  <2>2. ResourcesTyped'
    BY <1>0, <1>1, <2>1 DEF ResourcesTyped
  <2>3. CacheTyped' /\ PassesTyped'
    BY <2>1 DEF CacheTyped, PassesTyped, passVars
  <2> QED
    BY <1>3, <2>1, <2>2, <2>3
<1>8. CASE RemoveFinalizer(i)
  <2>1. /\ UNCHANGED <<gen, observed, cond, crCache, podVars, passVars>>
        /\ queued' \subseteq queued \cup {i}
        /\ \/ UNCHANGED <<terminating, finalizer>>
           \/ terminating' = terminating \ {i} /\ finalizer' = finalizer \ {i}
    BY <1>8 DEF RemoveFinalizer, TakeForFinalizer, QueueChanged
  <2>2. ResourcesTyped' /\ CacheTyped' /\ PassesTyped'
    BY <2>1 DEF ResourcesTyped, CacheTyped, PassesTyped, passVars
  <2> QED
    BY <1>3, <2>1, <2>2
<1>9. CASE StartPass(i)
  <2>1. UNCHANGED <<crVars, podVars>> /\ queued' = queued \ {i} /\ Go(i, "check")
    BY <1>9 DEF StartPass
  <2>2. PICK d \in NextActions(i, Specs[i][Get(i).gen], podCache) :
          mem' = [mem EXCEPT ![i] = [gen |-> Get(i).gen, action |-> d.action,
                                     step |-> d.step, cond |-> Get(i).cond,
                                     before |-> Status(Get(i)),
                                     again |-> FALSE]]
    BY <1>9 DEF StartPass
  <2>3. Specs[i][Get(i).gen] \in SpecType
    <3>1. Get(i).gen <= Len(Specs[i])
      BY <1>0, <1>1, SpecsAssumption DEF ResourcesTyped
    <3> QED
      BY <1>0, <1>1, <3>1, GenerationHasSpec
  <2>4. d.action \in Actions /\ d.step \in Nat
    BY <2>2, <2>3, DecisionType
  <2>5. /\ mem' \in [Instances -> MemType]
        /\ \A j \in Instances \ {i} : mem'[j] = mem[j]
        /\ mem'[i].gen = Get(i).gen
    BY <1>1, <1>2, <2>2, <2>4 DEF PassesTyped, MemType
  <2>6. PassesTyped'
    BY <1>0, <2>1, <2>5 DEF PassesTyped, Go, PCs, crVars, resourceVars
  <2> QED
    BY <1>3, <1>4, <2>1, <2>6
<1> QED
  BY <1>5, <1>6, <1>7, <1>8, <1>9 DEF Pick

(* Every step keeps the types.  Those of the lock are the lock's own.      *)
LEMMA TypeInvStep ==
  ASSUME TypeInv, LockTypeOK, LockTypeOK', [Next]_vars
  PROVE  TypeInv'
<1> DEFINE Pods == PodsTyped(pods) /\ PodsTyped(podCache) /\ queued \subseteq Instances
<1> USE DEF TypeInv
<1>1. UNCHANGED <<crVars, passVars>> => ResourcesTyped' /\ CacheTyped' /\ PassesTyped'
  BY DEF crVars, resourceVars, passVars, ResourcesTyped, CacheTyped, PassesTyped
<1>2. UNCHANGED podVars => PodsTyped(pods)' /\ PodsTyped(podCache)'
  BY DEF podVars, PodsTyped
<1>3. ASSUME NEW i \in Instances, UpdateSpec(i) PROVE TypeInv'
  <2>1. /\ UNCHANGED <<terminating, finalizer, cond, observed, crCache, podVars, passVars>>
        /\ gen[i] < Len(Specs[i]) /\ gen' = [gen EXCEPT ![i] = gen[i] + 1]
        /\ queued' \subseteq queued \cup {i}
    BY <1>3 DEF UpdateSpec, QueueChanged
  <2>2. \A j \in Instances : Len(Specs[j]) \in Nat
    BY SpecsAssumption
  <2>3. /\ gen' \in [Instances -> Nat]
        /\ \A j \in Instances : gen[j] <= gen'[j] /\ gen'[j] <= Len(Specs[j])
    BY <2>1, <2>2 DEF ResourcesTyped
  <2>4. ResourcesTyped'
    BY <2>1, <2>3 DEF ResourcesTyped
  <2>5. CacheTyped'
    <3>1. \A j \in Instances : crCache[j].gen \in Nat /\ crCache[j].observed \in Nat
      BY DEF CacheTyped, ReadType
    <3> QED
      BY <2>1, <2>3, <3>1 DEF CacheTyped, ResourcesTyped
  <2>6. PassesTyped'
    <3>1. \A j \in Instances : mem[j].gen \in Nat
      BY DEF PassesTyped, MemType
    <3> QED
      BY <2>1, <2>3, <3>1 DEF PassesTyped, ResourcesTyped, passVars
  <2> QED
    BY <1>2, <2>1, <2>4, <2>5, <2>6
<1>4. ASSUME NEW i \in Instances, DeleteResource(i) PROVE TypeInv'
  <2>1. /\ UNCHANGED <<gen, finalizer, cond, observed, crCache, podVars, passVars>>
        /\ queued' \subseteq queued \cup {i}
        /\ terminating' = terminating \/ (i \in finalizer /\ terminating' = terminating \cup {i})
    BY <1>4 DEF DeleteResource, QueueChanged
  <2>2. ResourcesTyped' /\ CacheTyped' /\ PassesTyped'
    BY <2>1 DEF ResourcesTyped, CacheTyped, PassesTyped, passVars
  <2> QED
    BY <1>2, <2>1, <2>2
<1>5. ASSUME NEW i \in Instances, Provide(i) PROVE TypeInv'
  BY <1>1, <1>2, <1>5 DEF Provide
<1>6. \A i \in Instances : /\ Resource(i) \in ReadType
                           /\ Resource(i).gen = gen[i] /\ Resource(i).observed = observed[i]
  BY ResourceType
<1>7. ASSUME NEW i \in Instances, DeliverCR(i) PROVE TypeInv'
  <2>1. /\ UNCHANGED <<resourceVars, podVars, passVars>> /\ queued' = queued \cup {i}
        /\ crCache' = [crCache EXCEPT ![i] = Resource(i)]
    BY <1>7 DEF DeliverCR
  <2>2. ResourcesTyped' /\ PassesTyped'
    BY <2>1 DEF ResourcesTyped, PassesTyped, resourceVars, passVars
  <2>3. CacheTyped'
    BY <1>6, <2>1 DEF CacheTyped, ResourcesTyped, resourceVars
  <2> QED
    BY <1>2, <2>1, <2>2, <2>3
<1>8. ASSUME NEW n \in DOMAIN pods, CollectPod(n) PROVE TypeInv'
  BY <1>1, <1>8, DeletePodsType DEF CollectPod
<1>9. ASSUME NEW n \in DOMAIN pods, RunPod(n) PROVE TypeInv'
  <2>1. PICK ph \in Phases :
          SetPods([pods EXCEPT ![n] = [pods[n] EXCEPT !.phase = ph]], queued)
    BY <1>9 DEF RunPod, Phases
  <2>2. [pods[n] EXCEPT !.phase = ph] \in PodType
    BY DEF PodsTyped, PodType
  <2>3. PodsTyped([pods EXCEPT ![n] = [pods[n] EXCEPT !.phase = ph]])
    BY <2>2 DEF PodsTyped
  <2>4. Pods'
    BY <2>1, <2>3, SetPodsType
  <2> QED
    BY <1>1, <1>9, <2>4 DEF RunPod
<1>10. ASSUME NEW n \in DOMAIN pods, RemovePod(n) PROVE TypeInv'
  <2>1. PodsTyped(Without({n}))
    BY DEF PodsTyped, Without
  <2> QED
    BY <1>1, <1>10, <2>1, SetPodsType DEF RemovePod
<1>11. CASE DeliverLock
  <2>1. queued' \subseteq Instances
    BY <1>11 DEF DeliverLock, LockTypeOK
  <2> QED
    BY <1>1, <1>2, <1>11, <2>1 DEF DeliverLock
<1>12. CASE DeliverPods
  <2>1. /\ UNCHANGED <<crVars, passVars, pods>> /\ podCache' = pods
        /\ queued' = queued \cup Touched(podCache, pods)
    BY <1>12 DEF DeliverPods
  <2>2. Touched(podCache, pods) \subseteq Instances
    BY DEF Touched, PodsTyped, PodType
  <2> QED
    BY <1>1, <2>1, <2>2 DEF PodsTyped
<1>13. CASE CollectGoneLock \/ DeleteLockByHand
  BY <1>1, <1>2, <1>13 DEF CollectGoneLock, DeleteLockByHand
<1>14. CASE Restart
  <2>1. /\ UNCHANGED <<resourceVars, pods>> /\ podCache' = pods
        /\ queued' = Instances \ gone
        /\ pc' = [i \in Instances |-> "idle"] /\ mem' = [i \in Instances |-> NoPass]
        /\ crCache' = [i \in Instances |-> IF i \in LaggingCR THEN Resource(i)
                                                              ELSE crCache[i]]
    BY <1>14 DEF Restart
  <2>2. NoPass \in MemType /\ NoPass.gen = 0
    BY NoConditionsType DEF NoPass, MemType, Actions
  <2>3. ResourcesTyped'
    BY <2>1 DEF ResourcesTyped, resourceVars
  <2>4. CacheTyped'
    BY <1>6, <2>1 DEF CacheTyped, ResourcesTyped, resourceVars
  <2>5. PassesTyped'
    BY <2>1, <2>2 DEF PassesTyped, PCs, ResourcesTyped, resourceVars
  <2> QED
    BY <2>1, <2>3, <2>4, <2>5 DEF PodsTyped
<1>15. CASE UNCHANGED vars
  BY <1>1, <1>2, <1>15 DEF vars
<1> QED
  BY <1>3, <1>4, <1>5, <1>7, <1>8, <1>9, <1>10, <1>11, <1>12, <1>13, <1>14,
     <1>15, TypeInvWork, TypeInvPick DEF Next, User

LEMMA TypeInvInit == Init => TypeInv
<1> SUFFICES ASSUME Init PROVE TypeInv
  OBVIOUS
<1>1. ResourcesTyped
  BY NoConditionsType, SpecsAssumption DEF Init, ResourcesTyped
<1>2. CacheTyped
  <2>1. \A i \in Instances : /\ Resource(i) \in ReadType
                             /\ Resource(i).gen = gen[i] /\ Resource(i).observed = observed[i]
    BY <1>1, ResourceType
  <2>2. crCache = [i \in Instances |-> Resource(i)]
    BY DEF Init
  <2> QED
    BY <1>1, <2>1, <2>2 DEF CacheTyped, ResourcesTyped
<1>3. PassesTyped
  <2>1. NoPass \in MemType /\ NoPass.gen = 0
    BY NoConditionsType DEF NoPass, MemType, Actions
  <2> QED
    BY <1>1, <2>1 DEF Init, PassesTyped, PCs, ResourcesTyped
<1>4. PodsTyped(pods) /\ PodsTyped(podCache) /\ queued \subseteq Instances
  BY DEF Init, PodsTyped
<1> QED
  BY <1>1, <1>2, <1>3, <1>4 DEF TypeInv

LEMMA TypeInvHolds == Spec => [](TypeInv /\ PassInv /\ LockTypeOK)
BY TypeInvInit, TypeInvStep, PassInvInit, PassInvStep, LockTypes,
   ReconcileImplementsLock, PTL DEF Spec, ImplementsLock

(* Type correctness of the passes, whatever fails or lags: in particular   *)
(* observedGeneration never runs ahead of the generation, a deletion       *)
(* timestamp without a finalizer never stays, and every pod was built from *)
(* a spec that somebody asked for.                                         *)
THEOREM ReconcileTypes == Spec => []TypeOK
<1>1. TypeInv /\ LockTypeOK => TypeOK
  <2> SUFFICES ASSUME TypeInv, LockTypeOK PROVE TypeOK
    OBVIOUS
  <2>1. \A i \in Instances : gen[i] \in DOMAIN Specs[i] /\ observed[i] \in 0 .. gen[i]
    <3> SUFFICES ASSUME NEW i \in Instances
                 PROVE  gen[i] \in DOMAIN Specs[i] /\ observed[i] \in 0 .. gen[i]
      OBVIOUS
    <3>1. /\ gen[i] \in Nat /\ observed[i] \in Nat /\ observed[i] <= gen[i]
          /\ 1 <= gen[i] /\ gen[i] <= Len(Specs[i])
      BY DEF TypeInv, ResourcesTyped
    <3> QED
      BY <3>1, GenerationHasSpec
  <2>2. \A i \in Instances : cond[i] \in AllConditions /\ pc[i] \in PCs
    BY DEF TypeInv, ResourcesTyped, PassesTyped
  <2> QED
    BY <2>1, <2>2 DEF TypeInv, TypeOK, ResourcesTyped, PodsTyped
<1> QED
  BY <1>1, TypeInvHolds, PTL
=============================================================================
