----------------------------- MODULE WakeProofs -----------------------------
(***************************************************************************)
(* Proofs about what is left when a pass has ended.  For a pod cache that  *)
(* does not lag: an instance that is not finished is always called again,  *)
(* and a result that was earned is not taken back.  For caches that lag,   *)
(* when no spec is changed: steps in order, DeploymentReady only when it   *)
(* is earned, results that are kept and wake-ups that are not lost.        *)
(***************************************************************************)
EXTENDS WorkflowProofs

-----------------------------------------------------------------------------
(* Pods carry the name of what they were created from, and those of a      *)
(* resource that exists are pods that their spec asks for.                 *)
PodsNamed ==
    \A n \in DOMAIN pods :
       n = GetPodName(pods[n].owner, SpecOfPod(n), pods[n].step)

StepsFit ==
    \A i \in Instances \ gone : \A n \in OwnPods(i) :
       pods[n].step \in Steps(SpecOfPod(n))

(* A pass that will create a pod found the last one, which was not the     *)
(* last of the workflow.                                                   *)
NextFits ==
    \A i \in Instances \ gone : WillCreate(i) /\ OwnPods(i) # {} =>
       \E n \in OwnPods(i) :
          /\ mem[i].step = pods[n].step + 1
          /\ ~isLastPodIndex(pods[n].step, WorkflowLength(SpecOf(i)))

ShapeInv == PodsNamed /\ StepsFit /\ NextFits

(* What the cache shows of a resource that exists.                         *)
CacheIsBehind ==
    \A i \in LaggingCR \ gone :
       ~crCache[i].gone /\ (crCache[i].terminating => i \in terminating)

(* A pass has a list of conditions to mark.                                *)
HasConditions ==
    \A i \in Instances :
       pc[i] # "idle" => "DeploymentReady" \in DOMAIN mem[i].cond

(* As long as no event is queued, what the pass has read is what a new one *)
(* would read.                                                             *)
ReadIsCached ==
    \A i \in Instances \ gone : i \notin queued /\ pc[i] # "idle" =>
       /\ mem[i].before = Status(Get(i))
       /\ pc[i] # "patch" => mem[i].gen = Get(i).gen

(* No event is queued for i, and none is on its way from the API server.   *)
Unnoticed(i) == i \notin queued /\ Get(i) = Resource(i)

(* A pod of i that has not come to its end: it will cause an event.        *)
Waiting(i) ==
    \E n \in DOMAIN pods :
       pods[n].owner = i /\ (pods[n].deleting \/ pods[n].phase # "Done")

(* Who is not called has a reason to wait, or nothing left to do.          *)
IdleIsAttended ==
    \A i \in Instances \ gone : Unnoticed(i) /\ pc[i] = "idle" =>
       Waiting(i) \/ (AllDone(i, gen[i]) /\ SaysReady(cond[i]) /\ lockCache # i)

VerifyIsAttended ==
    \A i \in Instances \ gone : Unnoticed(i) /\ pc[i] = "verify" => Waiting(i)

(* So it is for a pass that will change nothing and not be repeated.       *)
EndsUnnoticed(i) ==
    /\ Unnoticed(i) /\ pc[i] = "patch"
    /\ ~mem[i].again /\ NewStatus(i) = mem[i].before

EndIsAttended ==
    \A i \in Instances \ gone : EndsUnnoticed(i) =>
       \/ Waiting(i)
       \/ AllDone(i, gen[i]) /\ SaysReady(mem[i].cond) /\ lockCache # i

ReadInv == CacheIsBehind /\ HasConditions /\ ReadIsCached

WakeInv == IdleIsAttended /\ VerifyIsAttended /\ EndIsAttended

-----------------------------------------------------------------------------
(* NextAction counts on from the last pod.                                 *)
LEMMA DecisionFits ==
  ASSUME NamesDiffer, PodsTyped(pods), NEW i \in Instances,
         NEW spec \in SpecType, NEW d \in NextActions(i, spec, pods),
         d.action \in {"CreateFirstPod", "CreateNextPod"}, OwnPods(i) # {}
  PROVE  \E n \in OwnPods(i) : /\ d.step = pods[n].step + 1
                               /\ ~isLastPodIndex(pods[n].step, WorkflowLength(spec))
<1>1. PICK n \in LastPods(i, pods) : d = AfterPod(pods[n], WorkflowLength(spec))
  BY ListedAreOwn DEF NextActions
<1>2. n \in OwnPods(i)
  BY <1>1, ListedAreOwn DEF LastPods
<1>3. pods[n].phase \in Phases
  BY <1>2 DEF OwnPods, PodsTyped, PodType
<1>4. isLastPodIndex(pods[n].step, WorkflowLength(spec)) \in BOOLEAN
  BY DEF isLastPodIndex
<1> QED
  BY <1>1, <1>2, <1>3, <1>4 DEF AfterPod, Decision, Phases

(* The pod that a pass is about to create is one that the spec asks for,   *)
(* and none of that name counts as a pod of the instance.                  *)
LEMMA NextPodFits ==
  ASSUME TypeInv, PodInv, OrderInv, ShapeInv, NEW i \in Instances \ gone,
         pc[i] = "create"
  PROVE  /\ mem[i].step \in Steps(SpecOf(i))
         /\ PodOf(i) \notin OwnPods(i)
<1> USE DEF OrderInv, ShapeInv, TypeInv
<1>1. WillCreate(i)
  BY DEF WillCreate
<1>2. \A n \in OwnPods(i) : /\ n \in DOMAIN pods /\ pods[n].owner = i
                            /\ SpecOfPod(n) = SpecOf(i)
                            /\ pods[n].step \in Steps(SpecOf(i))
                            /\ pods[n].step < mem[i].step
  <2>1. \A n \in OwnPods(i) : pods[n].hash = CalculateConfigHash(i, SpecOf(i))
    BY DEF SpecCompared
  <2>2. \A n \in OwnPods(i) : SpecOfPod(n) = SpecOf(i)
    BY <2>1 DEF SpecOfPod, CalculateConfigHash
  <2>3. \A n \in OwnPods(i) : pods[n].step < mem[i].step
    BY <1>1 DEF PodInv, StepIsNew
  <2>4. \A n \in OwnPods(i) : pods[n].step \in Steps(SpecOfPod(n))
    BY DEF StepsFit
  <2> QED
    BY <2>2, <2>3, <2>4 DEF OwnPods
<1>3. mem[i].step \in Nat /\ WorkflowLength(SpecOf(i)) \in Nat
  <2>1. SpecOf(i) \in SpecType
    BY PassHasSpec
  <2> QED
    BY <2>1 DEF PassesTyped, MemType, WorkflowLength, SpecType
<1>4. CASE OwnPods(i) = {}
  <2>1. StepsBefore(i, mem[i].step)
    BY <1>1, ComparedIsCurrent
  <2>2. mem[i].step = 0
    BY <1>3, <1>4, <2>1 DEF StepsBefore
  <2> QED
    BY <1>3, <1>4, <2>2 DEF Steps
<1>5. CASE OwnPods(i) # {}
  <2>1. PICK n \in OwnPods(i) :
          /\ mem[i].step = pods[n].step + 1
          /\ ~isLastPodIndex(pods[n].step, WorkflowLength(SpecOf(i)))
    BY <1>1, <1>5 DEF NextFits
  <2>2. pods[n].step \in Steps(SpecOf(i))
    BY <1>2
  <2>3. WorkflowLength(SpecOf(i)) # 0 /\ mem[i].step \in Steps(SpecOf(i))
    BY <1>3, <2>1, <2>2 DEF Steps, isLastPodIndex
  <2>4. ASSUME PodOf(i) \in OwnPods(i) PROVE FALSE
    <3>1. PodOf(i) = GetPodName(i, SpecOf(i), pods[PodOf(i)].step)
      BY <1>2, <2>4 DEF PodsNamed
    <3>2. pods[PodOf(i)].step = mem[i].step
      BY <2>3, <3>1 DEF PodOf, GetPodName
    <3> QED
      BY <1>2, <1>3, <2>4, <3>2
  <2> QED
    BY <2>3, <2>4
<1> QED
  BY <1>4, <1>5

LEMMA PodsNamedStep ==
  ASSUME ~Lagging, TypeInv, podCache = pods, PodsNamed, [Next]_vars
  PROVE  PodsNamed'
<1> SUFFICES ASSUME NEW n \in DOMAIN pods'
             PROVE  n = GetPodName(pods'[n].owner, pods'[n].hash[2], pods'[n].step)
  BY DEF PodsNamed, SpecOfPod, GetPodName, WorkflowLength
<1>1. ASSUME n \in DOMAIN pods, pods'[n].owner = pods[n].owner,
             pods'[n].hash = pods[n].hash, pods'[n].step = pods[n].step
      PROVE  n = GetPodName(pods'[n].owner, pods'[n].hash[2], pods'[n].step)
  BY <1>1 DEF PodsNamed, SpecOfPod
<1>2. CASE Age
  BY <1>1, <1>2 DEF Age
<1>3. ASSUME NEW i \in Instances, Creates(i)
      PROVE  n = GetPodName(pods'[n].owner, pods'[n].hash[2], pods'[n].step)
  <2>1. CASE n = PodOf(i)
    <3>1. pods'[n] = NewPod(i)
      BY <1>3, <2>1, CreatedPods
    <3>2. /\ NewPod(i).owner = i /\ NewPod(i).step = mem[i].step
          /\ NewPod(i).hash[2] = SpecOf(i)
      BY DEF NewPod, CalculateConfigHash
    <3> QED
      BY <2>1, <3>1, <3>2 DEF PodOf
  <2>2. CASE n # PodOf(i)
    <3>1. n \in DOMAIN pods /\ pods'[n] = pods[n]
      BY <1>3, <2>2, CreatedPods
    <3> QED
      BY <1>1, <3>1
  <2> QED
    BY <2>1, <2>2
<1> QED
  BY <1>2, <1>3, PodsStep

LEMMA StepsFitStep ==
  ASSUME ~Lagging, NamesDiffer, TypeInv, PassInv, PodInv, OrderInv, ShapeInv,
         [Next]_vars
  PROVE  StepsFit'
<1> SUFFICES ASSUME NEW j \in Instances \ gone', NEW n \in OwnPods(j)'
             PROVE  pods'[n].step \in Steps(pods'[n].hash[2])
  BY DEF StepsFit, SpecOfPod, Steps, WorkflowLength
<1>0. j \notin gone
  BY GoneStaysGone
<1>1. ASSUME n \in OwnPods(j), pods'[n].hash = pods[n].hash,
             pods'[n].step = pods[n].step
      PROVE  pods'[n].step \in Steps(pods'[n].hash[2])
  BY <1>0, <1>1 DEF ShapeInv, StepsFit, SpecOfPod
<1>2. CASE Keeps(j)
  BY <1>1, <1>2 DEF Keeps
<1>3. CASE Creates(j)
  <2>1. CASE n = PodOf(j)
    <3>1. pods'[n].step = mem[j].step /\ pods'[n].hash[2] = SpecOf(j)
      BY <1>3, <2>1, OwnPodsCreated DEF CalculateConfigHash
    <3>2. mem[j].step \in Steps(SpecOf(j))
      BY <1>0, <1>3, NextPodFits DEF Creates
    <3> QED
      BY <3>1, <3>2
  <2>2. CASE n # PodOf(j)
    BY <1>1, <1>3, <2>2, OwnPodsCreated
  <2> QED
    BY <2>1, <2>2
<1> QED
  BY <1>0, <1>1, <1>2, <1>3, OwnPodsStep DEF PodInv, Drops

LEMMA NextFitsStep ==
  ASSUME ~Lagging, NamesDiffer, TypeInv, PassInv, PodInv, ShapeInv, [Next]_vars
  PROVE  NextFits'
<1> DEFINE Fits(j, n) ==
             /\ mem'[j].step = pods'[n].step + 1
             /\ ~isLastPodIndex(pods'[n].step, WorkflowLength(SpecOf(j)'))
<1> SUFFICES ASSUME NEW j \in Instances \ gone', WillCreate(j)', OwnPods(j)' # {}
             PROVE  \E n \in OwnPods(j)' : Fits(j, n)
  BY DEF NextFits, isLastPodIndex, WorkflowLength
<1>0. j \notin gone /\ pc'[j] \notin {"idle", "patch", "verify", "fail"}
  BY GoneStaysGone DEF WillCreate
<1>1. CASE Creates(j)
  BY <1>0, <1>1 DEF Creates, Go, TypeInv, PassesTyped
<1>2. CASE StartPass(j)
  <2>1. PICK d \in NextActions(j, Specs[j][Get(j).gen], pods) :
          mem'[j].action = d.action /\ mem'[j].step = d.step
    BY <1>2, PassStarted DEF PodInv
  <2>2. /\ pc'[j] = "check" /\ pods' = pods /\ Specs[j][Get(j).gen] \in SpecType
        /\ mem'[j].gen = Get(j).gen
    BY <1>2, PassStarted DEF podVars
  <2>3. OwnPods(j)' = OwnPods(j) /\ SpecOf(j)' = Specs[j][Get(j).gen]
    BY <2>2 DEF OwnPods, SpecOf
  <2>4. d.action \in {"CreateFirstPod", "CreateNextPod"}
    BY <2>1, <2>2 DEF WillCreate
  <2>5. PICK n \in OwnPods(j) :
           /\ d.step = pods[n].step + 1
           /\ ~isLastPodIndex(pods[n].step, WorkflowLength(Specs[j][Get(j).gen]))
    BY <2>1, <2>2, <2>3, <2>4, DecisionFits DEF TypeInv
  <2> QED
    BY <2>1, <2>2, <2>3, <2>5
<1>3. CASE Keeps(j) /\ Proceeds(j)
  <2>1. SpecOf(j)' = SpecOf(j) /\ mem'[j].step = mem[j].step /\ WillCreate(j)
    BY <1>3 DEF Proceeds, Dispatch, Go, Return, WillCreate, SpecOf, TypeInv, PassesTyped
  <2>2. PICK n \in OwnPods(j) :
           /\ mem[j].step = pods[n].step + 1
           /\ ~isLastPodIndex(pods[n].step, WorkflowLength(SpecOf(j)))
    BY <1>0, <1>3, <2>1 DEF ShapeInv, NextFits, Keeps
  <2>3. n \in OwnPods(j)' /\ pods'[n].step = pods[n].step
    BY <1>3 DEF Keeps
  <2> QED
    BY <2>1, <2>2, <2>3
<1> QED
  BY <1>0, <1>1, <1>2, <1>3, OwnPodsStep, PassesStep DEF PodInv, Drops

LEMMA ShapeInvHolds ==
  ASSUME ~Lagging, NamesDiffer, LeftoversAreOld
  PROVE  Spec => []ShapeInv
<1>1. Init => ShapeInv
  BY DEF Init, ShapeInv, PodsNamed, StepsFit, NextFits, OwnPods
<1>2. TypeInv /\ PassInv /\ PodInv /\ OrderInv /\ ShapeInv /\ [Next]_vars => ShapeInv'
  BY PodsNamedStep, StepsFitStep, NextFitsStep DEF ShapeInv, PodInv
<1> QED
  BY <1>1, <1>2, TypeInvHolds, PodInvHolds, OrderInvHolds, PTL DEF Spec

-----------------------------------------------------------------------------
(* The pods of i that the cache shows are left as they are,                *)
SameCache(i) ==
    /\ \A n \in DOMAIN podCache :
          podCache[n].owner = i => n \in DOMAIN podCache' /\ podCache'[n] = podCache[n]
    /\ \A n \in DOMAIN podCache' \ DOMAIN podCache : podCache'[n].owner # i

(* and so are those at the API server.                                     *)
SamePods(i) ==
    \A n \in DOMAIN pods :
       pods[n].owner = i => n \in DOMAIN pods' /\ pods'[n] = pods[n]

(* Whoever lets the cache show another pod of i causes an event.           *)
LEMMA SetPodsWatched ==
  ASSUME NEW new, NEW queue, SetPods(new, queue), NEW i
  PROVE  queue \subseteq queued' /\ (i \in queued' \/ SameCache(i))
BY DEF SetPods, Touched, SameCache

LEMMA DeletePodsWatched ==
  ASSUME NEW S, NEW queue, DeletePods(S, queue), NEW i
  PROVE  queue \subseteq queued' /\ (i \in queued' \/ SameCache(i))
BY SetPodsWatched DEF DeletePods

(* A step takes i from the queue, or the queue of events keeps i; and a    *)
(* change of its pods in the cache is one.                                 *)
LEMMA PodsWatched ==
  ASSUME [Next]_vars, NEW i \in Instances \ gone
  PROVE  \/ i \in queued'
         \/ Pick(i)
         \/ i \notin queued /\ SameCache(i)
<1>1. ASSUME UNCHANGED podCache, i \in queued => i \in queued'
      PROVE  i \in queued' \/ (i \notin queued /\ SameCache(i))
  BY <1>1 DEF SameCache
<1>2. ASSUME NEW S, DeletePods(S, queued)
      PROVE  i \in queued' \/ (i \notin queued /\ SameCache(i))
  BY <1>2, DeletePodsWatched
<1>3. ASSUME NEW new, SetPods(new, queued)
      PROVE  i \in queued' \/ (i \notin queued /\ SameCache(i))
  BY <1>3, SetPodsWatched
<1>4. ASSUME NEW j \in Instances, Work(j)
      PROVE  i \in queued' \/ (i \notin queued /\ SameCache(i))
  <2>1. CASE CheckConfigChange(j)
    BY <1>2, <2>1 DEF CheckConfigChange
  <2>2. CASE CreatePod(j)
    BY <1>1, <1>3, <2>2 DEF CreatePod, podVars
  <2>3. CASE Patch(j) \/ PatchGone(j)
    BY <1>1, <2>3 DEF Patch, PatchGone, podVars
  <2>4. CASE Dispatch(j) \/ Acquire(j) \/ Prepare(j) \/ PrepareStops(j)
             \/ Verify(j) \/ Release(j)
    BY <1>1, <2>4 DEF Dispatch, Acquire, Prepare, PrepareStops, Verify, Release, podVars
  <2> QED
    BY <1>4, <2>1, <2>2, <2>3, <2>4 DEF Work
<1>5. ASSUME NEW j \in Instances, Fails(j)
      PROVE  i \in queued' \/ (i \notin queued /\ SameCache(i))
  <2>1. CASE CheckConfigChangeFails(j)
    BY <1>2, <2>1 DEF CheckConfigChangeFails
  <2>2. CASE CreatePodReplyLost(j)
    BY <1>3, <2>2 DEF CreatePodReplyLost
  <2>3. CASE AcquireFails(j) \/ PrepareFails(j) \/ CreatePodFails(j) \/ ReleaseFails(j)
             \/ PatchFails(j)
    BY <1>1, <2>3
       DEF AcquireFails, PrepareFails, CreatePodFails, ReleaseFails, PatchFails, podVars
  <2> QED
    BY <1>5, <2>1, <2>2, <2>3 DEF Fails
<1>6. ASSUME NEW j \in Instances \ {i}, Pick(j)
      PROVE  i \in queued' \/ (i \notin queued /\ SameCache(i))
  BY <1>1, <1>6 DEF Pick, SkipGone, Initialize, AddFinalizer, RemoveFinalizer,
                    TakeForFinalizer, StartPass, QueueChanged, podVars
<1>7. ASSUME NEW j \in Instances, User(j) \/ DeliverCR(j)
      PROVE  i \in queued' \/ (i \notin queued /\ SameCache(i))
  BY <1>1, <1>7 DEF User, UpdateSpec, DeleteResource, Provide, DeliverCR,
                    QueueChanged, podVars
<1>8. ASSUME NEW n \in DOMAIN pods, CollectPod(n) \/ RunPod(n) \/ RemovePod(n)
      PROVE  i \in queued' \/ (i \notin queued /\ SameCache(i))
  BY <1>2, <1>3, <1>8 DEF CollectPod, RunPod, RemovePod
<1>9. CASE DeliverLock \/ CollectGoneLock \/ DeleteLockByHand \/ UNCHANGED vars
  BY <1>1, <1>9 DEF DeliverLock, CollectGoneLock, DeleteLockByHand, vars, podVars
<1>10. CASE DeliverPods
  BY <1>10 DEF DeliverPods, Touched, SameCache
<1>11. CASE Restart
  BY <1>11 DEF Restart
<1> QED
  BY <1>4, <1>5, <1>6, <1>7, <1>8, <1>9, <1>10, <1>11 DEF Next

(* A cache that does not lag shows the pods at the API server.             *)
LEMMA CacheIsPods ==
  ASSUME ~Lagging, TypeInv, podCache = pods, [Next]_vars, NEW i, SameCache(i)
  PROVE  SamePods(i)
<1>1. podCache' = pods'
  BY PodsStep DEF CacheFollows
<1> QED
  BY <1>1 DEF SameCache, SamePods

(* The lock in the cache becomes one's own only with an event.             *)
LEMMA LockWatched ==
  ASSUME [Next]_vars, NEW i \in Instances \ gone, lockCache' = i, lockCache # i
  PROVE  i \in queued'
<1>1. ASSUME NEW j \in Instances, Work(j) \/ Fails(j) PROVE UNCHANGED lockCache
  BY <1>1 DEF Work, Fails, CheckConfigChange, CheckConfigChangeFails, Dispatch,
              Acquire, AcquireFails, Prepare, PrepareStops, PrepareFails, CreatePod,
              CreatePodFails, CreatePodReplyLost, Verify, Release, ReleaseFails,
              Patch, PatchGone, PatchFails, EndPass, AcquireLock, CreateLock,
              CreateLockFails, ReleaseLock, DeleteLock, DeleteLockFails,
              ConfirmRelease, GiveUpRelease, LeaveLock, lockVars
<1>2. ASSUME NEW j \in Instances, Pick(j) \/ User(j) \/ DeliverCR(j)
      PROVE  UNCHANGED lockCache
  BY <1>2 DEF Pick, SkipGone, Initialize, AddFinalizer, RemoveFinalizer, StartPass,
              User, UpdateSpec, DeleteResource, Provide, DeliverCR, RemoveInstance,
              lockVars
<1>3. ASSUME NEW n \in DOMAIN pods, CollectPod(n) \/ RunPod(n) \/ RemovePod(n)
      PROVE  UNCHANGED lockCache
  BY <1>3 DEF CollectPod, RunPod, RemovePod, lockVars
<1>4. CASE DeliverPods \/ CollectGoneLock \/ DeleteLockByHand \/ UNCHANGED vars
  BY <1>4 DEF DeliverPods, CollectGoneLock, CollectLock, DeleteLockByHand,
              UserDeletesLock, vars, lockVars
<1>5. CASE Restart
  BY <1>5 DEF Restart
<1>6. CASE DeliverLock
  BY <1>6, NoOwnerAssumption DEF DeliverLock
<1> QED
  BY <1>1, <1>2, <1>3, <1>4, <1>5, <1>6 DEF Next

(* Between the start of a pass and its Patch only the user changes the     *)
(* resource, which is an event or yet to be seen by the cache.             *)
LEMMA ResourceWatched ==
  ASSUME TypeInv, PassInv, [Next]_vars, NEW i \in Instances \ gone'
  PROVE  \/ i \in queued'
         \/ Pick(i)
         \/ Patch(i)
         \/ /\ crCache'[i] = crCache[i]
            /\ \/ Resource(i)' = Resource(i)
               \/ /\ i \in LaggingCR
                  /\ gen'[i] = gen[i] + 1 \/ (i \in terminating' /\ i \notin terminating)
<1> DEFINE Kept == crCache'[i] = crCache[i] /\ Resource(i)' = Resource(i)
<1>0. i \notin gone
  BY GoneStaysGone
<1> USE <1>0 DEF TypeInv, ResourcesTyped, CacheTyped
<1>1. ASSUME UNCHANGED crVars PROVE Kept
  BY <1>1 DEF crVars, resourceVars, Resource
<1>2. ASSUME NEW j \in Instances \ {i},
             UNCHANGED <<gen, terminating, finalizer, crCache>>,
             cond'[i] = cond[i], observed'[i] = observed[i]
      PROVE  Kept
  BY <1>2 DEF Resource
<1>3. ASSUME NEW j \in Instances \ {i}, Pick(j) PROVE Kept
  <2>1. CASE AddFinalizer(j) \/ RemoveFinalizer(j)
    <3>1. /\ UNCHANGED <<gen, cond, crCache>> /\ observed'[i] = observed[i]
          /\ i \in terminating' <=> i \in terminating
          /\ i \in finalizer' <=> i \in finalizer
      BY <1>3, <2>1 DEF AddFinalizer, RemoveFinalizer, TakeForFinalizer
    <3> QED
      BY <3>1 DEF Resource
  <2> QED
    BY <1>1, <1>3, <2>1 DEF Pick, SkipGone, Initialize, StartPass
<1>4. ASSUME NEW j \in Instances, Work(j) \/ Fails(j), ~Patch(i) PROVE Kept
  <2>1. CASE Patch(j)
    <3>1. j # i
      BY <1>4, <2>1
    <3> QED
      BY <1>2, <2>1, <3>1 DEF Patch, WriteStatus
  <2> QED
    BY <1>1, <1>4, <2>1
       DEF Work, Fails, CheckConfigChange, CheckConfigChangeFails, Dispatch, Acquire,
           AcquireFails, Prepare, PrepareStops, PrepareFails, CreatePod,
           CreatePodFails, CreatePodReplyLost, Verify, Release, ReleaseFails,
           PatchGone, PatchFails
<1>5. ASSUME NEW j \in Instances \ {i}, User(j) \/ DeliverCR(j) PROVE Kept
  <2>1. /\ gen'[i] = gen[i] /\ UNCHANGED <<cond, observed, finalizer>>
        /\ i \in terminating' <=> i \in terminating
        /\ crCache'[i] = crCache[i]
    BY <1>5 DEF User, UpdateSpec, DeleteResource, Provide, DeliverCR, crVars,
                resourceVars
  <2> QED
    BY <2>1 DEF Resource
<1>6. ASSUME User(i) \/ DeliverCR(i), i \notin queued'
      PROVE  \/ Kept
             \/ /\ crCache'[i] = crCache[i] /\ i \in LaggingCR
                /\ gen'[i] = gen[i] + 1 \/ (i \in terminating' /\ i \notin terminating)
  <2>1. CASE Provide(i)
    BY <1>1, <2>1 DEF Provide
  <2>2. CASE UpdateSpec(i)
    BY <1>6, <2>2 DEF UpdateSpec, QueueChanged
  <2>3. CASE DeleteResource(i)
    BY <1>6, <2>3 DEF DeleteResource, QueueChanged, RemoveInstance
  <2>4. ~DeliverCR(i)
    BY <1>6 DEF DeliverCR
  <2> QED
    BY <1>6, <2>1, <2>2, <2>3, <2>4 DEF User
<1>7. ASSUME NEW n \in DOMAIN pods, CollectPod(n) \/ RunPod(n) \/ RemovePod(n)
      PROVE  Kept
  BY <1>1, <1>7 DEF CollectPod, RunPod, RemovePod
<1>8. CASE \/ DeliverLock \/ DeliverPods \/ CollectGoneLock \/ DeleteLockByHand
           \/ UNCHANGED vars
  BY <1>1, <1>8 DEF DeliverLock, DeliverPods, CollectGoneLock, DeleteLockByHand, vars
<1>9. CASE Restart
  BY <1>9 DEF Restart
<1> QED
  BY <1>3, <1>4, <1>5, <1>6, <1>7, <1>8, <1>9 DEF Next

-----------------------------------------------------------------------------
LEMMA CacheIsBehindStep ==
  ASSUME TypeInv, PassInv, CacheIsBehind, [Next]_vars
  PROVE  CacheIsBehind'
<1> SUFFICES ASSUME NEW i \in LaggingCR \ gone'
             PROVE  ~crCache'[i].gone /\ (crCache'[i].terminating => i \in terminating')
  BY DEF CacheIsBehind
<1>0. i \in Instances /\ i \notin gone
  BY GoneStaysGone, BoundsAssumption
<1>1. ~crCache[i].gone /\ (crCache[i].terminating => i \in terminating)
  BY <1>0 DEF CacheIsBehind
<1>2. ~Resource(i).gone /\ (Resource(i).terminating <=> i \in terminating)
  BY <1>0 DEF Resource
<1>3. i \in terminating => i \in terminating'
  <2>1. ASSUME NEW j \in Instances, RemoveFinalizer(j)
        PROVE  i \in terminating => i \in terminating'
    BY <1>0, <2>1 DEF RemoveFinalizer, RemoveInstance
  <2>2. ASSUME NEW j \in Instances, Work(j) \/ Fails(j) PROVE UNCHANGED terminating
    BY <2>2 DEF Work, Fails, CheckConfigChange, CheckConfigChangeFails, Dispatch,
                Acquire, AcquireFails, Prepare, PrepareStops, PrepareFails, CreatePod,
                CreatePodFails, CreatePodReplyLost, Verify, Release, ReleaseFails,
                Patch, PatchGone, PatchFails, crVars, resourceVars
  <2>3. ASSUME NEW j \in Instances, Pick(j) \/ User(j) \/ DeliverCR(j)
        PROVE  i \in terminating => i \in terminating'
    BY <2>1, <2>3
       DEF Pick, SkipGone, Initialize, AddFinalizer, StartPass, User, UpdateSpec,
           DeleteResource, Provide, DeliverCR, crVars, resourceVars
  <2>4. ASSUME NEW n \in DOMAIN pods, CollectPod(n) \/ RunPod(n) \/ RemovePod(n)
        PROVE  UNCHANGED terminating
    BY <2>4 DEF CollectPod, RunPod, RemovePod, crVars, resourceVars
  <2>5. CASE \/ DeliverLock \/ DeliverPods \/ CollectGoneLock \/ DeleteLockByHand
             \/ Restart \/ UNCHANGED vars
    BY <2>5 DEF DeliverLock, DeliverPods, CollectGoneLock, DeleteLockByHand,
                Restart, vars, crVars, resourceVars
  <2> QED
    BY <2>2, <2>3, <2>4, <2>5 DEF Next
<1>4. \/ crCache'[i] = crCache[i]
      \/ crCache'[i] = Resource(i) /\ UNCHANGED terminating
  <2>1. ASSUME NEW j \in Instances, DeliverCR(j)
        PROVE  \/ crCache'[i] = crCache[i]
               \/ crCache'[i] = Resource(i) /\ UNCHANGED terminating
    BY <1>0, <2>1 DEF DeliverCR, resourceVars, TypeInv, CacheTyped
  <2>2. ASSUME NEW j \in Instances, Work(j) \/ Fails(j) PROVE UNCHANGED crCache
    BY <2>2 DEF Work, Fails, CheckConfigChange, CheckConfigChangeFails, Dispatch,
                Acquire, AcquireFails, Prepare, PrepareStops, PrepareFails, CreatePod,
                CreatePodFails, CreatePodReplyLost, Verify, Release, ReleaseFails,
                Patch, PatchGone, PatchFails, crVars
  <2>3. ASSUME NEW j \in Instances, Pick(j) \/ User(j) PROVE UNCHANGED crCache
    BY <2>3
       DEF Pick, SkipGone, Initialize, AddFinalizer, RemoveFinalizer,
           TakeForFinalizer, StartPass, User, UpdateSpec, DeleteResource, Provide,
           crVars
  <2>4. ASSUME NEW n \in DOMAIN pods, CollectPod(n) \/ RunPod(n) \/ RemovePod(n)
        PROVE  UNCHANGED crCache
    BY <2>4 DEF CollectPod, RunPod, RemovePod, crVars
  <2>5. CASE Restart
    BY <1>0, <2>5 DEF Restart, resourceVars
  <2>6. CASE \/ DeliverLock \/ DeliverPods \/ CollectGoneLock \/ DeleteLockByHand
             \/ UNCHANGED vars
    BY <2>6 DEF DeliverLock, DeliverPods, CollectGoneLock, DeleteLockByHand, vars, crVars
  <2> QED
    BY <2>1, <2>2, <2>3, <2>4, <2>5, <2>6 DEF Next
<1> QED
  BY <1>1, <1>2, <1>3, <1>4

(* The conditions of every kind include DeploymentReady.                   *)
LEMMA DeploymentReadyListed ==
  ASSUME NEW c \in AllConditions, c # NoConditions
  PROVE  "DeploymentReady" \in DOMAIN c
<1>1. \A k \in Kinds : "DeploymentReady" \in ConditionsOf(k)
  BY DEF Kinds, ConditionsOf, Config, TempestConfig, TobikoConfig, HorizonTestConfig,
         AnsibleTestConfig
<1>2. PICK k \in Kinds : c \in [ConditionsOf(k) -> Statuses]
  BY DEF AllConditions
<1> QED
  BY <1>1, <1>2

(* A pass is picked when the worker is idle, and Patch ends it.            *)
LEMMA PickAndPatch ==
  ASSUME TypeInv, NEW i \in Instances
  PROVE  /\ Pick(i) => pc[i] = "idle"
         /\ Patch(i) => pc[i] = "patch" /\ pc'[i] = "idle"
<1>1. Pick(i) => pc[i] = "idle"
  BY DEF Pick, SkipGone, Initialize, AddFinalizer, RemoveFinalizer, TakeForFinalizer,
         StartPass, Take
<1>2. Patch(i) => pc[i] = "patch" /\ pc'[i] = "idle"
  BY DEF Patch, EndPass, Go, TypeInv, PassesTyped
<1> QED
  BY <1>1, <1>2

(* What Initialize leaves in memory.                                       *)
LEMMA PassInitialized ==
  ASSUME TypeInv, NEW i \in Instances, Initialize(i)
  PROVE  /\ pc'[i] = "patch" /\ UNCHANGED <<lockVars, crVars, podVars>>
         /\ mem'[i].before = Status(Get(i)) /\ Get(i).cond = NoConditions
         /\ mem'[i].cond = InitialConditions(Kind[i]) /\ mem'[i].gen = Get(i).observed
<1>1. mem' = [mem EXCEPT ![i] = [mem[i] EXCEPT
                !.gen = Get(i).observed, !.before = Status(Get(i)),
                !.cond = InitialConditions(Kind[i])]]
  BY DEF Initialize
<1>2. /\ mem'[i].before = Status(Get(i)) /\ mem'[i].cond = InitialConditions(Kind[i])
      /\ mem'[i].gen = Get(i).observed
  BY <1>1 DEF TypeInv, PassesTyped, MemType
<1> QED
  BY <1>2 DEF Initialize, Go, TypeInv, PassesTyped

LEMMA InitialConditionsListed ==
  ASSUME NEW i \in Instances
  PROVE  "DeploymentReady" \in DOMAIN InitialConditions(Kind[i])
<1>1. Kind[i] \in Kinds
  BY KindAssumption
<1> QED
  BY <1>1 DEF InitialConditions, Kinds, ConditionsOf, Config, TempestConfig,
              TobikoConfig, HorizonTestConfig, AnsibleTestConfig

LEMMA HasConditionsStep ==
  ASSUME TypeInv, PassInv, HasConditions, [Next]_vars
  PROVE  HasConditions'
<1> SUFFICES ASSUME NEW i \in Instances, pc'[i] # "idle"
             PROVE  "DeploymentReady" \in DOMAIN mem'[i].cond
  BY DEF HasConditions
<1>1. CASE Initialize(i)
  BY <1>1, PassInitialized, InitialConditionsListed
<1>2. CASE StartPass(i)
  <2>1. mem'[i].cond = Get(i).cond /\ Get(i).cond # NoConditions
    BY <1>2, PassStarted DEF StartPass
  <2>2. Get(i).cond \in AllConditions
    BY GetType DEF ReadType, TypeInv
  <2> QED
    BY <2>1, <2>2, DeploymentReadyListed
<1>3. CASE Remembers(i)
  BY <1>3 DEF Remembers, HasConditions
<1> QED
  BY <1>1, <1>2, <1>3, MemoryStep

LEMMA ReadIsCachedStep ==
  ASSUME TypeInv, PassInv, ReadIsCached, [Next]_vars
  PROVE  ReadIsCached'
<1> SUFFICES ASSUME NEW i \in Instances \ gone', i \notin queued', pc'[i] # "idle"
             PROVE  /\ mem'[i].before = Status(Get(i)')
                    /\ pc'[i] # "patch" => mem'[i].gen = Get(i)'.gen
  BY DEF ReadIsCached, Status
<1>0. i \notin gone
  BY GoneStaysGone
<1>1. UNCHANGED <<lockVars, crVars>> => Get(i)' = Get(i)
  BY DEF Get, Resource, lockVars, crVars, resourceVars
<1>2. CASE Initialize(i)
  BY <1>1, <1>2, PassInitialized
<1>3. CASE StartPass(i)
  BY <1>1, <1>3, PassStarted
<1>4. CASE Remembers(i)
  <2>1. ~Pick(i) /\ ~Patch(i)
    BY <1>4, PickAndPatch DEF Remembers
  <2>2. i \notin queued
    BY <1>0, <2>1, PodsWatched
  <2>3. /\ crCache'[i] = crCache[i]
        /\ Resource(i)' = Resource(i) \/ i \in LaggingCR
    BY <2>1, ResourceWatched
  <2>4. Get(i)' = Get(i)
    BY <2>3 DEF Get
  <2>5. /\ mem[i].before = Status(Get(i))
        /\ pc[i] # "patch" => mem[i].gen = Get(i).gen
    BY <1>0, <1>4, <2>2 DEF ReadIsCached, Remembers
  <2> QED
    BY <1>4, <2>4, <2>5 DEF Remembers
<1> QED
  BY <1>2, <1>3, <1>4, MemoryStep

LEMMA ReadInvHolds == Spec => []ReadInv
<1>1. Init => ReadInv
  <2> SUFFICES ASSUME Init PROVE ReadInv
    OBVIOUS
  <2>1. CacheIsBehind
    <3>1. \A i \in Instances : ~Resource(i).gone /\ ~Resource(i).terminating
      BY DEF Init, LockInit, Resource
    <3>2. crCache = [i \in Instances |-> Resource(i)]
      BY DEF Init
    <3> QED
      BY <3>1, <3>2, BoundsAssumption DEF CacheIsBehind
  <2>2. \A i \in Instances : pc[i] = "idle"
    BY DEF Init
  <2> QED
    BY <2>1, <2>2 DEF ReadInv, HasConditions, ReadIsCached
<1>2. TypeInv /\ PassInv /\ ReadInv /\ [Next]_vars => ReadInv'
  BY CacheIsBehindStep, HasConditionsStep, ReadIsCachedStep DEF ReadInv
<1> QED
  BY <1>1, <1>2, TypeInvHolds, PTL DEF Spec

(* As long as nothing is on its way to i, the resource and what the caches *)
(* show of its pods and say of its lock are left alone by all but its own  *)
(* passes.                                                                 *)
LEMMA StillUnnoticed ==
  ASSUME TypeInv, PassInv, CacheIsBehind, [Next]_vars,
         NEW i \in Instances \ gone', Unnoticed(i)', ~Pick(i), ~Patch(i)
  PROVE  /\ Unnoticed(i) /\ SameCache(i)
         /\ Resource(i)' = Resource(i) /\ gen'[i] = gen[i] /\ cond'[i] = cond[i]
         /\ lockCache # i => lockCache' # i
<1> USE DEF Unnoticed
<1>0. i \notin gone
  BY GoneStaysGone
<1>1. i \notin queued /\ SameCache(i)
  BY <1>0, PodsWatched
<1>2. lockCache # i => lockCache' # i
  BY <1>0, LockWatched
<1>3. /\ crCache'[i] = crCache[i]
      /\ \/ Resource(i)' = Resource(i)
         \/ /\ i \in LaggingCR
            /\ gen'[i] = gen[i] + 1 \/ (i \in terminating' /\ i \notin terminating)
  BY ResourceWatched
<1>4. Get(i)' = Resource(i)'
  OBVIOUS
<1>5. ASSUME i \in LaggingCR, gen'[i] = gen[i] + 1 PROVE FALSE
  <2>1. Resource(i)'.gen = gen'[i]
    BY DEF Resource
  <2>2. crCache[i].gen = gen[i] + 1
    BY <1>3, <1>4, <1>5, <2>1 DEF Get
  <2>3. crCache[i].gen <= gen[i] /\ gen[i] \in Nat
    BY DEF TypeInv, CacheTyped, ResourcesTyped
  <2> QED
    BY <2>2, <2>3
<1>6. ASSUME i \in LaggingCR, i \in terminating', i \notin terminating PROVE FALSE
  <2>1. Resource(i)'.terminating
    BY <1>6 DEF Resource
  <2>2. crCache[i].terminating
    BY <1>3, <1>4, <1>6, <2>1 DEF Get
  <2> QED
    BY <1>0, <1>6, <2>2 DEF CacheIsBehind
<1>7. Resource(i)' = Resource(i)
  BY <1>3, <1>5, <1>6
<1>8. /\ Resource(i).gen = gen[i] /\ Resource(i).cond = cond[i]
      /\ Resource(i)'.gen = gen'[i] /\ Resource(i)'.cond = cond'[i]
  BY DEF Resource
<1>9. Get(i) = Resource(i)
  BY <1>3, <1>4, <1>7 DEF Get
<1> QED
  BY <1>1, <1>2, <1>7, <1>8, <1>9

-----------------------------------------------------------------------------
(* Only its own steps move a pass, and a restart.                          *)
LEMMA PassMoves ==
  ASSUME TypeInv, PassInv, [Next]_vars, NEW j \in Instances \ gone
  PROVE  \/ pc'[j] = pc[j] /\ mem'[j] = mem[j]
         \/ Pick(j) \/ Work(j) \/ Fails(j)
         \/ pc'[j] = "idle" /\ j \in queued'
<1>1. ASSUME UNCHANGED passVars PROVE pc'[j] = pc[j] /\ mem'[j] = mem[j]
  BY <1>1 DEF passVars
<1>2. ASSUME NEW i \in Instances \ {j}, Pick(i) \/ Work(i) \/ Fails(i)
      PROVE  pc'[j] = pc[j] /\ mem'[j] = mem[j]
  BY <1>2, OthersKept
<1>3. ASSUME NEW i \in Instances, User(i) \/ DeliverCR(i)
      PROVE  UNCHANGED passVars
  BY <1>3 DEF User, UpdateSpec, DeleteResource, Provide, DeliverCR
<1>4. ASSUME NEW n \in DOMAIN pods, CollectPod(n) \/ RunPod(n) \/ RemovePod(n)
      PROVE  UNCHANGED passVars
  BY <1>4 DEF CollectPod, RunPod, RemovePod
<1>5. CASE DeliverLock \/ DeliverPods \/ CollectGoneLock \/ DeleteLockByHand
           \/ UNCHANGED vars
  BY <1>1, <1>5 DEF DeliverLock, DeliverPods, CollectGoneLock, DeleteLockByHand, vars
<1>6. CASE Restart
  BY <1>6 DEF Restart
<1> QED
  BY <1>1, <1>2, <1>3, <1>4, <1>5, <1>6 DEF Next

(* How a pass comes to its end without asking for another: after it        *)
(* created a pod, or after it found the testing done and released the lock.*)
LEMMA EndsForGood ==
  ASSUME TypeInv, PassInv, NEW i \in Instances, Work(i) \/ Fails(i),
         pc[i] # "patch", pc'[i] = "patch", ~mem'[i].again
  PROVE  \/ pc[i] = "verify"
         \/ /\ pc[i] = "end" /\ lockCache = NoOwner
            /\ mem'[i].cond =
                 ReadyWhenAllTrue(Mark(mem[i].cond, {"DeploymentReady"}, "True"))
<1> USE DEF TypeInv, PassesTyped
<1>1. ASSUME NEW c, NEW a, Return(i, c, a)
      PROVE  mem'[i].cond = c /\ mem'[i].again = a
  <2>1. mem' = [mem EXCEPT ![i] = [mem[i] EXCEPT !.cond = c, !.again = a]]
    BY <1>1 DEF Return
  <2> QED
    BY <2>1 DEF MemType
<1>2. ASSUME NEW c, Return(i, c, TRUE) PROVE FALSE
  BY <1>1, <1>2
<1>3. \A p : Go(i, p) => pc'[i] = p
  BY DEF Go
<1>4. CASE CheckConfigChange(i) \/ CheckConfigChangeFails(i)
  BY <1>2, <1>4 DEF CheckConfigChange, CheckConfigChangeFails
<1>5. CASE Dispatch(i)
  BY <1>2, <1>3, <1>5 DEF Dispatch
<1>6. CASE Acquire(i) \/ AcquireFails(i)
  BY <1>2, <1>3, <1>6 DEF Acquire, AcquireFails, AfterAcquire, passVars
<1>7. CASE Prepare(i) \/ PrepareStops(i) \/ PrepareFails(i)
  BY <1>2, <1>3, <1>7 DEF Prepare, PrepareStops, PrepareFails, StopAt
<1>8. CASE CreatePod(i) \/ CreatePodFails(i) \/ CreatePodReplyLost(i)
  BY <1>3, <1>8 DEF CreatePod, CreatePodFails, CreatePodReplyLost
<1>9. CASE Verify(i)
  BY <1>9 DEF Verify
<1>10. CASE Release(i) \/ ReleaseFails(i)
  <2>1. AfterRelease(i) /\ pc[i] \in {"end", "fail"}
    BY <1>10 DEF Release, ReleaseFails
  <2>2. /\ stage'[i] = "released" /\ pc[i] = "end"
        /\ Return(i, ReadyWhenAllTrue(Mark(mem[i].cond, {"DeploymentReady"}, "True")),
                  FALSE)
    BY <1>2, <2>1 DEF AfterRelease, passVars
  <2>3. \A s : MoveTo(i, s) => stage'[i] = s
    BY DEF MoveTo, PassInv, PassFollowsLock
  <2>4. lockCache = NoOwner
    BY <1>10, <2>2, <2>3 DEF Release, ReleaseFails, ReleaseLock, DeleteLock,
                             DeleteLockFails, ConfirmRelease, GiveUpRelease
  <2> QED
    BY <1>1, <2>2, <2>4
<1>11. CASE Patch(i) \/ PatchGone(i) \/ PatchFails(i)
  BY <1>11 DEF Patch, PatchGone, PatchFails
<1> QED
  BY <1>4, <1>5, <1>6, <1>7, <1>8, <1>9, <1>10, <1>11 DEF Work, Fails

(* Pods that are left alone go on being waited for, or being done.         *)
LEMMA SamePodsAttended ==
  ASSUME NEW i, SamePods(i)
  PROVE  /\ Waiting(i) => Waiting(i)'
         /\ \A g : AllDone(i, g) => AllDone(i, g)'
<1>1. Waiting(i) => Waiting(i)'
  BY DEF SamePods, Waiting
<1>2. ASSUME NEW g, AllDone(i, g) PROVE AllDone(i, g)'
  <2>1. \A n \in OwnPods(i) : n \in OwnPods(i)' /\ pods'[n] = pods[n]
    BY DEF SamePods, OwnPods
  <2>2. \A s \in Steps(Specs[i][g]) : \E n \in OwnPods(i)' :
          /\ pods'[n].hash = CalculateConfigHash(i, Specs[i][g])
          /\ pods'[n].step = s /\ pods'[n].phase = "Done"
    BY <1>2, <2>1 DEF AllDone
  <2> QED
    BY <2>2 DEF AllDone, Steps, WorkflowLength, CalculateConfigHash
<1> QED
  BY <1>1, <1>2

(* A pass that got past CreatePod has a pod to wait for: the new one, or   *)
(* one of that name which is being deleted.                                *)
LEMMA CreatedIsWaitedFor ==
  ASSUME ~Lagging, NamesDiffer, TypeInv, PodInv, OrderInv, ShapeInv,
         NEW i \in Instances \ gone, CreatePod(i), pc'[i] = "verify"
  PROVE  Waiting(i)'
<1>0. pc[i] = "create" /\ podCache = pods
  BY DEF CreatePod, PodInv
<1>1. CASE PodOf(i) \in DOMAIN pods
  <2>1. UNCHANGED pods
    BY <1>0, <1>1 DEF CreatePod, podVars
  <2>2. pods[PodOf(i)].owner = i
    <3>1. PodOf(i) = GetPodName(pods[PodOf(i)].owner, SpecOfPod(PodOf(i)),
                                pods[PodOf(i)].step)
      BY <1>1 DEF ShapeInv, PodsNamed
    <3>2. Name[pods[PodOf(i)].owner] = Name[i]
      BY <3>1 DEF PodOf, GetPodName
    <3>3. pods[PodOf(i)].owner \in Instances
      BY <1>1 DEF TypeInv, PodsTyped, PodType
    <3> QED
      BY <3>2, <3>3 DEF NamesDiffer
  <2>3. PodOf(i) \notin OwnPods(i)
    BY <1>0, NextPodFits
  <2> QED
    BY <1>1, <2>1, <2>2, <2>3 DEF OwnPods, Waiting
<1>2. CASE PodOf(i) \notin DOMAIN pods
  <2>1. pods' = WithPod(PodOf(i), NewPod(i))
    BY <1>0, <1>2, SetPodsFollowed DEF CreatePod
  <2>2. PodOf(i) \in DOMAIN pods' /\ pods'[PodOf(i)] = NewPod(i)
    BY <2>1 DEF WithPod
  <2>3. NewPod(i).owner = i /\ NewPod(i).phase # "Done"
    BY DEF NewPod
  <2> QED
    BY <2>2, <2>3 DEF Waiting
<1> QED
  BY <1>1, <1>2

LEMMA VerifyComesFrom ==
  ASSUME TypeInv, PassInv, [Next]_vars, NEW i \in Instances \ gone', pc'[i] = "verify"
  PROVE  (pc[i] = "verify" \/ CreatePod(i)) /\ ~Pick(i) /\ ~Patch(i)
<1>0. i \notin gone
  BY GoneStaysGone
<1>1. ~StartPass(i)
  BY PassStarted
<1>2. pc[i] = "verify" \/ pc[i] = "create"
  BY <1>1, PassesStep DEF Proceeds
<1>3. ~Pick(i) /\ ~Patch(i)
  BY <1>2, PickAndPatch
<1>4. ASSUME pc[i] = "create" PROVE CreatePod(i)
  <2>1. Work(i) \/ Fails(i)
    BY <1>0, <1>3, <1>4, PassMoves
  <2>2. \A p : Go(i, p) => pc'[i] = p
    BY DEF Go, TypeInv, PassesTyped
  <2> QED
    BY <1>4, <2>1, <2>2
       DEF Work, Fails, CheckConfigChange, CheckConfigChangeFails, Dispatch, Acquire,
           AcquireFails, Prepare, PrepareStops, PrepareFails, CreatePodFails,
           CreatePodReplyLost, Verify, Release, ReleaseFails, Patch, PatchGone, PatchFails
<1> QED
  BY <1>2, <1>3, <1>4

LEMMA VerifyIsAttendedStep ==
  ASSUME ~Lagging, NamesDiffer, TypeInv, PassInv, PodInv, OrderInv, ShapeInv, ReadInv,
         WakeInv, [Next]_vars
  PROVE  VerifyIsAttended'
<1> SUFFICES ASSUME NEW i \in Instances \ gone', Unnoticed(i)', pc'[i] = "verify"
             PROVE  Waiting(i)'
  BY DEF VerifyIsAttended
<1>0. i \notin gone
  BY GoneStaysGone
<1>1. (pc[i] = "verify" \/ CreatePod(i)) /\ ~Pick(i) /\ ~Patch(i)
  BY VerifyComesFrom
<1>2. CASE pc[i] = "verify"
  <2>1. Unnoticed(i) /\ SamePods(i)
    BY <1>1, StillUnnoticed, CacheIsPods DEF ReadInv, PodInv
  <2> QED
    BY <1>0, <1>2, <2>1, SamePodsAttended DEF WakeInv, VerifyIsAttended
<1>3. CASE CreatePod(i)
  BY <1>0, <1>3, CreatedIsWaitedFor
<1> QED
  BY <1>1, <1>2, <1>3

(* The conditions that EndTesting leaves say that the tests are done, and  *)
(* the deferred function does not change that.                             *)
LEMMA MarkSays ==
  ASSUME NEW c, "DeploymentReady" \in DOMAIN c
  PROVE  SaysReady(ReadyWhenAllTrue(Mark(c, {"DeploymentReady"}, "True")))
<1>1. SaysReady(Mark(c, {"DeploymentReady"}, "True"))
  BY DEF SaysReady, Mark
<1>2. \A d : SaysReady(d) => SaysReady(Mark(d, {"Ready"}, "True"))
  BY DEF SaysReady, Mark
<1> QED
  BY <1>1, <1>2 DEF ReadyWhenAllTrue

(* A pass that will change nothing did not come to be so by Initialize.    *)
LEMMA EndComesFrom ==
  ASSUME TypeInv, PassInv, [Next]_vars, NEW i \in Instances \ gone', EndsUnnoticed(i)'
  PROVE  /\ ~Pick(i) /\ ~Patch(i)
         /\ \/ pc'[i] = pc[i] /\ mem'[i] = mem[i]
            \/ pc[i] = "verify"
            \/ /\ pc[i] = "end" /\ lockCache = NoOwner
               /\ mem'[i].cond =
                    ReadyWhenAllTrue(Mark(mem[i].cond, {"DeploymentReady"}, "True"))
<1>0. /\ i \notin gone /\ i \notin queued' /\ pc'[i] = "patch" /\ ~mem'[i].again
      /\ NewStatus(i)' = mem'[i].before
  BY GoneStaysGone DEF EndsUnnoticed, Unnoticed
<1>1. ~Patch(i)
  BY <1>0, PickAndPatch
<1>2. ~Initialize(i)
  <2> SUFFICES ASSUME Initialize(i) PROVE FALSE
    OBVIOUS
  <2>1. NewStatus(i)'[1] = Deferred(mem'[i].cond)
    BY DEF NewStatus, Deferred, Mark, Mirror, SubConditions, AllSubConditionIsTrue
  <2>2. mem'[i].before[1] = NoConditions
    BY PassInitialized DEF Status
  <2>3. "DeploymentReady" \in DOMAIN Deferred(mem'[i].cond)
    BY PassInitialized, InitialConditionsListed, EndKeepsList
  <2> QED
    BY <1>0, <2>1, <2>2, <2>3 DEF NoConditions
<1>3. ~Pick(i)
  <2>1. ~StartPass(i)
    BY <1>0, PassStarted
  <2>2. SkipGone(i) \/ AddFinalizer(i) \/ RemoveFinalizer(i) => pc'[i] = "idle"
    BY DEF SkipGone, AddFinalizer, RemoveFinalizer, TakeForFinalizer, Take, passVars
  <2> QED
    BY <1>0, <1>2, <2>1, <2>2 DEF Pick
<1>4. ASSUME Work(i) \/ Fails(i) PROVE pc[i] # "patch"
  <2>1. Go(i, "idle") => pc'[i] = "idle"
    BY DEF Go, TypeInv, PassesTyped
  <2> QED
    BY <1>0, <1>4, <2>1
       DEF Work, Fails, CheckConfigChange, CheckConfigChangeFails, Dispatch, Acquire,
           AcquireFails, Prepare, PrepareStops, PrepareFails, CreatePod,
           CreatePodFails, CreatePodReplyLost, Verify, Release, ReleaseFails, Patch,
           PatchGone, PatchFails, EndPass
<1>5. CASE Work(i) \/ Fails(i)
  BY <1>0, <1>1, <1>3, <1>4, <1>5, EndsForGood
<1> QED
  BY <1>0, <1>1, <1>3, <1>5, PassMoves

LEMMA EndIsAttendedStep ==
  ASSUME ~Lagging, TypeInv, PassInv, PodInv, OrderInv, ReadInv, WakeInv, [Next]_vars
  PROVE  EndIsAttended'
<1> SUFFICES ASSUME NEW i \in Instances \ gone', EndsUnnoticed(i)'
             PROVE  \/ Waiting(i)'
                    \/ AllDone(i, gen[i])' /\ SaysReady(mem'[i].cond) /\ lockCache' # i
  BY DEF EndIsAttended, SaysReady
<1> USE DEF WakeInv
<1>0. i \notin gone
  BY GoneStaysGone
<1>1. ~Pick(i) /\ ~Patch(i) /\ Unnoticed(i)'
  BY EndComesFrom DEF EndsUnnoticed
<1>2. /\ Unnoticed(i) /\ SamePods(i) /\ gen'[i] = gen[i]
      /\ lockCache # i => lockCache' # i
  BY <1>1, StillUnnoticed, CacheIsPods DEF ReadInv, PodInv
<1>3. Waiting(i) => Waiting(i)'
  BY <1>2, SamePodsAttended
<1>4. AllDone(i, gen[i]) => AllDone(i, gen[i])'
  BY <1>2, SamePodsAttended DEF AllDone
<1>5. CASE pc'[i] = pc[i] /\ mem'[i] = mem[i]
  <2>1. EndsUnnoticed(i)
    BY <1>2, <1>5 DEF EndsUnnoticed, NewStatus
  <2> QED
    BY <1>0, <1>2, <1>3, <1>4, <1>5, <2>1 DEF EndIsAttended
<1>6. CASE pc[i] = "verify"
  BY <1>0, <1>2, <1>3, <1>6 DEF VerifyIsAttended
<1>7. CASE /\ pc[i] = "end" /\ lockCache = NoOwner
           /\ mem'[i].cond =
                ReadyWhenAllTrue(Mark(mem[i].cond, {"DeploymentReady"}, "True"))
  <2>1. AllDone(i, mem[i].gen)
    BY <1>0, <1>7, EndFindsAllDone DEF PodInv
  <2>2. mem[i].gen = gen[i]
    BY <1>0, <1>2, <1>7 DEF Unnoticed, ReadInv, ReadIsCached, Resource
  <2>3. SaysReady(mem'[i].cond)
    BY <1>7, MarkSays DEF ReadInv, HasConditions
  <2> QED
    BY <1>2, <1>4, <1>7, <2>1, <2>2, <2>3, NoOwnerAssumption
<1> QED
  BY <1>5, <1>6, <1>7, EndComesFrom

(* A Patch that nobody notices changes nothing.                            *)
LEMMA UnnoticedPatch ==
  ASSUME TypeInv, ReadIsCached, NEW i \in Instances \ gone, Patch(i), Unnoticed(i)'
  PROVE  /\ EndsUnnoticed(i)
         /\ cond'[i] = cond[i] /\ cond[i] = Deferred(mem[i].cond)
         /\ UNCHANGED <<gen, podVars, lockCache>>
<1>1. /\ pc[i] = "patch" /\ UNCHANGED <<gen, terminating, finalizer, crCache, podVars>>
      /\ UNCHANGED <<lockCache, gone>>
  BY DEF Patch, EndPass, LeaveLock, lockVars
<1>2. i \notin queued /\ ~mem[i].again /\ ~StatusEvent(i)
  BY DEF Unnoticed, Patch
<1>3. mem[i].before = Status(Get(i))
  BY <1>1, <1>2 DEF ReadIsCached
<1>4. Status(Get(i)') = <<cond'[i], observed'[i]>>
  <2>1. Get(i)' = Resource(i)'
    BY DEF Unnoticed
  <2>2. Resource(i)'.cond = cond'[i] /\ Resource(i)'.observed = observed'[i]
    BY DEF Resource
  <2> QED
    BY <2>1, <2>2 DEF Status
<1>5. Get(i)' = Get(i)
  <2>1. CASE i \in LaggingCR
    BY <1>1, <2>1 DEF Get
  <2>2. CASE i \notin LaggingCR
    <3>1. cond' = cond /\ observed' = observed
      BY <1>2, <2>2 DEF StatusEvent
    <3> QED
      BY <1>1, <2>2, <3>1 DEF Get, Resource
  <2> QED
    BY <2>1, <2>2
<1>6. mem[i].before[1] = cond'[i] /\ mem[i].before[2] = observed'[i]
  BY <1>3, <1>4, <1>5
<1>7. /\ cond'[i] = IF NewStatus(i)[1] = mem[i].before[1] THEN cond[i] ELSE NewStatus(i)[1]
      /\ observed'[i] = IF NewStatus(i)[2] = mem[i].before[2]
                        THEN observed[i] ELSE NewStatus(i)[2]
  BY DEF Patch, WriteStatus, TypeInv, ResourcesTyped
<1>8. /\ NewStatus(i)[1] = cond'[i] /\ cond'[i] = cond[i]
      /\ NewStatus(i)[2] = observed'[i] /\ observed'[i] = observed[i]
  BY <1>6, <1>7
<1>9. NewStatus(i) = mem[i].before /\ cond[i] = Deferred(mem[i].cond)
  <2>1. NewStatus(i) = <<Deferred(mem[i].cond), mem[i].gen>>
    BY DEF NewStatus
  <2>2. mem[i].before = <<cond'[i], observed'[i]>>
    BY <1>3, <1>4, <1>5
  <2> QED
    BY <1>8, <2>1, <2>2
<1>10. Resource(i)' = Resource(i)
  BY <1>1, <1>8 DEF Resource
<1>11. Get(i) = Resource(i)
  BY <1>5, <1>10 DEF Unnoticed
<1> QED
  BY <1>1, <1>2, <1>8, <1>9, <1>11 DEF Unnoticed, EndsUnnoticed

(* Nobody is taken from the queue without notice.                          *)
LEMMA IdleComesFrom ==
  ASSUME TypeInv, PassInv, CacheIsBehind, [Next]_vars, NEW i \in Instances \ gone',
         Unnoticed(i)', pc'[i] = "idle"
  PROVE  Patch(i) \/ (pc[i] = "idle" /\ ~Pick(i))
<1> SUFFICES ASSUME ~Patch(i) PROVE pc[i] = "idle" /\ ~Pick(i)
  OBVIOUS
<1>0. i \notin gone
  BY GoneStaysGone
<1>1. ~Pick(i)
  <2>1. ~StartPass(i) /\ ~Initialize(i)
    BY PassStarted, PassInitialized
  <2>2. ~SkipGone(i)
    <3>1. ~Get(i).gone
      BY <1>0 DEF Get, Resource, CacheIsBehind
    <3> QED
      BY <3>1 DEF SkipGone
  <2>3. ~RemoveFinalizer(i)
    BY <1>0 DEF RemoveFinalizer, RemoveInstance
  <2>4. ~AddFinalizer(i)
    <3> SUFFICES ASSUME AddFinalizer(i) PROVE FALSE
      OBVIOUS
    <3>1. /\ ~Get(i).finalizer /\ i \in finalizer' /\ UNCHANGED crCache
          /\ i \in LaggingCR
      BY <1>0 DEF AddFinalizer, TakeForFinalizer, QueueChanged, Unnoticed
    <3>2. Get(i)' = Get(i)
      BY <3>1 DEF Get
    <3>3. Resource(i)'.finalizer
      BY <3>1 DEF Resource
    <3> QED
      BY <3>1, <3>2, <3>3 DEF Unnoticed
  <2> QED
    BY <2>1, <2>2, <2>3, <2>4 DEF Pick
<1>2. ASSUME Work(i) \/ Fails(i) PROVE FALSE
  <2>1. \A p : Go(i, p) => pc'[i] = p
    BY DEF Go, TypeInv, PassesTyped
  <2>2. ~PatchGone(i) /\ ~PatchFails(i)
    BY <1>0 DEF PatchGone, PatchFails, Unnoticed
  <2> QED
    BY <1>2, <2>1, <2>2
       DEF Work, Fails, CheckConfigChange, CheckConfigChangeFails, Dispatch,
           Acquire, AcquireFails, AfterAcquire, Prepare, PrepareStops, StopAt,
           PrepareFails, CreatePod, CreatePodFails, CreatePodReplyLost, Verify,
           Release, ReleaseFails, AfterRelease, Return, passVars
<1> QED
  BY <1>0, <1>1, <1>2, PassMoves DEF Unnoticed

LEMMA IdleIsAttendedStep ==
  ASSUME ~Lagging, TypeInv, PassInv, PodInv, ReadInv, WakeInv, [Next]_vars
  PROVE  IdleIsAttended'
<1> SUFFICES ASSUME NEW i \in Instances \ gone', Unnoticed(i)', pc'[i] = "idle"
             PROVE  \/ Waiting(i)'
                    \/ AllDone(i, gen[i])' /\ SaysReady(cond'[i]) /\ lockCache' # i
  BY DEF IdleIsAttended, SaysReady
<1> USE DEF WakeInv, ReadInv
<1>0. i \notin gone
  BY GoneStaysGone
<1>1. ASSUME SamePods(i), gen'[i] = gen[i]
      PROVE  /\ Waiting(i) => Waiting(i)'
             /\ AllDone(i, gen[i]) => AllDone(i, gen[i])'
  BY <1>1, SamePodsAttended DEF AllDone
<1>2. CASE Patch(i)
  <2>1. /\ EndsUnnoticed(i)
        /\ cond'[i] = cond[i] /\ cond[i] = Deferred(mem[i].cond)
        /\ UNCHANGED <<gen, podVars, lockCache>>
    BY <1>0, <1>2, UnnoticedPatch
  <2>2. \/ Waiting(i)
        \/ AllDone(i, gen[i]) /\ SaysReady(mem[i].cond) /\ lockCache # i
    BY <1>0, <2>1 DEF EndIsAttended
  <2>3. SamePods(i) /\ gen'[i] = gen[i]
    BY <2>1 DEF SamePods, podVars
  <2> QED
    BY <1>1, <2>1, <2>2, <2>3, DeferredKeeps
<1>3. CASE pc[i] = "idle" /\ ~Pick(i) /\ ~Patch(i)
  <2>1. /\ Unnoticed(i) /\ SamePods(i) /\ gen'[i] = gen[i] /\ cond'[i] = cond[i]
        /\ lockCache # i => lockCache' # i
    BY <1>3, StillUnnoticed, CacheIsPods DEF PodInv
  <2> QED
    BY <1>0, <1>1, <1>3, <2>1 DEF IdleIsAttended
<1> QED
  BY <1>2, <1>3, IdleComesFrom

LEMMA WakeInvHolds ==
  ASSUME ~Lagging, NamesDiffer, LeftoversAreOld
  PROVE  Spec => []WakeInv
<1>1. Init => WakeInv
  BY DEF Init, WakeInv, IdleIsAttended, VerifyIsAttended, EndIsAttended, EndsUnnoticed,
         Unnoticed
<1>2. TypeInv /\ PassInv /\ PodInv /\ OrderInv /\ ShapeInv /\ ReadInv /\ WakeInv
        /\ [Next]_vars => WakeInv'
  BY IdleIsAttendedStep, VerifyIsAttendedStep, EndIsAttendedStep DEF WakeInv
<1> QED
  BY <1>1, <1>2, TypeInvHolds, PodInvHolds, OrderInvHolds, ShapeInvHolds, ReadInvHolds,
     PTL DEF Spec

(* No wake-up is lost: when no event is queued, no pass runs and nothing   *)
(* else is left to happen (Quiet), every resource that exists has its      *)
(* tests done, says so and has given the lock back.  A pass that stops     *)
(* without asking for a requeue (after it initialised the conditions,      *)
(* created a pod or ended the testing) counts on an event of the watches   *)
(* to be called again; it always comes, whatever interleaves, fails or     *)
(* restarts, also when the custom resources lag.                           *)
THEOREM NoWakeupIsLost ==
  ASSUME ~Lagging, NamesDiffer, LeftoversAreOld
  PROVE  Spec => []NoLostWakeup
<1>1. ASSUME WakeInv, Quiet, NEW i \in Instances \ gone PROVE Finished(i)
  <2>1. Unnoticed(i) /\ pc[i] = "idle" /\ ~Waiting(i) /\ lockCache = lock
    BY <1>1 DEF Quiet, Unnoticed, Waiting
  <2>2. AllDone(i, gen[i]) /\ SaysReady(cond[i]) /\ lockCache # i
    BY <1>1, <2>1 DEF WakeInv, IdleIsAttended
  <2> QED
    BY <2>1, <2>2 DEF Finished, Tested, AllDone, OwnPods, Says, SaysReady
<1>2. WakeInv => NoLostWakeup
  BY <1>1 DEF NoLostWakeup
<1> QED
  BY <1>2, WakeInvHolds, PTL

-----------------------------------------------------------------------------
(* A pod that is being deleted is not done: the API server removes one     *)
(* that is done at once.                                                   *)
DeletedNotDone ==
    \A n \in DOMAIN pods : pods[n].deleting => pods[n].phase # "Done"

(* The tests of no spec are done, and nothing runs that could make them.   *)
Incomplete(i) ==
    /\ \A n \in OwnPods(i) : ~Active(n)
    /\ \A g \in DOMAIN Specs[i] : ~Tested(i, g)

(* A pass takes a result back only after a CreatePod that failed, when a   *)
(* pod was missing.                                                        *)
FailsIncomplete ==
    \A i \in Instances \ gone : pc[i] = "fail" => Incomplete(i)

RevokedIncomplete ==
    \A i \in Instances \ gone :
       pc[i] # "idle" /\ SaysReady(cond[i]) /\ ~SaysReady(mem[i].cond)
         => pc[i] = "patch" /\ Incomplete(i)

KeptInv == DeletedNotDone /\ FailsIncomplete /\ RevokedIncomplete

(* How a pod becomes done or is deleted.                                   *)
LEMMA DeletePodsPhase ==
  ASSUME PodsTyped(pods), NEW S, NEW queue, DeletePods(S, queue), NEW n \in DOMAIN pods'
  PROVE  /\ n \in DOMAIN pods /\ pods'[n].phase = pods[n].phase
         /\ pods'[n].deleting => pods[n].deleting \/ pods[n].phase # "Done"
<1> DEFINE Left(D) == [m \in DOMAIN Without(D) |->
                         IF m \in S THEN [Without(D)[m] EXCEPT !.deleting = TRUE]
                                    ELSE Without(D)[m]]
<1>1. PICK D \in SUBSET S : /\ {m \in S : pods[m].phase = "Done"} \subseteq D
                            /\ SetPods(Left(D), queue)
  BY DEF DeletePods
<1>2. pods' = Left(D)
  BY <1>1 DEF SetPods
<1>3. /\ n \in DOMAIN pods \ D
      /\ pods'[n] = IF n \in S THEN [pods[n] EXCEPT !.deleting = TRUE] ELSE pods[n]
  BY <1>2 DEF Without
<1>4. pods[n] \in PodType
  BY <1>3 DEF PodsTyped
<1>5. CASE n \in S
  <2>1. pods[n].phase # "Done"
    BY <1>1, <1>3, <1>5
  <2>2. pods'[n].phase = pods[n].phase
    BY <1>3, <1>4, <1>5 DEF PodType
  <2> QED
    BY <1>3, <2>1, <2>2
<1>6. CASE n \notin S
  BY <1>3, <1>6
<1> QED
  BY <1>5, <1>6

LEMMA PhaseStep ==
  ASSUME TypeInv, [Next]_vars, NEW n \in DOMAIN pods'
  PROVE  \/ \E i \in Instances : pods'[n] = NewPod(i)
         \/ RunPod(n)
         \/ /\ n \in DOMAIN pods /\ pods'[n].phase = pods[n].phase
            /\ pods'[n].deleting => pods[n].deleting \/ pods[n].phase # "Done"
<1> DEFINE Same == /\ n \in DOMAIN pods /\ pods'[n].phase = pods[n].phase
                   /\ pods'[n].deleting => pods[n].deleting \/ pods[n].phase # "Done"
<1> USE DEF TypeInv
<1>1. ASSUME UNCHANGED pods PROVE Same
  BY <1>1
<1>2. ASSUME NEW S, NEW queue, DeletePods(S, queue) PROVE Same
  BY <1>2, DeletePodsPhase
<1>3. ASSUME NEW i \in Instances, CheckConfigChange(i) \/ CheckConfigChangeFails(i)
      PROVE  Same
  BY <1>2, <1>3 DEF CheckConfigChange, CheckConfigChangeFails
<1>4. ASSUME NEW i \in Instances,
             CreatePod(i) \/ CreatePodFails(i) \/ CreatePodReplyLost(i)
      PROVE  Same \/ pods'[n] = NewPod(i)
  <2>1. UNCHANGED pods \/ pods' = WithPod(PodOf(i), NewPod(i))
    BY <1>4 DEF CreatePod, CreatePodFails, CreatePodReplyLost, SetPods, podVars
  <2> QED
    BY <1>1, <2>1 DEF WithPod
<1>5. ASSUME NEW m \in DOMAIN pods, CollectPod(m) PROVE Same
  BY <1>2, <1>5 DEF CollectPod
<1>6. ASSUME NEW m \in DOMAIN pods, RunPod(m) PROVE Same \/ RunPod(n)
  <2>1. CASE m = n
    BY <1>6, <2>1
  <2>2. CASE m # n
    <3>1. PICK pod : pods' = [pods EXCEPT ![m] = pod]
      BY <1>6 DEF RunPod, SetPods
    <3>2. n \in DOMAIN pods /\ pods'[n] = pods[n]
      BY <2>2, <3>1
    <3> QED
      BY <3>2
  <2> QED
    BY <2>1, <2>2
<1>7. ASSUME NEW m \in DOMAIN pods, RemovePod(m) PROVE Same
  BY <1>7 DEF RemovePod, SetPods, Without
<1>8. ASSUME NEW i \in Instances, Work(i) \/ Fails(i)
      PROVE  Same \/ pods'[n] = NewPod(i)
  <2>1. CASE UNCHANGED podVars
    BY <1>1, <2>1 DEF podVars
  <2> QED
    BY <1>3, <1>4, <1>8, <2>1
       DEF Work, Fails, Dispatch, Acquire, AcquireFails, Prepare, PrepareStops,
           PrepareFails, Verify, Release, ReleaseFails, Patch, PatchGone, PatchFails
<1>9. ASSUME NEW i \in Instances, Pick(i) \/ User(i) \/ DeliverCR(i)
      PROVE  UNCHANGED pods
  BY <1>9 DEF Pick, SkipGone, Initialize, AddFinalizer, RemoveFinalizer,
              TakeForFinalizer, StartPass, User, UpdateSpec, DeleteResource,
              Provide, DeliverCR, podVars
<1>10. ASSUME \/ DeliverPods \/ Restart \/ DeliverLock \/ CollectGoneLock
              \/ DeleteLockByHand \/ UNCHANGED vars
       PROVE  UNCHANGED pods
  BY <1>10 DEF DeliverPods, Restart, DeliverLock, CollectGoneLock,
               DeleteLockByHand, vars, podVars
<1> QED
  BY <1>1, <1>5, <1>6, <1>7, <1>8, <1>9, <1>10 DEF Next

LEMMA DeletedNotDoneStep ==
  ASSUME TypeInv, DeletedNotDone, [Next]_vars
  PROVE  DeletedNotDone'
<1> SUFFICES ASSUME NEW n \in DOMAIN pods', pods'[n].deleting
             PROVE  pods'[n].phase # "Done"
  BY DEF DeletedNotDone
<1>1. ASSUME NEW i \in Instances PROVE ~NewPod(i).deleting
  BY DEF NewPod
<1>2. ASSUME RunPod(n) PROVE ~pods'[n].deleting
  <2>1. PICK ph : pods' = [pods EXCEPT ![n] = [pods[n] EXCEPT !.phase = ph]]
    BY <1>2 DEF RunPod, SetPods
  <2>2. pods[n] \in PodType /\ ~pods[n].deleting /\ n \in DOMAIN pods
    BY <1>2 DEF RunPod, TypeInv, PodsTyped
  <2> QED
    BY <2>1, <2>2 DEF PodType
<1> QED
  BY <1>1, <1>2, PhaseStep DEF DeletedNotDone

(* What is incomplete stays so until a pass creates a pod.                 *)
LEMMA StaysIncomplete ==
  ASSUME ~Lagging, TypeInv, podCache = pods, DeletedNotDone, [Next]_vars,
         NEW j \in Instances, Incomplete(j), ~Creates(j)
  PROVE  Incomplete(j)'
<1>1. ASSUME NEW n \in DOMAIN pods', pods'[n].owner = j
      PROVE  /\ n \in DOMAIN pods /\ pods[n].owner = j
             /\ pods'[n].step = pods[n].step /\ pods'[n].hash = pods[n].hash
             /\ ~pods'[n].deleting => ~pods[n].deleting
             /\ pods'[n].phase = pods[n].phase
  <2>1. CASE Age
    <3>1. /\ n \in DOMAIN pods /\ pods[n].owner = j
          /\ pods'[n].step = pods[n].step /\ pods'[n].hash = pods[n].hash
          /\ ~pods'[n].deleting => ~pods[n].deleting
          /\ pods[n].phase = "Done" => pods'[n].phase = "Done"
      BY <1>1, <2>1 DEF Age
    <3>2. ~RunPod(n)
      BY <3>1 DEF RunPod, Incomplete, OwnPods, Active
    <3>3. ASSUME NEW i \in Instances, pods'[n] = NewPod(i)
          PROVE  pods'[n].phase = pods[n].phase
      <4>1. pods'[n].phase = "Pending" /\ ~pods'[n].deleting
        BY <3>3 DEF NewPod
      <4>2. pods[n].phase # "Done" /\ ~pods[n].deleting
        BY <3>1, <4>1
      <4> QED
        BY <3>1, <4>2 DEF Incomplete, OwnPods, Active
    <3> QED
      BY <1>1, <3>1, <3>2, <3>3, PhaseStep
  <2>2. ASSUME NEW i \in Instances, Creates(i)
        PROVE  n \in DOMAIN pods /\ pods'[n] = pods[n]
    <3>1. i # j /\ NewPod(i).owner = i
      BY <2>2 DEF NewPod
    <3> QED
      BY <1>1, <2>2, <3>1, CreatedPods
  <2> QED
    BY <1>1, <2>1, <2>2, PodsStep
<1>2. \A n \in OwnPods(j)' : ~Active(n)'
  BY <1>1 DEF Incomplete, OwnPods, Active
<1>3. ASSUME NEW g \in DOMAIN Specs[j], Tested(j, g)' PROVE FALSE
  <2>1. \A s \in Steps(Specs[j][g]) : \E n \in DOMAIN pods' :
           /\ pods'[n].owner = j
           /\ pods'[n].hash = CalculateConfigHash(j, Specs[j][g])
           /\ pods'[n].step = s
           /\ pods'[n].phase = "Done"
    BY <1>3 DEF Tested, Steps, WorkflowLength, CalculateConfigHash
  <2>2. Tested(j, g)
    BY <1>1, <2>1 DEF Tested
  <2> QED
    BY <2>2 DEF Incomplete
<1> QED
  BY <1>2, <1>3 DEF Incomplete

(* When a pass calls CreatePod, the pod that it calls it for is missing.   *)
LEMMA CreateIncomplete ==
  ASSUME TypeInv, PodInv, OrderInv, ShapeInv, DeletedNotDone,
         NEW j \in Instances \ gone, pc[j] = "create"
  PROVE  Incomplete(j)
<1>1. WillCreate(j)
  BY DEF WillCreate
<1>2. \A n \in OwnPods(j) : /\ ~Active(n) /\ pods[n].step < mem[j].step
                            /\ pods[n].hash = CalculateConfigHash(j, SpecOf(j))
  BY <1>1 DEF PodInv, NothingRuns, StepIsNew, OrderInv, SpecCompared
<1>3. mem[j].step \in Steps(SpecOf(j)) /\ mem[j].step \in Nat
  BY NextPodFits DEF TypeInv, PassesTyped, MemType
<1>4. ASSUME NEW g \in DOMAIN Specs[j], Tested(j, g) PROVE FALSE
  <2>1. \A s \in Steps(Specs[j][g]) : \E n \in OwnPods(j) :
           pods[n].hash = CalculateConfigHash(j, Specs[j][g]) /\ pods[n].step = s
    BY <1>4 DEF Tested, OwnPods, DeletedNotDone
  <2>2. 0 \in Steps(Specs[j][g])
    <3>1. Specs[j][g] \in SpecType
      BY SpecsAssumption
    <3>2. WorkflowLength(Specs[j][g]) \in Nat
      BY <3>1 DEF WorkflowLength, SpecType
    <3> QED
      BY <3>2 DEF Steps
  <2>3. CalculateConfigHash(j, Specs[j][g]) = CalculateConfigHash(j, SpecOf(j))
    BY <1>2, <2>1, <2>2
  <2>4. Specs[j][g] = SpecOf(j)
    BY <2>3 DEF CalculateConfigHash
  <2>5. PICK n \in OwnPods(j) : pods[n].step = mem[j].step
    BY <1>3, <2>1, <2>4
  <2> QED
    BY <1>2, <1>3, <2>5
<1> QED
  BY <1>2, <1>4 DEF Incomplete

LEMMA FailsIncompleteStep ==
  ASSUME ~Lagging, "podCreateReply" \notin Faults, TypeInv, PassInv, PodInv,
         OrderInv, ShapeInv, DeletedNotDone, FailsIncomplete, [Next]_vars
  PROVE  FailsIncomplete'
<1> SUFFICES ASSUME NEW j \in Instances \ gone', pc'[j] = "fail"
             PROVE  Incomplete(j)'
  BY DEF FailsIncomplete
<1>0. j \notin gone
  BY GoneStaysGone
<1>1. pc[j] \in {"create", "fail"}
  BY PassesStep, PassStarted DEF Proceeds, Dispatch
<1>2. Incomplete(j)
  BY <1>0, <1>1, CreateIncomplete DEF FailsIncomplete
<1>3. ~Creates(j)
  BY DEF Creates, Go, TypeInv, PassesTyped
<1> QED
  BY <1>2, <1>3, StaysIncomplete DEF PodInv

LEMMA RevokedIncompleteStep ==
  ASSUME ~Lagging, LaggingCR = {}, TypeInv, PassInv, PodInv, DeletedNotDone,
         FailsIncomplete, RevokedIncomplete, [Next]_vars
  PROVE  RevokedIncomplete'
<1> SUFFICES ASSUME NEW j \in Instances \ gone', pc'[j] # "idle",
                    SaysReady(cond'[j]), ~SaysReady(mem'[j].cond)
             PROVE  pc'[j] = "patch" /\ Incomplete(j)'
  BY DEF RevokedIncomplete
<1>0. j \notin gone
  BY GoneStaysGone
<1>1. cond'[j] = cond[j] /\ Get(j).cond = cond[j]
  BY StatusStep DEF Get, Resource
<1>2. ~Initialize(j)
  BY <1>1 DEF Initialize, NoConditions, SaysReady
<1>3. ~StartPass(j)
  BY <1>1, PassStarted
<1>4. Remembers(j)
  BY <1>2, <1>3, MemoryStep
<1>5. pc[j] \in {"fail", "patch"} /\ pc'[j] = "patch" /\ Incomplete(j)
  BY <1>0, <1>1, <1>4 DEF Remembers, FailsIncomplete, RevokedIncomplete
<1>6. ~Creates(j)
  BY <1>5 DEF Creates
<1> QED
  BY <1>5, <1>6, StaysIncomplete DEF PodInv

LEMMA KeptInvHolds ==
  ASSUME ~Lagging, LaggingCR = {}, NamesDiffer, LeftoversAreOld,
         "podCreateReply" \notin Faults
  PROVE  Spec => []KeptInv
<1>1. Init => KeptInv
  BY DEF Init, KeptInv, DeletedNotDone, FailsIncomplete, RevokedIncomplete
<1>2. TypeInv /\ PassInv /\ PodInv /\ OrderInv /\ ShapeInv /\ KeptInv /\ [Next]_vars
        => KeptInv'
  BY DeletedNotDoneStep, FailsIncompleteStep, RevokedIncompleteStep DEF KeptInv
<1> QED
  BY <1>1, <1>2, TypeInvHolds, PodInvHolds, OrderInvHolds, ShapeInvHolds, PTL DEF Spec

(* A result is not taken back: while every test pod of the present spec is *)
(* done and DeploymentReady says so, no patch of a pass makes it say       *)
(* something else, whatever interleaves, fails or restarts, when neither   *)
(* the pods nor the custom resources lag and no answer to CreatePod is     *)
(* lost.                                                                   *)
THEOREM ResultIsKept ==
  ASSUME ~Lagging, LaggingCR = {}, NamesDiffer, LeftoversAreOld,
         "podCreateReply" \notin Faults
  PROVE  Spec => ResultKept
<1>1. ASSUME TypeInv, KeptInv, [Next]_vars, NEW i \in Instances,
             Says(i, "True"), Tested(i, gen[i])
      PROVE  Says(i, "True")'
  <2>1. SaysReady(cond[i])
    BY <1>1 DEF Says, SaysReady
  <2>2. CASE cond'[i] = cond[i]
    BY <1>1, <2>2 DEF Says
  <2>3. CASE Patch(i) /\ cond'[i] # cond[i]
    <3>1. pc[i] = "patch" /\ i \notin gone
      BY <2>3 DEF Patch
    <3>2. cond'[i] = Deferred(mem[i].cond)
      BY <1>1, <2>3 DEF Patch, WriteStatus, NewStatus, TypeInv, ResourcesTyped
    <3>3. ~Incomplete(i)
      <4>1. gen[i] \in DOMAIN Specs[i]
        <5>1. gen[i] \in Nat /\ 1 <= gen[i] /\ gen[i] <= Len(Specs[i])
          BY <1>1 DEF TypeInv, ResourcesTyped
        <5> QED
          BY <5>1, GenerationHasSpec
      <4> QED
        BY <1>1, <4>1 DEF Incomplete
    <3>4. SaysReady(mem[i].cond)
      BY <1>1, <2>1, <3>1, <3>3 DEF KeptInv, RevokedIncomplete
    <3>5. SaysReady(cond'[i])
      BY <3>2, <3>4, DeferredKeeps
    <3> QED
      BY <3>5 DEF Says, SaysReady
  <2> QED
    BY <1>1, <2>2, <2>3, StatusStep
<1>2. TypeInv /\ KeptInv /\ [Next]_vars
        => [\A i \in Instances :
              Says(i, "True") /\ Tested(i, gen[i]) /\ gen'[i] = gen[i]
                => Says(i, "True")']_vars
  BY <1>1
<1> QED
  BY <1>2, TypeInvHolds, KeptInvHolds, PTL DEF Spec, ResultKept

-----------------------------------------------------------------------------
(* The rest is for caches that may lag, of pods and of custom resources,   *)
(* when the specs are not changed: what they show of the pods of a         *)
(* resource that exists is then less than there is, but never wrong.       *)
OneSpec == \A i \in Instances : Len(Specs[i]) = 1

OnlySpec(i) == Specs[i][1]

OwnIn(i, view) == {n \in DOMAIN view : view[n].owner = i}

(* The pods are those of the spec, and none is being deleted,              *)
FromSpec(i, view) ==
    \A n \in OwnIn(i, view) :
       /\ ~view[n].deleting
       /\ view[n].hash = CalculateConfigHash(i, OnlySpec(i))
       /\ view[n].step \in Steps(OnlySpec(i))
       /\ n = GetPodName(i, OnlySpec(i), view[n].step)

(* and those of the steps before each are done.                            *)
DoneBefore(i, view, step) ==
    \A s \in Nat : s < step =>
       \E m \in OwnIn(i, view) : view[m].step = s /\ view[m].phase = "Done"

Consecutive(i, view) ==
    \A n \in OwnIn(i, view) : DoneBefore(i, view, view[n].step)

(* What was to be seen in an older view is still there, and older.         *)
Contains(i, view, older) ==
    \A n \in OwnIn(i, older) :
       /\ n \in OwnIn(i, view)
       /\ view[n].step = older[n].step
       /\ older[n].phase = "Done" => view[n].phase = "Done"

TestedIn(i, view) ==
    \A s \in Steps(OnlySpec(i)) :
       \E n \in OwnIn(i, view) : view[n].step = s /\ view[n].phase = "Done"

InOrder(i, view) == FromSpec(i, view) /\ Consecutive(i, view)

ViewsInOrder ==
    \A i \in Instances \ gone : /\ InOrder(i, pods) /\ InOrder(i, podCache)
                                /\ Contains(i, pods, podCache)

(* Pods have the names of their owners, so CheckConfigChange for a         *)
(* resource that is gone deletes none of another.                          *)
NamedIn(view) == \A n \in DOMAIN view : n[1] = Name[view[n].owner]

(* What NextAction decided, the cache had shown.                           *)
DecidedInOrder ==
    \A i \in Instances \ gone :
       /\ WillCreate(i) => /\ DoneBefore(i, podCache, mem[i].step)
                           /\ mem[i].step \in Steps(OnlySpec(i))
       /\ WillEnd(i) => TestedIn(i, podCache)

LagInv ==
    /\ NamedIn(pods) /\ NamedIn(podCache)
    /\ ViewsInOrder
    /\ DecidedInOrder

-----------------------------------------------------------------------------
(* With one spec there is one generation.                                  *)
LEMMA OnlyGeneration ==
  ASSUME OneSpec, ResourcesTyped, CacheTyped, PassesTyped, NEW i \in Instances
  PROVE  /\ gen[i] = 1 /\ Get(i).gen = 1
         /\ OnlySpec(i) \in SpecType /\ WorkflowLength(OnlySpec(i)) \in Nat
         /\ pc[i] \notin {"idle", "patch"} => mem[i].gen = 1 /\ SpecOf(i) = OnlySpec(i)
<1>1. gen[i] \in Nat /\ 1 <= gen[i] /\ gen[i] <= 1
  BY DEF ResourcesTyped, OneSpec
<1>2. Get(i).gen \in Nat /\ 1 <= Get(i).gen /\ Get(i).gen <= gen[i]
  BY GetType DEF ReadType
<1>3. OnlySpec(i) \in SpecType
  BY GenerationHasSpec DEF OneSpec, OnlySpec
<1>4. pc[i] \notin {"idle", "patch"} => mem[i].gen = 1
  BY <1>1 DEF PassesTyped, MemType
<1> QED
  BY <1>1, <1>2, <1>3, <1>4 DEF SpecOf, OnlySpec, SpecType, WorkflowLength

(* A newer view shows what an older one showed.                            *)
LEMMA ContainsKeeps ==
  ASSUME NEW i, NEW view, NEW older, Contains(i, view, older)
  PROVE  /\ \A step : DoneBefore(i, older, step) => DoneBefore(i, view, step)
         /\ TestedIn(i, older) => TestedIn(i, view)
<1>1. ASSUME NEW step, DoneBefore(i, older, step) PROVE DoneBefore(i, view, step)
  BY <1>1 DEF Contains, DoneBefore
<1>2. ASSUME TestedIn(i, older) PROVE TestedIn(i, view)
  BY <1>2 DEF Contains, TestedIn
<1> QED
  BY <1>1, <1>2

LEMMA ListedInOrder ==
  ASSUME NamesDiffer, NEW i \in Instances, NEW view, PodsTyped(view), FromSpec(i, view)
  PROVE  Listed(i, view) = OwnIn(i, view)
<1>1. \A n \in DOMAIN view : view[n].owner \in Instances
  BY DEF PodsTyped, PodType
<1> QED
  BY <1>1 DEF Listed, OwnIn, FromSpec, NamesDiffer

(* A step has one pod.                                                     *)
LEMMA OnePodPerStep ==
  ASSUME NEW i, NEW view, FromSpec(i, view), NEW m \in OwnIn(i, view),
         NEW n \in OwnIn(i, view), view[m].step = view[n].step
  PROVE  m = n
BY DEF FromSpec

(* What NextAction decides from a view that is in order.                   *)
LEMMA DecisionInOrder ==
  ASSUME OneSpec, NamesDiffer, NEW i \in Instances, NEW view, PodsTyped(view),
         InOrder(i, view), WorkflowLength(OnlySpec(i)) \in Nat,
         NEW d \in NextActions(i, OnlySpec(i), view)
  PROVE  /\ d.action \in {"CreateFirstPod", "CreateNextPod"} =>
              /\ DoneBefore(i, view, d.step) /\ d.step \in Steps(OnlySpec(i))
              /\ \A m \in OwnIn(i, view) : view[m].step < d.step
         /\ d.action = "EndTesting" <=> TestedIn(i, view)
<1> USE DEF InOrder
<1>1. CASE OwnIn(i, view) = {}
  <2>1. d = Decision("CreateFirstPod", 0)
    BY <1>1, ListedInOrder DEF NextActions
  <2>2. 0 \in Steps(OnlySpec(i))
    BY DEF Steps
  <2> QED
    BY <1>1, <2>1, <2>2 DEF Decision, DoneBefore, TestedIn
<1>2. CASE OwnIn(i, view) # {}
  <2> DEFINE length == WorkflowLength(OnlySpec(i))
  <2>1. PICK n \in LastPods(i, view) : d = AfterPod(view[n], length)
    BY <1>2, ListedInOrder DEF NextActions
  <2>2. n \in OwnIn(i, view) /\ \A m \in OwnIn(i, view) : view[m].step <= view[n].step
    BY <2>1, ListedInOrder DEF LastPods
  <2>3. view[n] \in PodType
    BY <2>2 DEF OwnIn, PodsTyped
  <2>4. view[n].step \in Nat /\ view[n].phase \in Phases
    BY <2>3, BoundsAssumption DEF PodType
  <2>5. view[n].step \in Steps(OnlySpec(i)) /\ DoneBefore(i, view, view[n].step)
    BY <2>2 DEF FromSpec, Consecutive
  <2>6. isLastPodIndex(view[n].step, length) \in BOOLEAN
    BY DEF isLastPodIndex
  <2>7. /\ d.action \in {"CreateFirstPod", "CreateNextPod"} =>
             /\ d.step = view[n].step + 1 /\ view[n].phase = "Done"
             /\ ~isLastPodIndex(view[n].step, length)
        /\ d.action = "EndTesting" <=>
             view[n].phase = "Done" /\ isLastPodIndex(view[n].step, length)
    BY <2>1, <2>4, <2>6 DEF AfterPod, Decision, Phases
  <2>8. isLastPodIndex(view[n].step, length)
          <=> \A s \in Steps(OnlySpec(i)) : s <= view[n].step
    BY <2>4, <2>5 DEF isLastPodIndex, Steps
  <2>9. ~isLastPodIndex(view[n].step, length) => view[n].step + 1 \in Steps(OnlySpec(i))
    BY <2>4, <2>5 DEF isLastPodIndex, Steps
  <2>10. view[n].phase = "Done" => DoneBefore(i, view, view[n].step + 1)
    <3> SUFFICES ASSUME view[n].phase = "Done", NEW s \in Nat, s < view[n].step + 1
                 PROVE  \E m \in OwnIn(i, view) : view[m].step = s /\ view[m].phase = "Done"
      BY DEF DoneBefore
    <3>1. CASE s = view[n].step
      BY <2>2, <3>1
    <3>2. CASE s < view[n].step
      BY <2>5, <3>2 DEF DoneBefore
    <3> QED
      BY <2>4, <3>1, <3>2
  <2>11. ASSUME view[n].phase = "Done", isLastPodIndex(view[n].step, length)
         PROVE  TestedIn(i, view)
    <3>1. \A s \in Steps(OnlySpec(i)) : s \in Nat /\ s < view[n].step + 1
      BY <2>4, <2>8, <2>11 DEF Steps
    <3> QED
      BY <2>10, <2>11, <3>1 DEF TestedIn, DoneBefore
  <2>12. ASSUME TestedIn(i, view)
         PROVE  view[n].phase = "Done" /\ isLastPodIndex(view[n].step, length)
    <3>1. PICK m \in OwnIn(i, view) : view[m].step = view[n].step /\ view[m].phase = "Done"
      BY <2>5, <2>12 DEF TestedIn
    <3>2. m = n
      BY <2>2, <3>1, OnePodPerStep
    <3>3. \A s \in Steps(OnlySpec(i)) : s <= view[n].step
      BY <2>2, <2>12 DEF TestedIn
    <3> QED
      BY <2>8, <3>1, <3>2, <3>3
  <2>13. \A m \in OwnIn(i, view) : view[m].step < view[n].step + 1
    <3>1. \A m \in OwnIn(i, view) : view[m].step \in Nat
      BY BoundsAssumption DEF OwnIn, PodsTyped, PodType
    <3> QED
      BY <2>2, <2>4, <3>1
  <2> QED
    BY <2>7, <2>9, <2>10, <2>11, <2>12, <2>13
<1> QED
  BY <1>1, <1>2

-----------------------------------------------------------------------------
(* CheckConfigChange finds nothing to delete for a resource that exists.   *)
LEMMA ConfigUnchanged ==
  ASSUME OneSpec, NamesDiffer, TypeInv, LagInv, NEW i \in Instances \ gone
  PROVE  ~CheckConfigChange(i) /\ ~CheckConfigChangeFails(i)
<1> SUFFICES ASSUME pc[i] = "check", TRUE \in ConfigChanged(i, SpecOf(i), podCache)
             PROVE  FALSE
  BY DEF CheckConfigChange, CheckConfigChangeFails
<1>1. SpecOf(i) = OnlySpec(i)
  BY OnlyGeneration DEF TypeInv
<1>2. FromSpec(i, podCache)
  BY DEF LagInv, ViewsInOrder, InOrder
<1>3. Listed(i, podCache) = OwnIn(i, podCache)
  BY <1>2, ListedInOrder DEF TypeInv
<1> QED
  BY <1>1, <1>2, <1>3 DEF ConfigChanged, FromSpec

(* So the pods of one that exists only grow older, or a pass creates one.  *)
LEMMA LaggedPodsStep ==
  ASSUME OneSpec, NamesDiffer, TypeInv, LagInv, [Next]_vars, NEW j \in Instances \ gone
  PROVE  Keeps(j) \/ Creates(j)
<1>1. ASSUME NEW i \in Instances, CheckConfigChange(i) \/ CheckConfigChangeFails(i)
      PROVE  Keeps(j)
  <2>1. i # j
    BY <1>1, ConfigUnchanged
  <2>2. PICK S \in SUBSET Listed(i, podCache) : S \subseteq DOMAIN pods /\ DeletePods(S, queued)
    BY <1>1 DEF CheckConfigChange, CheckConfigChangeFails
  <2>3. ASSUME NEW n \in S \cap OwnPods(j) PROVE FALSE
    <3>1. n \in DOMAIN podCache /\ Name[podCache[n].owner] = Name[i]
      BY <2>3 DEF Listed
    <3>2. n \in DOMAIN pods /\ pods[n].owner = j
      BY <2>3 DEF OwnPods
    <3>3. n[1] = Name[i] /\ n[1] = Name[j]
      BY <3>1, <3>2 DEF LagInv, NamedIn
    <3> QED
      BY <2>1, <3>3 DEF NamesDiffer
  <2> QED
    BY <2>2, <2>3, DeletionKeeps DEF TypeInv
<1> QED
  BY <1>1, UncheckedPodsStep

LEMMA NamedStep ==
  ASSUME TypeInv, NamedIn(pods), NamedIn(podCache), [Next]_vars
  PROVE  NamedIn(pods)' /\ NamedIn(podCache)'
<1>1. CASE Age
  BY <1>1, PodsStep DEF Age, NamedIn, CacheFollows
<1>2. ASSUME NEW i \in Instances, Creates(i) PROVE NamedIn(pods)'
  <2>1. PodOf(i)[1] = Name[i] /\ NewPod(i).owner = i
    BY DEF PodOf, GetPodName, NewPod
  <2> QED
    BY <1>2, <2>1, CreatedPods DEF NamedIn
<1>3. NamedIn(pods)'
  BY <1>1, <1>2, PodsStep
<1> QED
  BY <1>3, PodsStep DEF NamedIn, CacheFollows

(* The pods of a resource in both views after a step.                      *)
LEMMA ViewsStep ==
  ASSUME OneSpec, NamesDiffer, TypeInv, LagInv, [Next]_vars, NEW j \in Instances \ gone'
  PROVE  /\ InOrder(j, pods') /\ Contains(j, pods', pods)
         /\ InOrder(j, podCache') /\ Contains(j, podCache', podCache)
         /\ Contains(j, pods', podCache')
<1>0. j \in Instances \ gone
  BY GoneStaysGone
<1>1. /\ InOrder(j, pods) /\ InOrder(j, podCache) /\ Contains(j, pods, podCache)
  BY <1>0 DEF LagInv, ViewsInOrder
<1>2. OwnPods(j) = OwnIn(j, pods)
  BY <1>1 DEF OwnPods, OwnIn, InOrder, FromSpec
<1>3. ASSUME Keeps(j), Age PROVE InOrder(j, pods') /\ Contains(j, pods', pods)
  <2>1. OwnIn(j, pods') = OwnIn(j, pods)
    BY <1>2, <1>3 DEF Keeps, Age, OwnPods, OwnIn
  <2>2. \A n \in OwnIn(j, pods) : /\ ~pods'[n].deleting
                                  /\ pods'[n].step = pods[n].step
                                  /\ pods'[n].hash = pods[n].hash
                                  /\ pods[n].phase = "Done" => pods'[n].phase = "Done"
    BY <1>2, <1>3 DEF Keeps, OwnPods
  <2>3. Contains(j, pods', pods)
    BY <2>1, <2>2 DEF Contains
  <2>4. Consecutive(j, pods')
    BY <1>1, <2>1, <2>2, <2>3, ContainsKeeps DEF InOrder, Consecutive
  <2>5. FromSpec(j, pods')
    BY <1>1, <2>1, <2>2 DEF InOrder, FromSpec
  <2> QED
    BY <2>3, <2>4, <2>5 DEF InOrder
<1>4. ASSUME NEW i \in Instances \ {j}, Creates(i)
      PROVE  InOrder(j, pods') /\ Contains(j, pods', pods)
  <2>1. NewPod(i).owner = i /\ PodOf(i) \notin DOMAIN pods
    BY <1>4 DEF NewPod, Creates
  <2>2. OwnIn(j, pods') = OwnIn(j, pods) /\ \A n \in OwnIn(j, pods) : pods'[n] = pods[n]
    BY <1>4, <2>1, CreatedPods DEF OwnIn
  <2>3. Contains(j, pods', pods)
    BY <2>2 DEF Contains
  <2>4. Consecutive(j, pods')
    BY <1>1, <2>2, <2>3, ContainsKeeps DEF InOrder, Consecutive
  <2>5. FromSpec(j, pods')
    BY <1>1, <2>2 DEF InOrder, FromSpec
  <2> QED
    BY <2>3, <2>4, <2>5 DEF InOrder
<1>5. ASSUME Creates(j) PROVE InOrder(j, pods') /\ Contains(j, pods', pods)
  <2>1. pc[j] = "create" /\ WillCreate(j) /\ PodOf(j) \notin DOMAIN pods
    BY <1>5 DEF Creates, WillCreate
  <2>2. SpecOf(j) = OnlySpec(j)
    BY <2>1, OnlyGeneration DEF TypeInv
  <2>3. /\ OwnIn(j, pods') = OwnIn(j, pods) \cup {PodOf(j)}
        /\ \A n \in OwnIn(j, pods) : pods'[n] = pods[n]
        /\ pods'[PodOf(j)] = NewPod(j)
    <3>1. NewPod(j).owner = j
      BY DEF NewPod
    <3> QED
      BY <1>5, <2>1, <3>1, CreatedPods DEF OwnIn
  <2>4. Contains(j, pods', pods)
    BY <2>3 DEF Contains
  <2>5. DoneBefore(j, podCache, mem[j].step) /\ mem[j].step \in Steps(OnlySpec(j))
    BY <1>0, <2>1 DEF LagInv, DecidedInOrder
  <2>6. DoneBefore(j, pods', mem[j].step)
    BY <1>1, <2>4, <2>5, ContainsKeeps
  <2>7. /\ ~NewPod(j).deleting /\ NewPod(j).step = mem[j].step
        /\ NewPod(j).hash = CalculateConfigHash(j, OnlySpec(j))
        /\ PodOf(j) = GetPodName(j, OnlySpec(j), mem[j].step)
    BY <2>2 DEF NewPod, PodOf
  <2>8. Consecutive(j, pods')
    BY <1>1, <2>3, <2>4, <2>6, <2>7, ContainsKeeps DEF InOrder, Consecutive
  <2>9. FromSpec(j, pods')
    BY <1>1, <2>3, <2>5, <2>7 DEF InOrder, FromSpec
  <2> QED
    BY <2>4, <2>8, <2>9 DEF InOrder
<1>6. InOrder(j, pods') /\ Contains(j, pods', pods)
  BY <1>0, <1>3, <1>4, <1>5, LaggedPodsStep, PodsStep
<1>7. Contains(j, pods', podCache) /\ Contains(j, pods', pods') /\ Contains(j, podCache, podCache)
  BY <1>1, <1>6 DEF Contains
<1> QED
  BY <1>1, <1>6, <1>7, PodsStep DEF CacheFollows

(* What a pass has decided holds until it acts on it.                      *)
LEMMA DecidedInOrderStep ==
  ASSUME OneSpec, NamesDiffer, TypeInv, PassInv, LagInv, [Next]_vars,
         NEW j \in Instances \ gone', pc'[j] \notin {"idle", "patch"}
  PROVE  /\ WillCreate(j)' => /\ DoneBefore(j, podCache', mem'[j].step)
                              /\ mem'[j].step \in Steps(OnlySpec(j))
         /\ WillEnd(j)' => TestedIn(j, podCache')
<1>0. j \in Instances \ gone
  BY GoneStaysGone
<1>1. CASE StartPass(j)
  <2>1. Get(j).gen = 1 /\ WorkflowLength(OnlySpec(j)) \in Nat
    BY OnlyGeneration DEF TypeInv
  <2>2. /\ pc'[j] = "check" /\ podCache' = podCache
        /\ \E d \in NextActions(j, OnlySpec(j), podCache) :
              mem'[j].action = d.action /\ mem'[j].step = d.step
    BY <1>1, <2>1, PassStarted DEF OnlySpec, podVars
  <2>3. PICK d \in NextActions(j, OnlySpec(j), podCache) :
              mem'[j].action = d.action /\ mem'[j].step = d.step
    BY <2>2
  <2>4. InOrder(j, podCache) /\ PodsTyped(podCache)
    BY <1>0 DEF LagInv, ViewsInOrder, TypeInv
  <2>5. /\ d.action \in {"CreateFirstPod", "CreateNextPod"} =>
             DoneBefore(j, podCache, d.step) /\ d.step \in Steps(OnlySpec(j))
        /\ d.action = "EndTesting" => TestedIn(j, podCache)
    BY <2>1, <2>4, DecisionInOrder
  <2> QED
    BY <2>2, <2>3, <2>5 DEF WillCreate, WillEnd
<1>2. CASE Proceeds(j)
  <2>1. /\ mem'[j].step = mem[j].step
        /\ WillCreate(j)' => WillCreate(j)
        /\ WillEnd(j)' => WillEnd(j)
    BY <1>2 DEF Proceeds, Dispatch, Go, Return, WillCreate, WillEnd, TypeInv, PassesTyped
  <2>2. Contains(j, podCache', podCache)
    BY ViewsStep
  <2>3. /\ WillCreate(j) => /\ DoneBefore(j, podCache, mem[j].step)
                            /\ mem[j].step \in Steps(OnlySpec(j))
        /\ WillEnd(j) => TestedIn(j, podCache)
    BY <1>0 DEF LagInv, DecidedInOrder
  <2> QED
    BY <2>1, <2>2, <2>3, ContainsKeeps
<1> QED
  BY <1>1, <1>2, PassesStep

LEMMA LagInvHolds ==
  ASSUME OneSpec, NamesDiffer
  PROVE  Spec => []LagInv
<1> USE DEF LagInv
<1>1. Init => LagInv
  BY DEF Init, NamedIn, ViewsInOrder, InOrder, FromSpec, Consecutive, Contains, OwnIn,
         DecidedInOrder, WillCreate, WillEnd
<1>2. ASSUME TypeInv, PassInv, LagInv, [Next]_vars PROVE LagInv'
  <2>1. NamedIn(pods)' /\ NamedIn(podCache)'
    BY <1>2, NamedStep
  <2>2. ViewsInOrder'
    BY <1>2, ViewsStep
       DEF ViewsInOrder, InOrder, FromSpec, Consecutive, Contains, OwnIn, DoneBefore,
           OnlySpec, Steps, WorkflowLength, CalculateConfigHash, GetPodName
  <2>3. DecidedInOrder'
    BY <1>2, DecidedInOrderStep
       DEF DecidedInOrder, OwnIn, DoneBefore, TestedIn, OnlySpec, Steps,
           WorkflowLength, WillCreate, WillEnd
  <2> QED
    BY <2>1, <2>2, <2>3
<1> QED
  BY <1>1, <1>2, TypeInvHolds, PTL DEF Spec

(* When the specs are not changed, workflow steps run one after the other  *)
(* also when the caches lag: NextAction may then decide on fewer pods than *)
(* there are, but the pod it asks for exists already and CreatePod is      *)
(* refused.                                                                *)
THEOREM WorkflowInOrderDespiteLag ==
  ASSUME OneSpec, NamesDiffer, Removable \subseteq Finalized
  PROVE  Spec => StepsInOrder
<1> DEFINE Earlier(n) == {m \in DOMAIN pods : /\ pods[m].owner = pods'[n].owner
                                              /\ ~pods[m].deleting}
           Good(n) == /\ {pods[m].step : m \in Earlier(n)} = 0 .. pods'[n].step - 1
                      /\ \A m \in Earlier(n) : /\ pods[m].phase = "Done"
                                               /\ pods[m].hash = pods'[n].hash
<1>1. ASSUME TypeInv, PassInv, LagInv, Orderly, [Next]_vars,
             NEW n \in DOMAIN pods' \ DOMAIN pods
      PROVE  Good(n)
  <2> USE <1>1
  <2>1. PICK i \in Instances : Creates(i)
    BY PodsStep DEF Age
  <2>2. n = PodOf(i) /\ pods'[n] = NewPod(i)
    <3>1. DOMAIN pods' = DOMAIN pods \cup {PodOf(i)} /\ pods'[PodOf(i)] = NewPod(i)
      BY <2>1, CreatedPods
    <3> QED
      BY <1>1, <3>1
  <2>3. i \notin gone /\ WillCreate(i) /\ pc[i] = "create"
    BY <2>1, PassOfExisting DEF Creates, WillCreate, Orderly
  <2>4. SpecOf(i) = OnlySpec(i)
    BY <2>3, OnlyGeneration DEF TypeInv
  <2>5. /\ pods'[n].owner = i /\ pods'[n].step = mem[i].step
        /\ pods'[n].hash = CalculateConfigHash(i, OnlySpec(i))
        /\ n = GetPodName(i, OnlySpec(i), mem[i].step)
    BY <2>2, <2>4 DEF NewPod, PodOf
  <2>6. FromSpec(i, pods) /\ Consecutive(i, pods) /\ Contains(i, pods, podCache)
    BY <2>3 DEF LagInv, ViewsInOrder, InOrder
  <2>7. Earlier(n) = OwnIn(i, pods)
    BY <2>5, <2>6 DEF OwnIn, FromSpec
  <2>8. DoneBefore(i, pods, mem[i].step)
    BY <2>3, <2>6, ContainsKeeps DEF LagInv, DecidedInOrder
  <2>9. \A m \in OwnIn(i, pods) : pods[m].step # mem[i].step
    BY <1>1, <2>5, <2>6 DEF FromSpec, OwnIn
  <2>10. mem[i].step \in Nat /\ \A m \in OwnIn(i, pods) : pods[m].step \in Nat
    BY BoundsAssumption DEF OwnIn, TypeInv, PodsTyped, PodType, PassesTyped, MemType
  <2>11. ASSUME NEW m \in OwnIn(i, pods)
         PROVE  pods[m].step < mem[i].step /\ pods[m].phase = "Done"
    <3>1. ~(mem[i].step < pods[m].step)
      BY <2>6, <2>9, <2>10 DEF Consecutive, DoneBefore
    <3>2. pods[m].step < mem[i].step
      BY <2>9, <2>10, <3>1
    <3>3. PICK k \in OwnIn(i, pods) : pods[k].step = pods[m].step /\ pods[k].phase = "Done"
      BY <2>8, <2>10, <3>2 DEF DoneBefore
    <3>4. k = m
      BY <2>6, <3>3, OnePodPerStep
    <3> QED
      BY <3>2, <3>3, <3>4
  <2>12. {pods[m].step : m \in OwnIn(i, pods)} = 0 .. mem[i].step - 1
    BY <2>8, <2>10, <2>11 DEF DoneBefore
  <2>13. \A m \in OwnIn(i, pods) : pods[m].hash = CalculateConfigHash(i, OnlySpec(i))
    BY <2>6 DEF FromSpec
  <2> QED
    BY <2>5, <2>7, <2>11, <2>12, <2>13
<1>2. TypeInv /\ PassInv /\ LagInv /\ Orderly /\ [Next]_vars
        => [\A n \in DOMAIN pods' \ DOMAIN pods : Good(n)]_vars
  BY <1>1
<1> QED
  BY <1>2, TypeInvHolds, LagInvHolds, OrderlyHolds, PTL DEF Spec, StepsInOrder

-----------------------------------------------------------------------------
(* Whoever says that the tests are done has seen them in the cache.        *)
SomeoneSays(i) ==
    \/ SaysReady(cond[i])
    \/ SaysReady(crCache[i].cond)
    \/ pc[i] # "idle" /\ SaysReady(mem[i].cond)

SaidIsSeen ==
    \A i \in Instances \ gone : SomeoneSays(i) => TestedIn(i, podCache)

(* The generation that a pass writes is not an older one.                  *)
ObservedGrows ==
    \A i \in Instances :
       /\ crCache[i].observed <= observed[i]
       /\ pc[i] # "idle" =>
            /\ mem[i].before[2] \in 0 .. observed[i]
            /\ mem[i].gen = mem[i].before[2] \/ mem[i].gen = 1
            /\ SaysReady(mem[i].cond) => mem[i].gen = 1

SaidInv == SaidIsSeen /\ ObservedGrows

LEMMA InitialSaysNot ==
  ASSUME NEW k
  PROVE  ~SaysReady(InitialConditions(k))
BY DEF InitialConditions, SaysReady

(* What a step makes a status say was said before, or is found by a pass   *)
(* that ends the testing.                                                  *)
LEMMA SaidBefore ==
  ASSUME TypeInv, PassInv, [Next]_vars, NEW j \in Instances, SomeoneSays(j)'
  PROVE  SomeoneSays(j) \/ pc[j] = "end"
<1>1. ASSUME SaysReady(cond'[j]) PROVE SomeoneSays(j)
  <2>1. CASE Patch(j)
    <3>1. pc[j] = "patch" /\ cond'[j] \in {cond[j], Deferred(mem[j].cond)}
      BY <2>1 DEF Patch, WriteStatus, NewStatus, TypeInv, ResourcesTyped
    <3> QED
      BY <1>1, <3>1, DeferredSays DEF SomeoneSays
  <2> QED
    BY <1>1, <2>1, StatusStep DEF SomeoneSays
<1>2. ASSUME SaysReady(crCache'[j].cond) PROVE SomeoneSays(j)
  <2>1. Resource(j).cond = cond[j]
    BY DEF Resource
  <2> QED
    BY <1>2, <2>1, ResourceGrows DEF SomeoneSays
<1>3. ASSUME pc'[j] # "idle", SaysReady(mem'[j].cond)
      PROVE  SomeoneSays(j) \/ pc[j] = "end"
  <2>1. ~Initialize(j)
    BY <1>3, PassInitialized, InitialSaysNot
  <2>2. ASSUME StartPass(j) PROVE SomeoneSays(j)
    <3>1. SaysReady(Get(j).cond)
      BY <1>3, <2>2, PassStarted
    <3>2. Get(j) = crCache[j] \/ Get(j).cond = cond[j]
      BY DEF Get, Resource
    <3> QED
      BY <3>1, <3>2 DEF SomeoneSays
  <2>3. ASSUME Remembers(j) PROVE SomeoneSays(j) \/ pc[j] = "end"
    BY <1>3, <2>3 DEF Remembers, SomeoneSays
  <2> QED
    BY <1>3, <2>1, <2>2, <2>3, MemoryStep
<1> QED
  BY <1>1, <1>2, <1>3 DEF SomeoneSays

LEMMA SaidIsSeenStep ==
  ASSUME OneSpec, NamesDiffer, TypeInv, PassInv, LagInv, SaidIsSeen, [Next]_vars,
         NEW j \in Instances \ gone', SomeoneSays(j)'
  PROVE  TestedIn(j, podCache) /\ TestedIn(j, podCache')
<1>0. j \in Instances \ gone
  BY GoneStaysGone
<1>1. SomeoneSays(j) \/ WillEnd(j)
  BY SaidBefore DEF WillEnd
<1>2. TestedIn(j, podCache)
  BY <1>0, <1>1 DEF SaidIsSeen, LagInv, DecidedInOrder
<1>3. Contains(j, podCache', podCache)
  BY ViewsStep
<1> QED
  BY <1>2, <1>3, ContainsKeeps

LEMMA ObservedGrowsStep ==
  ASSUME OneSpec, TypeInv, PassInv, ObservedGrows, [Next]_vars, NEW j \in Instances
  PROVE  /\ observed[j] <= observed'[j]
         /\ crCache'[j].observed <= observed'[j]
         /\ pc'[j] # "idle" =>
              /\ mem'[j].before[2] \in 0 .. observed'[j]
              /\ mem'[j].gen = mem'[j].before[2] \/ mem'[j].gen = 1
              /\ SaysReady(mem'[j].cond) => mem'[j].gen = 1
<1> USE DEF ObservedGrows
<1>1. /\ observed[j] \in Nat /\ observed[j] <= 1
      /\ Get(j).gen = 1 /\ Get(j).observed \in Nat
      /\ crCache[j].observed \in Nat
  <2>1. gen[j] = 1 /\ Get(j).gen = 1
    BY OnlyGeneration DEF TypeInv
  <2>2. Get(j).observed \in Nat
    BY GetType DEF TypeInv, ReadType
  <2> QED
    BY <2>1, <2>2 DEF TypeInv, ResourcesTyped, CacheTyped, ReadType
<1>2. observed'[j] = observed[j] \/ observed'[j] = 1
  <2>1. CASE Patch(j)
    <3>1. /\ pc[j] = "patch"
          /\ observed'[j] = IF mem[j].gen = mem[j].before[2] THEN observed[j] ELSE mem[j].gen
      BY <2>1 DEF Patch, WriteStatus, NewStatus, TypeInv, ResourcesTyped
    <3> QED
      BY <3>1
  <2>2. CASE AddFinalizer(j)
    BY <1>1, <2>2 DEF AddFinalizer, TypeInv, ResourcesTyped
  <2> QED
    BY <2>1, <2>2, StatusStep
<1>3. observed[j] <= observed'[j] /\ observed'[j] \in Nat
  BY <1>1, <1>2
<1>4. crCache'[j].observed <= observed'[j]
  <2>1. Resource(j).observed = observed[j]
    BY DEF Resource
  <2> QED
    BY <1>1, <1>3, <2>1, ResourceGrows
<1>5. Get(j).observed <= observed[j]
  BY <1>1 DEF Get, Resource
<1>6. CASE Initialize(j)
  <2>1. mem'[j].before = Status(Get(j)) /\ mem'[j].gen = Get(j).observed
    BY <1>6, PassInitialized
  <2>2. ~SaysReady(mem'[j].cond)
    BY <1>6, PassInitialized, InitialSaysNot
  <2> QED
    BY <1>1, <1>3, <1>4, <1>5, <2>1, <2>2 DEF Status
<1>7. CASE StartPass(j)
  BY <1>1, <1>3, <1>4, <1>5, <1>7, PassStarted DEF Status
<1>8. CASE Remembers(j)
  <2>1. mem[j].before[2] \in 0 .. observed[j] /\ mem'[j].before = mem[j].before
    BY <1>8 DEF Remembers
  <2>2. mem'[j].before[2] \in 0 .. observed'[j]
    BY <1>1, <1>3, <2>1
  <2>3. SaysReady(mem'[j].cond) => mem'[j].gen = 1
    <3>1. pc[j] = "end" => mem[j].gen = 1
      BY OnlyGeneration DEF TypeInv
    <3> QED
      BY <1>8, <3>1 DEF Remembers
  <2> QED
    BY <1>3, <1>4, <1>8, <2>1, <2>2, <2>3 DEF Remembers
<1> QED
  BY <1>3, <1>4, <1>6, <1>7, <1>8, MemoryStep

LEMMA SaidInvHolds ==
  ASSUME OneSpec, NamesDiffer
  PROVE  Spec => []SaidInv
<1>1. Init => SaidInv
  <2> SUFFICES ASSUME Init PROVE SaidInv
    OBVIOUS
  <2>1. \A i \in Instances : Resource(i).cond = NoConditions /\ Resource(i).observed = 0
    BY DEF Init, Resource
  <2>2. /\ \A i \in Instances : /\ cond[i] = NoConditions /\ observed[i] = 0
                                /\ pc[i] = "idle"
        /\ crCache = [i \in Instances |-> Resource(i)]
    BY DEF Init
  <2>3. ~SaysReady(NoConditions)
    BY DEF SaysReady, NoConditions
  <2> QED
    BY <2>1, <2>2, <2>3 DEF SaidInv, SaidIsSeen, SomeoneSays, ObservedGrows
<1>2. ASSUME TypeInv, PassInv, LagInv, SaidInv, [Next]_vars PROVE SaidInv'
  <2>1. SaidIsSeen'
    BY <1>2, SaidIsSeenStep DEF SaidInv, SaidIsSeen, TestedIn, OwnIn, OnlySpec, Steps,
                                WorkflowLength
  <2>2. ObservedGrows'
    BY <1>2, ObservedGrowsStep DEF SaidInv, ObservedGrows
  <2> QED
    BY <2>1, <2>2 DEF SaidInv
<1> QED
  BY <1>1, <1>2, TypeInvHolds, LagInvHolds, PTL DEF Spec

(* When the specs are not changed, DeploymentReady becomes True only when  *)
(* every test pod is done also when the caches lag: what a pass reads of   *)
(* an older status or of fewer pods never says more than is true.          *)
THEOREM ReadyOnlyWhenTestedDespiteLag ==
  ASSUME OneSpec, NamesDiffer
  PROVE  Spec => DeploymentReadyEarned
<1>1. ASSUME TypeInv, PassInv, LagInv, SaidInv, [Next]_vars, NEW i \in Instances,
             ~Says(i, "True"), Says(i, "True")'
      PROVE  Tested(i, observed'[i])
  <2> USE <1>1 DEF SaidInv
  <2>1. ~SaysReady(cond[i]) /\ SaysReady(cond'[i])
    BY DEF Says, SaysReady
  <2>2. Patch(i)
    BY <2>1, StatusStep
  <2>3. pc[i] = "patch" /\ i \notin gone
    BY <2>2 DEF Patch
  <2>4. /\ cond'[i] \in {cond[i], Deferred(mem[i].cond)}
        /\ observed'[i] = IF mem[i].gen = mem[i].before[2] THEN observed[i] ELSE mem[i].gen
    BY <2>2 DEF Patch, WriteStatus, NewStatus, TypeInv, ResourcesTyped
  <2>5. SaysReady(mem[i].cond)
    BY <2>1, <2>4, DeferredSays
  <2>6. mem[i].gen = 1 /\ mem[i].before[2] \in 0 .. observed[i]
    BY <2>3, <2>5 DEF ObservedGrows
  <2>7. observed[i] \in Nat /\ observed[i] <= 1
    BY OnlyGeneration DEF TypeInv, ResourcesTyped
  <2>8. observed'[i] = 1
    BY <2>4, <2>6, <2>7
  <2>9. TestedIn(i, podCache)
    BY <2>3, <2>5 DEF SaidIsSeen, SomeoneSays
  <2>10. FromSpec(i, pods) /\ TestedIn(i, pods)
    BY <2>3, <2>9, ContainsKeeps DEF LagInv, ViewsInOrder, InOrder
  <2>11. Tested(i, 1)
    BY <2>10 DEF Tested, TestedIn, FromSpec, OwnIn, OnlySpec
  <2> QED
    BY <2>8, <2>11
<1>2. TypeInv /\ PassInv /\ LagInv /\ SaidInv /\ [Next]_vars
        => [\A i \in Instances : ~Says(i, "True") /\ Says(i, "True")'
              => Tested(i, observed'[i])]_vars
  BY <1>1
<1> QED
  BY <1>2, TypeInvHolds, LagInvHolds, SaidInvHolds, PTL DEF Spec, DeploymentReadyEarned

-----------------------------------------------------------------------------
(* What is read and written is settled: the deferred function leaves it as *)
(* it is.  A pass that stops before its end writes nothing, because it has *)
(* the conditions that it read.                                            *)
Settled ==
    \A i \in Instances :
       /\ Deferred(cond[i]) = cond[i] /\ Deferred(crCache[i].cond) = crCache[i].cond
       /\ pc[i] \in {"check", "end"} /\ i \notin gone =>
            mem[i].cond = mem[i].before[1] /\ Deferred(mem[i].cond) = mem[i].cond

Lists(c) == "DeploymentReady" \in DOMAIN c

(* A pass that does more than to initialise the conditions has read some,  *)
(* so once there is a result no pass initialises them any more.            *)
HasRead ==
    \A i \in Instances :
       /\ Lists(Get(i).cond) => Lists(cond[i])
       /\ \/ SaysReady(cond[i])
          \/ pc[i] # "idle" /\ (pc[i] # "patch" \/ SaysReady(mem[i].cond))
          => Lists(Get(i).cond)

(* A pass that runs when there is a result is about to find it again, or   *)
(* leaves it.                                                              *)
FindsAgain ==
    \A i \in Instances \ gone :
       pc[i] # "idle" /\ (SaysReady(cond[i]) \/ SaysReady(mem[i].cond))
         => \/ WillEnd(i)
            \/ /\ pc[i] = "patch"
               /\ SaysReady(mem[i].cond) \/ Deferred(mem[i].cond) = mem[i].before[1]

AgainInv == HasConditions /\ Settled /\ HasRead /\ FindsAgain

LEMMA DeferredSettles ==
  ASSUME NEW c \in AllConditions
  PROVE  Deferred(Deferred(c)) = Deferred(c)
<1>1. ASSUME "Ready" \in DOMAIN c, c["Ready"] = "Unknown"
      PROVE  Deferred(Deferred(c)) = Deferred(c)
  <2> DEFINE m == Mark(c, {"Ready"}, Mirror(c))
  <2>1. Deferred(c) = m /\ "Ready" \in DOMAIN m /\ m["Ready"] = Mirror(c)
    BY <1>1 DEF Deferred, Mark
  <2>2. CASE Mirror(c) = "Unknown"
    <3>1. c = [x \in DOMAIN c |-> c[x]]
      BY DEF AllConditions, NoConditions
    <3>2. m = c
      BY <1>1, <2>2, <3>1 DEF Mark
    <3> QED
      BY <2>1, <3>2
  <2>3. CASE Mirror(c) # "Unknown"
    <3>1. Deferred(m) = m
      BY <2>1, <2>3 DEF Deferred
    <3> QED
      BY <2>1, <3>1
  <2> QED
    BY <2>2, <2>3
<1>2. CASE ~("Ready" \in DOMAIN c /\ c["Ready"] = "Unknown")
  BY <1>2 DEF Deferred
<1> QED
  BY <1>1, <1>2

(* A pass that has found the testing done stops where it stands, goes on   *)
(* to the end, or ends with the result.                                    *)
LEMMA EndingStep ==
  ASSUME TypeInv, PassInv, [Next]_vars, NEW j \in Instances \ gone,
         pc[j] \in {"check", "end"}, pc'[j] # "idle"
  PROVE  \/ /\ mem'[j] = mem[j]
            /\ \/ pc'[j] = pc[j]
               \/ pc[j] = "check" /\ mem[j].action = "EndTesting" /\ pc'[j] = "end"
               \/ pc[j] = "check" /\ mem[j].action # "EndTesting" /\ pc'[j] = "acquire"
         \/ /\ pc'[j] = "patch" /\ mem'[j].before = mem[j].before
            /\ \/ mem'[j].cond = mem[j].cond
               \/ /\ pc[j] = "end"
                  /\ mem'[j].cond =
                       ReadyWhenAllTrue(Mark(mem[j].cond, {"DeploymentReady"}, "True"))
<1> USE DEF TypeInv, PassesTyped
<1>1. ASSUME NEW c, NEW a, Return(j, c, a)
      PROVE  /\ pc'[j] = "patch" /\ mem'[j].before = mem[j].before
             /\ mem'[j].cond = c
  <2>1. mem' = [mem EXCEPT ![j] = [mem[j] EXCEPT !.cond = c, !.again = a]]
    BY <1>1 DEF Return
  <2>2. mem'[j].before = mem[j].before /\ mem'[j].cond = c
    BY <2>1 DEF MemType
  <2> QED
    BY <1>1, <2>2 DEF Return, Go
<1>2. CASE Work(j) \/ Fails(j)
  <2>1. \/ CheckConfigChange(j) \/ CheckConfigChangeFails(j) \/ Dispatch(j)
        \/ pc[j] = "end" /\ AfterRelease(j)
    BY <1>2 DEF Work, Fails, Acquire, AcquireFails, Prepare, PrepareStops, PrepareFails,
                CreatePod, CreatePodFails, CreatePodReplyLost, Verify, Release,
                ReleaseFails, Patch, PatchGone, PatchFails
  <2>2. CASE CheckConfigChange(j) \/ CheckConfigChangeFails(j)
    BY <1>1, <2>2 DEF CheckConfigChange, CheckConfigChangeFails
  <2>3. CASE Dispatch(j)
    BY <1>1, <2>3 DEF Dispatch, Go
  <2>4. CASE pc[j] = "end" /\ AfterRelease(j)
    BY <1>1, <2>4 DEF AfterRelease, passVars
  <2> QED
    BY <2>1, <2>2, <2>3, <2>4
<1>3. ~Pick(j)
  BY PickAndPatch
<1> QED
  BY <1>2, <1>3, PassMoves

(* Where a pass comes from that has just started or is about to end.       *)
LEMMA SettledStep ==
  ASSUME TypeInv, PassInv, Settled, [Next]_vars, NEW j \in Instances
  PROVE  /\ Deferred(cond'[j]) = cond'[j] /\ Deferred(crCache'[j].cond) = crCache'[j].cond
         /\ pc'[j] \in {"check", "end"} /\ j \notin gone' =>
              mem'[j].cond = mem'[j].before[1] /\ Deferred(mem'[j].cond) = mem'[j].cond
<1> USE DEF Settled
<1>1. Deferred(cond'[j]) = cond'[j]
  <2>1. CASE Patch(j)
    <3>1. cond'[j] \in {cond[j], Deferred(mem[j].cond)}
      BY <2>1 DEF Patch, WriteStatus, NewStatus, TypeInv, ResourcesTyped
    <3>2. mem[j].cond \in AllConditions
      BY DEF TypeInv, PassesTyped, MemType
    <3> QED
      BY <3>1, <3>2, DeferredSettles
  <2> QED
    BY <2>1, StatusStep
<1>2. Deferred(crCache'[j].cond) = crCache'[j].cond
  <2>1. Resource(j).cond = cond[j]
    BY DEF Resource
  <2> QED
    BY <2>1, ResourceGrows
<1>3. ASSUME pc'[j] \in {"check", "end"}, j \notin gone'
      PROVE  mem'[j].cond = mem'[j].before[1] /\ Deferred(mem'[j].cond) = mem'[j].cond
  <2>1. CASE StartPass(j)
    <3>1. mem'[j].cond = Get(j).cond /\ mem'[j].before[1] = Get(j).cond
      BY <2>1, PassStarted DEF Status
    <3>2. Get(j).cond \in {cond[j], crCache[j].cond}
      BY DEF Get, Resource
    <3> QED
      BY <3>1, <3>2
  <2>2. CASE Proceeds(j)
    <3>1. pc[j] \in {"check", "end"} /\ j \notin gone
      BY <1>3, <2>2, GoneStaysGone DEF Proceeds, Dispatch
    <3>2. mem'[j] = mem[j]
      BY <1>3, <3>1, EndingStep
    <3> QED
      BY <3>1, <3>2
  <2> QED
    BY <1>3, <2>1, <2>2, PassesStep
<1> QED
  BY <1>1, <1>2, <1>3

LEMMA HasReadStep ==
  ASSUME TypeInv, PassInv, HasConditions, HasRead, [Next]_vars, NEW j \in Instances
  PROVE  /\ Lists(Get(j)'.cond) => Lists(cond'[j])
         /\ \/ SaysReady(cond'[j])
            \/ pc'[j] # "idle" /\ (pc'[j] # "patch" \/ SaysReady(mem'[j].cond))
            => Lists(Get(j)'.cond)
<1> USE DEF HasRead
<1>0. Resource(j).cond = cond[j] /\ Resource(j)'.cond = cond'[j]
  BY DEF Resource
<1>1. cond'[j] = cond[j] \/ (pc[j] = "patch" /\ cond'[j] = Deferred(mem[j].cond))
  <2>1. CASE Patch(j)
    BY <2>1 DEF Patch, WriteStatus, NewStatus, TypeInv, ResourcesTyped
  <2> QED
    BY <2>1, StatusStep
<1>2. Lists(cond[j]) => Lists(cond'[j])
  <2>1. ASSUME pc[j] = "patch" PROVE Lists(Deferred(mem[j].cond))
    BY <2>1, EndKeepsList DEF HasConditions, Lists
  <2> QED
    BY <1>1, <2>1
<1>3. \/ j \in LaggingCR /\ Get(j) = crCache[j]
         /\ (Get(j)'.cond = crCache[j].cond \/ Get(j)'.cond = cond[j])
      \/ Get(j).cond = cond[j] /\ Get(j)'.cond = cond'[j]
  BY <1>0, ResourceGrows DEF Get
<1>4. Lists(Get(j)'.cond) => Lists(cond'[j])
  BY <1>2, <1>3
<1>5. Lists(Get(j).cond) => Lists(Get(j)'.cond)
  BY <1>2, <1>3
<1>6. ASSUME SaysReady(cond'[j]) PROVE Lists(Get(j).cond)
  <2>1. CASE cond'[j] = cond[j]
    BY <1>6, <2>1
  <2>2. CASE pc[j] = "patch" /\ cond'[j] = Deferred(mem[j].cond)
    BY <1>6, <2>2, DeferredSays
  <2> QED
    BY <1>1, <2>1, <2>2
<1>7. ASSUME pc'[j] # "idle", pc'[j] # "patch" \/ SaysReady(mem'[j].cond)
      PROVE  Lists(Get(j).cond)
  <2>1. ~Initialize(j)
    BY <1>7, PassInitialized, InitialSaysNot
  <2>2. CASE StartPass(j)
    <3>1. Get(j).cond # NoConditions
      BY <2>2 DEF StartPass
    <3>2. Get(j).cond \in AllConditions
      BY GetType DEF ReadType, TypeInv
    <3> QED
      BY <3>1, <3>2, DeploymentReadyListed DEF Lists
  <2>3. CASE Remembers(j)
    <3>1. pc[j] # "idle"
      BY <2>3 DEF Remembers
    <3>2. pc[j] # "patch" \/ SaysReady(mem[j].cond)
      <4>1. ASSUME pc[j] = "patch" PROVE SaysReady(mem[j].cond)
        BY <1>7, <2>3, <4>1 DEF Remembers
      <4> QED
        BY <4>1
    <3> QED
      BY <3>1, <3>2
  <2> QED
    BY <1>7, <2>1, <2>2, <2>3, MemoryStep
<1> QED
  BY <1>4, <1>5, <1>6, <1>7

LEMMA FindsAgainStep ==
  ASSUME OneSpec, NamesDiffer, TypeInv, PassInv, LagInv, SaidInv, AgainInv, [Next]_vars,
         NEW j \in Instances \ gone', pc'[j] # "idle",
         SaysReady(cond'[j]) \/ SaysReady(mem'[j].cond)
  PROVE  \/ WillEnd(j)'
         \/ /\ pc'[j] = "patch"
            /\ \/ SaysReady(mem'[j].cond)
               \/ Deferred(mem'[j].cond) = mem'[j].before[1]
<1> USE DEF AgainInv
<1>0. j \in Instances \ gone /\ cond'[j] = cond[j]
  BY GoneStaysGone, StatusStep
<1>1. TestedIn(j, podCache)
  BY SaidIsSeenStep DEF SaidInv, SomeoneSays
<1>2. CASE Initialize(j)
  <2>1. ~SaysReady(mem'[j].cond) /\ Get(j).cond = NoConditions
    BY <1>2, PassInitialized, InitialSaysNot
  <2>2. Lists(Get(j).cond)
    BY <1>0, <2>1 DEF HasRead
  <2> QED
    BY <2>1, <2>2 DEF Lists, NoConditions
<1>3. CASE StartPass(j)
  <2>1. Get(j).gen = 1 /\ WorkflowLength(OnlySpec(j)) \in Nat
    BY OnlyGeneration DEF TypeInv
  <2>2. PICK d \in NextActions(j, OnlySpec(j), podCache) : mem'[j].action = d.action
    BY <1>3, <2>1, PassStarted DEF OnlySpec
  <2>3. InOrder(j, podCache) /\ PodsTyped(podCache)
    BY <1>0 DEF LagInv, ViewsInOrder, TypeInv
  <2>4. d.action = "EndTesting"
    BY <1>1, <2>1, <2>3, DecisionInOrder
  <2>5. pc'[j] = "check"
    BY <1>3, PassStarted
  <2> QED
    BY <2>2, <2>4, <2>5 DEF WillEnd
<1>4. CASE Remembers(j)
  <2>1. pc[j] # "idle"
    BY <1>4 DEF Remembers
  <2>2. CASE WillEnd(j)
    <3>1. pc[j] \in {"check", "end"}
      BY <2>2 DEF WillEnd
    <3>2. mem[j].cond = mem[j].before[1] /\ Deferred(mem[j].cond) = mem[j].cond
      BY <1>0, <3>1 DEF Settled
    <3>3. Lists(mem[j].cond)
      BY <2>1 DEF HasConditions, Lists
    <3>4. SaysReady(ReadyWhenAllTrue(Mark(mem[j].cond, {"DeploymentReady"}, "True")))
      <4>1. SaysReady(Mark(mem[j].cond, {"DeploymentReady"}, "True"))
        BY <3>3 DEF Lists, SaysReady, Mark
      <4> QED
        BY <4>1, DeferredKeeps
    <3>5. CASE pc'[j] = "patch"
      BY <1>0, <3>1, <3>2, <3>4, <3>5, EndingStep
    <3>6. CASE pc'[j] # "patch"
      <4>1. mem'[j] = mem[j] /\ (pc'[j] = pc[j] \/ pc'[j] = "end")
        BY <1>0, <2>2, <3>1, <3>6, EndingStep DEF WillEnd
      <4> QED
        BY <2>2, <4>1 DEF WillEnd
    <3> QED
      BY <3>5, <3>6
  <2>3. CASE pc[j] = "patch"
    <3>1. pc'[j] = "patch" /\ mem'[j].cond = mem[j].cond /\ mem'[j].before = mem[j].before
      BY <1>4, <2>3 DEF Remembers
    <3>2. SaysReady(mem[j].cond) \/ Deferred(mem[j].cond) = mem[j].before[1]
      BY <1>0, <2>3, <3>1 DEF FindsAgain, WillEnd
    <3> QED
      BY <3>1, <3>2
  <2>4. SaysReady(cond[j]) \/ SaysReady(mem[j].cond) \/ pc[j] = "end"
    BY <1>0, <1>4 DEF Remembers
  <2> QED
    BY <1>0, <2>1, <2>2, <2>3, <2>4 DEF FindsAgain, WillEnd
<1> QED
  BY <1>2, <1>3, <1>4, MemoryStep

LEMMA AgainInvHolds ==
  ASSUME OneSpec, NamesDiffer
  PROVE  Spec => []AgainInv
<1>1. Init => AgainInv
  <2> SUFFICES ASSUME Init PROVE AgainInv
    OBVIOUS
  <2>1. \A i \in Instances : Resource(i).cond = NoConditions
    BY DEF Init, Resource
  <2>2. /\ \A i \in Instances : cond[i] = NoConditions /\ pc[i] = "idle"
        /\ crCache = [i \in Instances |-> Resource(i)]
    BY DEF Init
  <2>3. ~Lists(NoConditions) /\ Deferred(NoConditions) = NoConditions
    BY DEF Lists, NoConditions, Deferred
  <2>4. \A i \in Instances : Get(i).cond = NoConditions /\ ~SaysReady(cond[i])
    BY <2>1, <2>2, <2>3 DEF Get, SaysReady, Lists
  <2> QED
    BY <2>1, <2>2, <2>3, <2>4 DEF AgainInv, HasConditions, Settled, HasRead, FindsAgain
<1>2. ASSUME TypeInv, PassInv, LagInv, SaidInv, AgainInv, [Next]_vars PROVE AgainInv'
  <2>1. HasConditions'
    BY <1>2, HasConditionsStep DEF AgainInv
  <2>2. Settled'
    BY <1>2, SettledStep DEF AgainInv, Settled, Deferred, Mark, Mirror, SubConditions,
                             AllSubConditionIsTrue
  <2>3. HasRead'
    BY <1>2, HasReadStep DEF AgainInv, HasRead, Lists
  <2>4. FindsAgain'
    BY <1>2, FindsAgainStep DEF FindsAgain
  <2> QED
    BY <2>1, <2>2, <2>3, <2>4 DEF AgainInv
<1> QED
  BY <1>1, <1>2, TypeInvHolds, LagInvHolds, SaidInvHolds, PTL DEF Spec

(* When the specs are not changed, a result is not taken back, although    *)
(* the caches lag and a pass may compute the status it writes from one     *)
(* that was read before the result was written, and even when answers to   *)
(* CreatePod are lost.                                                     *)
THEOREM ResultIsKeptDespiteLag ==
  ASSUME OneSpec, NamesDiffer
  PROVE  Spec => ResultKept
<1>1. ASSUME TypeInv, AgainInv, [Next]_vars, NEW i \in Instances, Says(i, "True")
      PROVE  Says(i, "True")'
  <2>1. SaysReady(cond[i])
    BY <1>1 DEF Says, SaysReady
  <2>2. CASE cond'[i] = cond[i]
    BY <1>1, <2>2 DEF Says
  <2>3. CASE Patch(i) /\ cond'[i] # cond[i]
    <3>1. pc[i] = "patch" /\ i \notin gone
      BY <2>3 DEF Patch
    <3>2. cond'[i] = Deferred(mem[i].cond) /\ Deferred(mem[i].cond) # mem[i].before[1]
      BY <1>1, <2>3 DEF Patch, WriteStatus, NewStatus, TypeInv, ResourcesTyped
    <3>3. SaysReady(mem[i].cond)
      BY <1>1, <2>1, <3>1, <3>2 DEF AgainInv, FindsAgain, WillEnd
    <3>4. SaysReady(cond'[i])
      BY <3>2, <3>3, DeferredKeeps
    <3> QED
      BY <3>4 DEF Says, SaysReady
  <2> QED
    BY <1>1, <2>2, <2>3, StatusStep
<1>2. TypeInv /\ AgainInv /\ [Next]_vars
        => [\A i \in Instances :
              Says(i, "True") /\ Tested(i, gen[i]) /\ gen'[i] = gen[i]
                => Says(i, "True")']_vars
  BY <1>1
<1> QED
  BY <1>2, TypeInvHolds, AgainInvHolds, PTL DEF Spec, ResultKept

-----------------------------------------------------------------------------
(* The cache does not show every pod of i as done yet: there will be an    *)
(* event when it does.                                                     *)
Expecting(i) ==
    \E n \in OwnIn(i, pods) :
       n \in OwnIn(i, podCache) => podCache[n].phase # "Done"

(* The pod that a pass will create is not in the cache, unless an event    *)
(* says so.                                                                *)
CreatesNew ==
    \A i \in Instances \ gone : i \notin queued /\ WillCreate(i) =>
       \A n \in OwnIn(i, podCache) : podCache[n].step # mem[i].step

(* So whoever is not called expects an event, or has nothing left to do.   *)
VerifyExpects ==
    \A i \in Instances \ gone : i \notin queued /\ pc[i] = "verify" => Expecting(i)

EndExpects ==
    \A i \in Instances \ gone : EndsUnnoticed(i) =>
       \/ Expecting(i)
       \/ TestedIn(i, podCache) /\ SaysReady(mem[i].cond) /\ lockCache # i

IdleExpects ==
    \A i \in Instances \ gone : Unnoticed(i) /\ pc[i] = "idle" =>
       \/ Expecting(i)
       \/ TestedIn(i, podCache) /\ SaysReady(cond[i]) /\ lockCache # i

ExpectInv == CreatesNew /\ VerifyExpects /\ EndExpects /\ IdleExpects

(* A name belongs to one resource, so no pod in the cache changes hands.   *)
LEMMA SameCacheShows ==
  ASSUME NamesDiffer, TypeInv, LagInv, [Next]_vars, NEW i \in Instances, SameCache(i)
  PROVE  /\ OwnIn(i, podCache') = OwnIn(i, podCache)
         /\ \A n \in OwnIn(i, podCache) : podCache'[n] = podCache[n]
<1>1. \A n \in DOMAIN podCache : n[1] = Name[podCache[n].owner] /\ podCache[n].owner \in Instances
  BY DEF LagInv, NamedIn, TypeInv, PodsTyped, PodType
<1>2. \A n \in DOMAIN podCache' : n[1] = Name[podCache'[n].owner]
  BY NamedStep DEF LagInv, NamedIn
<1>3. ASSUME NEW n \in OwnIn(i, podCache') PROVE n \in OwnIn(i, podCache)
  <2>1. n \in DOMAIN podCache' /\ podCache'[n].owner = i
    BY <1>3 DEF OwnIn
  <2>2. n \in DOMAIN podCache
    BY <2>1 DEF SameCache
  <2>3. Name[podCache[n].owner] = Name[i] /\ podCache[n].owner \in Instances
    BY <1>1, <1>2, <2>1, <2>2
  <2>4. podCache[n].owner = i
    BY <2>3 DEF NamesDiffer
  <2> QED
    BY <2>2, <2>4 DEF OwnIn
<1> QED
  BY <1>3 DEF SameCache, OwnIn

(* What is expected goes on being expected until an event comes.           *)
LEMMA StillExpecting ==
  ASSUME OneSpec, NamesDiffer, TypeInv, LagInv, [Next]_vars,
         NEW i \in Instances \ gone', SameCache(i)
  PROVE  /\ Expecting(i) => Expecting(i)'
         /\ TestedIn(i, podCache) => TestedIn(i, podCache')
<1>1. /\ OwnIn(i, podCache') = OwnIn(i, podCache)
      /\ \A n \in OwnIn(i, podCache) : podCache'[n] = podCache[n]
  BY SameCacheShows
<1>2. Contains(i, pods', pods) /\ Contains(i, podCache', podCache)
  BY ViewsStep
<1>3. ASSUME Expecting(i) PROVE Expecting(i)'
  <2>1. PICK n \in OwnIn(i, pods) : n \in OwnIn(i, podCache) => podCache[n].phase # "Done"
    BY <1>3 DEF Expecting
  <2>2. n \in OwnIn(i, pods')
    BY <1>2 DEF Contains
  <2>3. n \in OwnIn(i, podCache') => podCache'[n].phase # "Done"
    BY <1>1, <2>1
  <2> QED
    BY <2>2, <2>3 DEF Expecting, OwnIn
<1> QED
  BY <1>2, <1>3, ContainsKeeps

LEMMA CreatesNewStep ==
  ASSUME OneSpec, NamesDiffer, TypeInv, PassInv, LagInv, CreatesNew, [Next]_vars,
         NEW i \in Instances \ gone', i \notin queued', WillCreate(i)',
         NEW n \in OwnIn(i, podCache')
  PROVE  podCache'[n].step # mem'[i].step
<1>0. i \in Instances \ gone
  BY GoneStaysGone
<1>1. CASE StartPass(i)
  <2>1. Get(i).gen = 1 /\ WorkflowLength(OnlySpec(i)) \in Nat
    BY OnlyGeneration DEF TypeInv
  <2>2. /\ pc'[i] = "check" /\ podCache' = podCache
        /\ \E d \in NextActions(i, OnlySpec(i), podCache) :
              mem'[i].action = d.action /\ mem'[i].step = d.step
    BY <1>1, <2>1, PassStarted DEF OnlySpec, podVars
  <2>3. PICK d \in NextActions(i, OnlySpec(i), podCache) :
              mem'[i].action = d.action /\ mem'[i].step = d.step
    BY <2>2
  <2>4. d.action \in {"CreateFirstPod", "CreateNextPod"}
    BY <2>2, <2>3 DEF WillCreate
  <2>5. InOrder(i, podCache) /\ PodsTyped(podCache)
    BY <1>0 DEF LagInv, ViewsInOrder, TypeInv
  <2>6. podCache[n].step < d.step
    BY <2>1, <2>2, <2>4, <2>5, DecisionInOrder
  <2>7. podCache[n].step \in Nat
    BY <2>2, <2>5, BoundsAssumption DEF OwnIn, PodsTyped, PodType
  <2> QED
    BY <2>2, <2>3, <2>6, <2>7
<1>2. CASE Proceeds(i)
  <2>1. mem'[i].step = mem[i].step /\ WillCreate(i)
    BY <1>2 DEF Proceeds, Dispatch, Go, Return, WillCreate, TypeInv, PassesTyped
  <2>2. pc[i] # "idle"
    BY <2>1 DEF WillCreate
  <2>3. i \notin queued /\ SameCache(i)
    BY <1>0, <2>2, PickAndPatch, PodsWatched
  <2> QED
    BY <1>0, <2>1, <2>3, SameCacheShows DEF CreatesNew
<1>3. pc'[i] \notin {"idle", "patch"}
  BY DEF WillCreate
<1> QED
  BY <1>1, <1>2, <1>3, PassesStep

(* A pass that got past CreatePod has created the pod, which the cache     *)
(* does not show as done.                                                  *)
LEMMA CreatedIsExpected ==
  ASSUME OneSpec, NamesDiffer, TypeInv, PassInv, LagInv, CreatesNew, [Next]_vars,
         NEW i \in Instances \ gone, i \notin queued', CreatePod(i), pc'[i] = "verify"
  PROVE  Expecting(i)'
<1>0. pc[i] = "create" /\ WillCreate(i) /\ SpecOf(i) = OnlySpec(i)
  <2>1. pc[i] = "create"
    BY DEF CreatePod
  <2> QED
    BY <2>1, OnlyGeneration DEF TypeInv, WillCreate
<1>1. i \notin queued
  BY <1>0, PickAndPatch, PodsWatched
<1>2. PodOf(i) \notin DOMAIN podCache
  <2> SUFFICES ASSUME PodOf(i) \in DOMAIN podCache PROVE FALSE
    OBVIOUS
  <2>1. podCache[PodOf(i)].owner = i
    <3>1. PodOf(i)[1] = Name[i]
      BY DEF PodOf, GetPodName
    <3>2. PodOf(i)[1] = Name[podCache[PodOf(i)].owner]
      BY DEF LagInv, NamedIn
    <3>3. podCache[PodOf(i)].owner \in Instances
      BY DEF TypeInv, PodsTyped, PodType
    <3> QED
      BY <3>1, <3>2, <3>3 DEF NamesDiffer
  <2>2. PodOf(i) \in OwnIn(i, podCache)
    BY <2>1 DEF OwnIn
  <2>3. /\ podCache[PodOf(i)].step \in Steps(OnlySpec(i))
        /\ PodOf(i) = GetPodName(i, OnlySpec(i), podCache[PodOf(i)].step)
    BY <2>2 DEF LagInv, ViewsInOrder, InOrder, FromSpec
  <2>4. PodOf(i) = GetPodName(i, OnlySpec(i), mem[i].step)
    BY <1>0 DEF PodOf
  <2>5. mem[i].step \in Steps(OnlySpec(i))
    BY <1>0 DEF LagInv, DecidedInOrder
  <2>6. podCache[PodOf(i)].step = mem[i].step
    BY <2>3, <2>4, <2>5 DEF GetPodName, Steps
  <2> QED
    BY <1>0, <1>1, <2>2, <2>6 DEF CreatesNew
<1>3. SetPods(WithPod(PodOf(i), NewPod(i)), queued)
  <2>1. Go(i, "fail") => pc'[i] = "fail"
    BY DEF Go, TypeInv, PassesTyped
  <2> QED
    BY <1>2, <2>1 DEF CreatePod
<1>4. PodOf(i) \in DOMAIN pods' /\ pods'[PodOf(i)] = NewPod(i) /\ CacheFollows
  BY <1>3, SetPodsFollowed DEF WithPod
<1>5. NewPod(i).owner = i /\ NewPod(i).phase # "Done"
  BY DEF NewPod
<1>6. PodOf(i) \in OwnIn(i, pods')
  BY <1>4, <1>5 DEF OwnIn
<1>7. PodOf(i) \in OwnIn(i, podCache') => podCache'[PodOf(i)].phase # "Done"
  BY <1>2, <1>4, <1>5 DEF OwnIn, CacheFollows
<1> QED
  BY <1>6, <1>7 DEF Expecting, OwnIn

LEMMA VerifyExpectsStep ==
  ASSUME OneSpec, NamesDiffer, TypeInv, PassInv, LagInv, ExpectInv, [Next]_vars,
         NEW i \in Instances \ gone', i \notin queued', pc'[i] = "verify"
  PROVE  Expecting(i)'
<1> USE DEF ExpectInv
<1>0. i \notin gone
  BY GoneStaysGone
<1>1. (pc[i] = "verify" \/ CreatePod(i)) /\ ~Pick(i)
  BY VerifyComesFrom
<1>2. CASE pc[i] = "verify"
  <2>1. i \notin queued /\ SameCache(i)
    BY <1>0, <1>1, PodsWatched
  <2> QED
    BY <1>0, <1>2, <2>1, StillExpecting DEF VerifyExpects
<1>3. CASE CreatePod(i)
  BY <1>0, <1>3, CreatedIsExpected
<1> QED
  BY <1>1, <1>2, <1>3

LEMMA EndExpectsStep ==
  ASSUME OneSpec, NamesDiffer, TypeInv, PassInv, LagInv, ReadInv, ExpectInv, [Next]_vars,
         NEW i \in Instances \ gone', EndsUnnoticed(i)'
  PROVE  \/ Expecting(i)'
         \/ TestedIn(i, podCache') /\ SaysReady(mem'[i].cond) /\ lockCache' # i
<1> USE DEF ExpectInv
<1>0. i \notin gone
  BY GoneStaysGone
<1>1. ~Pick(i) /\ ~Patch(i) /\ Unnoticed(i)'
  BY EndComesFrom DEF EndsUnnoticed
<1>2. Unnoticed(i) /\ SameCache(i) /\ (lockCache # i => lockCache' # i)
  BY <1>1, StillUnnoticed DEF ReadInv
<1>3. /\ Expecting(i) => Expecting(i)'
      /\ TestedIn(i, podCache) => TestedIn(i, podCache')
  BY <1>2, StillExpecting
<1>4. CASE pc'[i] = pc[i] /\ mem'[i] = mem[i]
  <2>1. EndsUnnoticed(i)
    BY <1>2, <1>4 DEF EndsUnnoticed, NewStatus
  <2> QED
    BY <1>0, <1>2, <1>3, <1>4, <2>1 DEF EndExpects
<1>5. CASE pc[i] = "verify"
  BY <1>0, <1>2, <1>3, <1>5 DEF VerifyExpects, Unnoticed
<1>6. CASE /\ pc[i] = "end" /\ lockCache = NoOwner
           /\ mem'[i].cond =
                ReadyWhenAllTrue(Mark(mem[i].cond, {"DeploymentReady"}, "True"))
  <2>1. TestedIn(i, podCache)
    BY <1>0, <1>6 DEF LagInv, DecidedInOrder, WillEnd
  <2>2. SaysReady(mem'[i].cond)
    BY <1>6, MarkSays DEF ReadInv, HasConditions
  <2> QED
    BY <1>2, <1>3, <1>6, <2>1, <2>2, NoOwnerAssumption
<1> QED
  BY <1>4, <1>5, <1>6, EndComesFrom

LEMMA IdleExpectsStep ==
  ASSUME OneSpec, NamesDiffer, TypeInv, PassInv, LagInv, ReadInv, ExpectInv, [Next]_vars,
         NEW i \in Instances \ gone', Unnoticed(i)', pc'[i] = "idle"
  PROVE  \/ Expecting(i)'
         \/ TestedIn(i, podCache') /\ SaysReady(cond'[i]) /\ lockCache' # i
<1> USE DEF ExpectInv, ReadInv
<1>0. i \notin gone
  BY GoneStaysGone
<1>1. CASE Patch(i)
  <2>1. /\ EndsUnnoticed(i)
        /\ cond'[i] = cond[i] /\ cond[i] = Deferred(mem[i].cond)
        /\ UNCHANGED <<gen, podVars, lockCache>>
    BY <1>0, <1>1, UnnoticedPatch
  <2>2. \/ Expecting(i)
        \/ TestedIn(i, podCache) /\ SaysReady(mem[i].cond) /\ lockCache # i
    BY <1>0, <2>1 DEF EndExpects
  <2>3. SameCache(i)
    BY <2>1 DEF SameCache, podVars
  <2> QED
    BY <2>1, <2>2, <2>3, StillExpecting, DeferredKeeps
<1>2. CASE pc[i] = "idle" /\ ~Pick(i) /\ ~Patch(i)
  <2>1. /\ Unnoticed(i) /\ SameCache(i) /\ cond'[i] = cond[i]
        /\ lockCache # i => lockCache' # i
    BY <1>2, StillUnnoticed
  <2> QED
    BY <1>0, <1>2, <2>1, StillExpecting DEF IdleExpects
<1> QED
  BY <1>1, <1>2, IdleComesFrom

LEMMA ExpectInvHolds ==
  ASSUME OneSpec, NamesDiffer
  PROVE  Spec => []ExpectInv
<1>1. Init => ExpectInv
  BY DEF Init, ExpectInv, CreatesNew, VerifyExpects, EndExpects, IdleExpects,
         EndsUnnoticed, Unnoticed
<1>2. ASSUME TypeInv, PassInv, LagInv, ReadInv, ExpectInv, [Next]_vars PROVE ExpectInv'
  <2>1. CreatesNew'
    BY <1>2, CreatesNewStep DEF ExpectInv, CreatesNew, OwnIn
  <2>2. VerifyExpects'
    BY <1>2, VerifyExpectsStep DEF VerifyExpects
  <2>3. EndExpects'
    BY <1>2, EndExpectsStep DEF EndExpects, TestedIn, OwnIn, OnlySpec, Steps,
                                WorkflowLength, SaysReady
  <2>4. IdleExpects'
    BY <1>2, IdleExpectsStep DEF IdleExpects, TestedIn, OwnIn, OnlySpec, Steps,
                                 WorkflowLength, SaysReady
  <2> QED
    BY <2>1, <2>2, <2>3, <2>4 DEF ExpectInv
<1> QED
  BY <1>1, <1>2, TypeInvHolds, LagInvHolds, ReadInvHolds, PTL DEF Spec

(* When the specs are not changed, no wake-up is lost also when the caches *)
(* lag: a pass that decides on fewer pods than there are, and stops        *)
(* without asking for a requeue, is called again by the event with which   *)
(* the cache shows the others; answers to CreatePod may be lost, too.      *)
THEOREM NoWakeupIsLostDespiteLag ==
  ASSUME OneSpec, NamesDiffer
  PROVE  Spec => []NoLostWakeup
<1>1. ASSUME TypeInv, LagInv, ExpectInv, Quiet, NEW i \in Instances \ gone
      PROVE  Finished(i)
  <2> USE <1>1
  <2>1. /\ Unnoticed(i) /\ pc[i] = "idle" /\ lockCache = lock /\ podCache = pods
        /\ \A n \in DOMAIN pods : pods[n].phase = "Done"
    BY DEF Quiet, Unnoticed
  <2>2. ~Expecting(i)
    BY <2>1 DEF Expecting, OwnIn
  <2>3. TestedIn(i, pods) /\ SaysReady(cond[i]) /\ lock # i
    BY <2>1, <2>2 DEF ExpectInv, IdleExpects
  <2>4. FromSpec(i, pods) /\ gen[i] = 1
    BY OnlyGeneration DEF LagInv, ViewsInOrder, InOrder, TypeInv
  <2>5. Tested(i, gen[i])
    BY <2>3, <2>4 DEF Tested, TestedIn, FromSpec, OwnIn, OnlySpec
  <2> QED
    BY <2>3, <2>5 DEF Finished, Says, SaysReady
<1>2. TypeInv /\ LagInv /\ ExpectInv => NoLostWakeup
  BY <1>1 DEF NoLostWakeup
<1> QED
  BY <1>2, TypeInvHolds, LagInvHolds, ExpectInvHolds, PTL
=============================================================================
