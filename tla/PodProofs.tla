------------------------------ MODULE PodProofs ------------------------------
(***************************************************************************)
(* Proofs about the test pods: which pods a pass finds when it decides to  *)
(* create one or to end the testing, and that the lock guards the pods of  *)
(* serial tests.  The pods are those the API server has; the results are   *)
(* about a pod cache that does not lag (of one that does they are false,   *)
(* as the run two_pods shows).                                             *)
(***************************************************************************)
EXTENDS ReconcileProofs

(* No two instances have one name, of whatever kinds they are.             *)
NamesDiffer == \A i, j \in Instances : Name[i] = Name[j] => i = j

(* The pods of an instance that are not being deleted.                     *)
OwnPods(i) == {n \in DOMAIN pods : pods[n].owner = i /\ ~pods[n].deleting}

-----------------------------------------------------------------------------
(* Among the pods of an instance only the one with the highest step is     *)
(* pending or running.                                                     *)
OnlyLastIsActive ==
    \A i \in Instances : \A n, m \in OwnPods(i) :
       Active(n) /\ m # n => pods[m].step < pods[n].step

(* The pass has decided to create a pod, or to end the testing.            *)
WillCreate(i) ==
    \/ pc[i] \in {"acquire", "prepare", "create"}
    \/ pc[i] = "check" /\ mem[i].action \in {"CreateFirstPod", "CreateNextPod"}

WillEnd(i) ==
    \/ pc[i] = "end"
    \/ pc[i] = "check" /\ mem[i].action = "EndTesting"

(* Nothing of it runs then, and the pod to come has a new step.            *)
NothingRuns ==
    \A i \in Instances : WillCreate(i) \/ WillEnd(i) =>
       \A n \in OwnPods(i) : ~Active(n)

StepIsNew ==
    \A i \in Instances : WillCreate(i) =>
       \A n \in OwnPods(i) : pods[n].step < mem[i].step

(* Only a step that may run beside others got past AcquireLock without the *)
(* lock.                                                                   *)
ParallelSkips ==
    \A i \in Instances : pc[i] \in {"prepare", "create"} /\ stage[i] = "parallel"
       => GetParallel(SpecOf(i), mem[i].step)

PodInv ==
    /\ podCache = pods
    /\ OnlyLastIsActive
    /\ NothingRuns
    /\ StepIsNew

(* A pass that releases the lock because CreatePod failed leaves no pod    *)
(* running.                                                                *)
FailedAlone ==
    \A i \in Instances : pc[i] = "fail" => \A n \in OwnPods(i) : ~Active(n)

GuardInv ==
    /\ FailedAlone
    /\ ParallelSkips
    /\ Orderly => SerialPodsOwnLock

-----------------------------------------------------------------------------
(* What a step does to the pods.  They grow older: none appears, none      *)
(* changes what it was created from, and none comes back from its end or   *)
(* from being deleted.                                                     *)
Age ==
    /\ DOMAIN pods' \subseteq DOMAIN pods
    /\ \A n \in DOMAIN pods' :
          /\ pods'[n].owner = pods[n].owner
          /\ pods'[n].step = pods[n].step
          /\ pods'[n].hash = pods[n].hash
          /\ pods[n].deleting => pods'[n].deleting
          /\ pods[n].phase = "Done" => pods'[n].phase = "Done"

(* Or one is created.                                                      *)
Creates(i) ==
    /\ pc[i] = "create"
    /\ PodOf(i) \notin DOMAIN pods
    /\ pods' = WithPod(PodOf(i), NewPod(i))
    /\ UNCHANGED <<lockVars, mem>>
    /\ \/ Go(i, "verify")
       \/ Go(i, "fail") /\ "podCreateReply" \in Faults

(* The cache shows all of it at once, or nothing if it may lag.            *)
CacheFollows ==
    \/ podCache' = pods'
    \/ podCache' = podCache /\ (Lagging \/ pods' = pods)

LEMMA SetPodsFollowed ==
  ASSUME NEW new, NEW queue, SetPods(new, queue)
  PROVE  pods' = new /\ CacheFollows
BY DEF SetPods, CacheFollows

LEMMA DeletePodsAge ==
  ASSUME PodsTyped(pods), NEW S, NEW queue, DeletePods(S, queue)
  PROVE  /\ Age
         /\ \A n \in DOMAIN pods' \cap S : pods'[n].deleting
         /\ \A n \in DOMAIN pods \ S : n \in DOMAIN pods' /\ pods'[n] = pods[n]
<1> DEFINE Left(D) == [n \in DOMAIN Without(D) |->
                         IF n \in S THEN [Without(D)[n] EXCEPT !.deleting = TRUE]
                                    ELSE Without(D)[n]]
<1>1. PICK D \in SUBSET S : SetPods(Left(D), queue)
  BY DEF DeletePods
<1>2. pods' = Left(D)
  BY <1>1 DEF SetPods
<1>3. /\ DOMAIN Without(D) = DOMAIN pods \ D
      /\ \A n \in DOMAIN pods \ D : Without(D)[n] = pods[n]
  BY DEF Without
<1>4. \A n \in DOMAIN pods : pods[n] \in PodType
  BY DEF PodsTyped
<1>5. \A pod \in PodType :
        LET new == [pod EXCEPT !.deleting = TRUE]
        IN  /\ new.owner = pod.owner /\ new.step = pod.step /\ new.hash = pod.hash
            /\ new.phase = pod.phase /\ new.deleting
  BY DEF PodType
<1>6. /\ DOMAIN pods' = DOMAIN pods \ D
      /\ \A n \in DOMAIN pods' : pods'[n] = IF n \in S THEN [pods[n] EXCEPT !.deleting = TRUE]
                                                       ELSE pods[n]
  BY <1>2, <1>3
<1>7. Age
  <2>1. ASSUME NEW n \in DOMAIN pods'
        PROVE  /\ pods'[n].owner = pods[n].owner /\ pods'[n].step = pods[n].step
               /\ pods'[n].hash = pods[n].hash /\ pods'[n].phase = pods[n].phase
               /\ pods[n].deleting => pods'[n].deleting
    <3>1. n \in DOMAIN pods /\ pods[n] \in PodType
      BY <1>4, <1>6, <2>1
    <3>2. CASE n \in S
      BY <1>5, <1>6, <2>1, <3>1, <3>2
    <3>3. CASE n \notin S
      BY <1>6, <2>1, <3>3
    <3> QED
      BY <3>2, <3>3
  <2> QED
    BY <1>6, <2>1 DEF Age
<1>8. \A n \in DOMAIN pods' \cap S : pods'[n].deleting
  BY <1>4, <1>5, <1>6
<1>9. \A n \in DOMAIN pods \ S : n \in DOMAIN pods' /\ pods'[n] = pods[n]
  BY <1>6
<1> QED
  BY <1>7, <1>8, <1>9

LEMMA RunPodAge ==
  ASSUME PodsTyped(pods), NEW n \in DOMAIN pods, RunPod(n)
  PROVE  Age
<1>1. PICK ph : pods' = [pods EXCEPT ![n] = [pods[n] EXCEPT !.phase = ph]]
  BY DEF RunPod, SetPods
<1>2. pods[n] \in PodType /\ pods[n].phase # "Done"
  BY DEF RunPod, PodsTyped
<1> QED
  BY <1>1, <1>2 DEF Age, PodType

LEMMA RemovePodAge ==
  ASSUME NEW n \in DOMAIN pods, RemovePod(n)
  PROVE  Age
BY DEF RemovePod, SetPods, Without, Age

(* Every step does one or the other, and the cache follows.                *)
LEMMA PodsStep ==
  ASSUME TypeInv, [Next]_vars
  PROVE  /\ CacheFollows
         /\ Age \/ \E i \in Instances : Creates(i)
<1> USE DEF TypeInv
<1>1. CASE UNCHANGED podVars
  BY <1>1 DEF podVars, Age, CacheFollows
<1>2. ASSUME NEW S, NEW queue, DeletePods(S, queue)
      PROVE  CacheFollows /\ Age
  BY <1>2, DeletePodsAge, SetPodsFollowed DEF DeletePods
<1>3. ASSUME NEW i \in Instances, CheckConfigChange(i) \/ CheckConfigChangeFails(i)
      PROVE  CacheFollows /\ Age
  BY <1>2, <1>3 DEF CheckConfigChange, CheckConfigChangeFails
<1>4. ASSUME NEW i \in Instances,
             CreatePod(i) \/ CreatePodFails(i) \/ CreatePodReplyLost(i)
      PROVE  CacheFollows /\ (Age \/ Creates(i))
  <2>1. CASE UNCHANGED podVars
    BY <1>1, <2>1 DEF podVars, Age, CacheFollows
  <2>2. CASE ~UNCHANGED podVars
    <3>1. SetPods(WithPod(PodOf(i), NewPod(i)), queued)
      BY <1>4, <2>2 DEF CreatePod, CreatePodFails, CreatePodReplyLost
    <3>2. Creates(i)
      BY <1>4, <2>2, <3>1, SetPodsFollowed
         DEF CreatePod, CreatePodFails, CreatePodReplyLost, Creates, Fault
    <3> QED
      BY <3>1, <3>2, SetPodsFollowed
  <2> QED
    BY <2>1, <2>2
<1>5. ASSUME NEW n \in DOMAIN pods, CollectPod(n) \/ RunPod(n) \/ RemovePod(n)
      PROVE  CacheFollows /\ Age
  <2>1. CASE CollectPod(n)
    BY <1>2, <2>1 DEF CollectPod
  <2>2. CASE RunPod(n)
    BY <2>2, RunPodAge, SetPodsFollowed DEF RunPod
  <2>3. CASE RemovePod(n)
    BY <2>3, RemovePodAge, SetPodsFollowed DEF RemovePod
  <2> QED
    BY <1>5, <2>1, <2>2, <2>3
<1>6. CASE DeliverPods \/ Restart
  BY <1>6 DEF DeliverPods, Restart, Age, CacheFollows
<1>7. ASSUME NEW i \in Instances, Work(i) \/ Fails(i)
      PROVE  CacheFollows /\ (Age \/ Creates(i))
  <2>1. CASE UNCHANGED podVars
    BY <2>1 DEF podVars, Age, CacheFollows
  <2> QED
    BY <1>3, <1>4, <1>7, <2>1
       DEF Work, Fails, Dispatch, Acquire, AcquireFails, Prepare, PrepareStops,
           PrepareFails, Verify, Release, ReleaseFails, Patch, PatchGone, PatchFails
<1>8. ASSUME NEW i \in Instances, Pick(i) \/ User(i) \/ DeliverCR(i)
      PROVE  UNCHANGED podVars
  BY <1>8 DEF Pick, SkipGone, Initialize, AddFinalizer, RemoveFinalizer,
              TakeForFinalizer, StartPass, User, UpdateSpec, DeleteResource,
              Provide, DeliverCR
<1>9. CASE DeliverLock \/ CollectGoneLock \/ DeleteLockByHand \/ UNCHANGED vars
  BY <1>1, <1>9 DEF DeliverLock, CollectGoneLock, DeleteLockByHand, vars
<1> QED
  BY <1>1, <1>5, <1>6, <1>7, <1>8, <1>9 DEF Next

-----------------------------------------------------------------------------
(* What a step does to a pass: it goes on with what it remembers.          *)
Proceeds(j) ==
    /\ mem'[j].gen = mem[j].gen /\ mem'[j].step = mem[j].step
    /\ mem'[j].action = mem[j].action /\ mem'[j].before = mem[j].before
    /\ \/ /\ pc'[j] = pc[j]
          /\ pc[j] \in {"prepare", "create"} => stage'[j] = stage[j]
       \/ Dispatch(j) /\ pc'[j] \in {"acquire", "end"}
       \/ /\ pc[j] = "acquire" /\ pc'[j] = "prepare"
          /\ stage'[j] = "parallel" => GetParallel(SpecOf(j), mem[j].step)
       \/ pc[j] = "prepare" /\ pc'[j] = "create" /\ stage'[j] = stage[j]
       \/ pc[j] = "create" /\ pc'[j] \in {"verify", "fail"}

(* The steps of the pass itself.                                           *)
LEMMA OwnPassStep ==
  ASSUME TypeInv, PassInv, NEW i \in Instances, Work(i) \/ Fails(i)
  PROVE  pc'[i] \in {"idle", "patch"} \/ Proceeds(i)
<1> USE DEF TypeInv, PassesTyped
<1>0. \A p : Go(i, p) => pc'[i] = p
  BY DEF Go
<1>1. ASSUME NEW c, NEW a, Return(i, c, a) PROVE pc'[i] = "patch"
  BY <1>0, <1>1 DEF Return
<1>2. CASE CheckConfigChange(i) \/ CheckConfigChangeFails(i)
  BY <1>1, <1>2 DEF CheckConfigChange, CheckConfigChangeFails
<1>3. CASE Dispatch(i)
  <2>1. \/ Return(i, mem[i].cond, TRUE)
        \/ (Go(i, "end") \/ Go(i, "acquire")) /\ UNCHANGED mem
    BY <1>3 DEF Dispatch
  <2> QED
    BY <1>0, <1>1, <1>3, <2>1 DEF Proceeds
<1>4. CASE Acquire(i) \/ AcquireFails(i)
  <2>1. pc[i] = "acquire" /\ AfterAcquire(i)
    BY <1>4 DEF Acquire, AcquireFails
  <2>2. CASE UNCHANGED passVars
    BY <2>1, <2>2 DEF passVars, Proceeds
  <2>3. CASE Go(i, "prepare") /\ UNCHANGED mem
    <3>1. stage'[i] = "parallel" => GetParallel(SpecOf(i), mem[i].step)
      <4>1. \A s : MoveTo(i, s) => stage'[i] = s
        BY DEF MoveTo, PassInv, PassFollowsLock
      <4>2. CreateLock(i) \/ CreateLockFails(i) => stage'[i] # "parallel"
        BY <4>1 DEF CreateLock, CreateLockFails
      <4>3. ASSUME NEW p, AcquireLock(i, p), stage'[i] = "parallel" PROVE p
        BY <4>1, <4>3 DEF AcquireLock
      <4> QED
        BY <1>4, <4>2, <4>3 DEF Acquire, AcquireFails
    <3> QED
      BY <1>0, <2>1, <2>3, <3>1 DEF Proceeds
  <2> QED
    BY <1>1, <2>1, <2>2, <2>3 DEF AfterAcquire
<1>5. CASE Prepare(i)
  <2>1. pc[i] = "prepare" /\ Go(i, "create") /\ UNCHANGED lockVars
    BY <1>5 DEF Prepare
  <2>2. PICK c : mem' = [mem EXCEPT ![i] = [mem[i] EXCEPT !.cond = c]]
    BY <1>5 DEF Prepare
  <2>3. /\ mem'[i].gen = mem[i].gen /\ mem'[i].step = mem[i].step
        /\ mem'[i].action = mem[i].action /\ mem'[i].before = mem[i].before
    BY <2>2 DEF MemType
  <2> QED
    BY <1>0, <2>1, <2>3 DEF Proceeds, lockVars
<1>6. CASE PrepareStops(i) \/ PrepareFails(i)
  BY <1>1, <1>6 DEF PrepareStops, PrepareFails, StopAt
<1>7. CASE CreatePod(i) \/ CreatePodFails(i) \/ CreatePodReplyLost(i)
  BY <1>0, <1>7 DEF CreatePod, CreatePodFails, CreatePodReplyLost, Proceeds
<1>8. CASE Verify(i)
  BY <1>1, <1>8 DEF Verify
<1>9. CASE Release(i) \/ ReleaseFails(i)
  <2>1. pc[i] \in {"end", "fail"} /\ AfterRelease(i)
    BY <1>9 DEF Release, ReleaseFails
  <2> QED
    BY <1>1, <2>1 DEF AfterRelease, passVars, Proceeds
<1>10. CASE Patch(i) \/ PatchGone(i) \/ PatchFails(i)
  BY <1>0, <1>10 DEF Patch, PatchGone, PatchFails, EndPass
<1> QED
  BY <1>2, <1>3, <1>4, <1>5, <1>6, <1>7, <1>8, <1>9, <1>10 DEF Work, Fails

(* The steps of others do not disturb a pass.                              *)
LEMMA OthersKept ==
  ASSUME TypeInv, PassInv, NEW i \in Instances, NEW j \in Instances \ {i},
         Work(i) \/ Fails(i) \/ Pick(i)
  PROVE  pc'[j] = pc[j] /\ mem'[j] = mem[j] /\ stage'[j] = stage[j]
<1> USE DEF TypeInv, PassesTyped, PassInv, PassFollowsLock
<1>1. \A p : Go(i, p) => pc'[j] = pc[j]
  BY DEF Go
<1>2. \A s : MoveTo(i, s) => stage'[j] = stage[j]
  BY DEF MoveTo
<1>3. ASSUME NEW m, mem' = [mem EXCEPT ![i] = m] PROVE mem'[j] = mem[j]
  BY <1>3
<1>4. ASSUME NEW c, NEW a, Return(i, c, a) PROVE pc'[j] = pc[j] /\ mem'[j] = mem[j]
  <2>1. mem' = [mem EXCEPT ![i] = [mem[i] EXCEPT !.cond = c, !.again = a]]
    BY <1>4 DEF Return
  <2> QED
    BY <1>1, <1>3, <1>4, <2>1 DEF Return
<1>5. CASE CheckConfigChange(i) \/ CheckConfigChangeFails(i)
  BY <1>4, <1>5 DEF CheckConfigChange, CheckConfigChangeFails, lockVars
<1>6. CASE Dispatch(i)
  BY <1>1, <1>4, <1>6 DEF Dispatch, lockVars
<1>7. CASE Acquire(i) \/ AcquireFails(i)
  <2>1. stage'[j] = stage[j]
    BY <1>2, <1>7 DEF Acquire, AcquireFails, AcquireLock, CreateLock, CreateLockFails
  <2> QED
    BY <1>1, <1>4, <1>7, <2>1 DEF Acquire, AcquireFails, AfterAcquire, passVars
<1>8. CASE Prepare(i)
  <2>1. PICK c : mem' = [mem EXCEPT ![i] = [mem[i] EXCEPT !.cond = c]]
    BY <1>8 DEF Prepare
  <2> QED
    BY <1>1, <1>3, <1>8, <2>1 DEF Prepare, lockVars
<1>9. CASE PrepareStops(i) \/ PrepareFails(i)
  BY <1>4, <1>9 DEF PrepareStops, PrepareFails, StopAt, lockVars
<1>10. CASE CreatePod(i) \/ CreatePodFails(i) \/ CreatePodReplyLost(i)
  BY <1>1, <1>10 DEF CreatePod, CreatePodFails, CreatePodReplyLost, lockVars
<1>11. CASE Verify(i)
  BY <1>4, <1>11 DEF Verify, lockVars
<1>12. CASE Release(i) \/ ReleaseFails(i)
  <2>1. stage'[j] = stage[j]
    BY <1>2, <1>12 DEF Release, ReleaseFails, ReleaseLock, DeleteLock,
                       DeleteLockFails, ConfirmRelease, GiveUpRelease
  <2> QED
    BY <1>4, <1>12, <2>1 DEF Release, ReleaseFails, AfterRelease, passVars
<1>13. CASE Patch(i) \/ PatchGone(i) \/ PatchFails(i)
  <2>1. EndPass(i)
    BY <1>13 DEF Patch, PatchGone, PatchFails
  <2> QED
    BY <1>1, <1>2, <1>3, <2>1 DEF EndPass, LeaveLock, lockVars
<1>14. CASE Initialize(i)
  <2>1. PICK m : mem' = [mem EXCEPT ![i] = m]
    BY <1>14 DEF Initialize
  <2> QED
    BY <1>1, <1>3, <1>14, <2>1 DEF Initialize, lockVars
<1>15. CASE StartPass(i)
  <2>1. PICK m : mem' = [mem EXCEPT ![i] = m]
    BY <1>15 DEF StartPass
  <2> QED
    BY <1>1, <1>3, <1>15, <2>1 DEF StartPass, lockVars
<1>16. CASE SkipGone(i) \/ AddFinalizer(i) \/ RemoveFinalizer(i)
  BY <1>16 DEF SkipGone, AddFinalizer, RemoveFinalizer, TakeForFinalizer,
               RemoveInstance, lockVars, passVars
<1> QED
  BY <1>5, <1>6, <1>7, <1>8, <1>9, <1>10, <1>11, <1>12, <1>13, <1>14, <1>15,
     <1>16 DEF Work, Fails, Pick

LEMMA OthersPassStep ==
  ASSUME TypeInv, PassInv, NEW i \in Instances, NEW j \in Instances \ {i},
         Work(i) \/ Fails(i) \/ Pick(i)
  PROVE  Proceeds(j)
BY OthersKept DEF Proceeds

(* A step ends a pass, starts it, or lets it go on.                        *)
LEMMA PassesStep ==
  ASSUME TypeInv, PassInv, [Next]_vars, NEW j \in Instances
  PROVE  pc'[j] \in {"idle", "patch"} \/ StartPass(j) \/ Proceeds(j)
<1>1. ASSUME pc'[j] = pc[j], mem'[j] = mem[j], stage'[j] = stage[j]
      PROVE  Proceeds(j)
  BY <1>1 DEF Proceeds
<1>2. ASSUME Pick(j) PROVE pc'[j] \in {"idle", "patch"} \/ StartPass(j)
  <2>1. pc[j] = "idle"
    BY <1>2 DEF Pick, SkipGone, Initialize, AddFinalizer, RemoveFinalizer,
                TakeForFinalizer, StartPass, Take
  <2>2. Initialize(j) => pc'[j] = "patch"
    BY DEF Initialize, Go, TypeInv, PassesTyped
  <2> QED
    BY <1>2, <2>1, <2>2 DEF Pick, SkipGone, AddFinalizer, RemoveFinalizer,
                            TakeForFinalizer, passVars
<1>3. ASSUME NEW i \in Instances, User(i) \/ DeliverCR(i) PROVE Proceeds(j)
  BY <1>1, <1>3 DEF User, UpdateSpec, DeleteResource, Provide, DeliverCR,
                    RemoveInstance, lockVars, passVars
<1>4. ASSUME NEW n \in DOMAIN pods, CollectPod(n) \/ RunPod(n) \/ RemovePod(n)
      PROVE  Proceeds(j)
  BY <1>1, <1>4 DEF CollectPod, RunPod, RemovePod, lockVars, passVars
<1>5. CASE DeliverLock \/ DeliverPods \/ CollectGoneLock \/ DeleteLockByHand
  BY <1>1, <1>5 DEF DeliverLock, DeliverPods, CollectGoneLock, DeleteLockByHand,
                    SyncLock, CollectLock, UserDeletesLock, lockVars, passVars
<1>6. CASE Restart
  BY <1>6 DEF Restart
<1>7. CASE UNCHANGED vars
  BY <1>1, <1>7 DEF vars, lockVars, passVars
<1> QED
  BY <1>2, <1>3, <1>4, <1>5, <1>6, <1>7, OwnPassStep, OthersPassStep DEF Next

-----------------------------------------------------------------------------
(* NextAction lists the pods of the instance and no others.                *)
LEMMA ListedAreOwn ==
  ASSUME NamesDiffer, PodsTyped(pods), NEW i \in Instances
  PROVE  Listed(i, pods) = OwnPods(i)
BY DEF NamesDiffer, PodsTyped, PodType, Listed, OwnPods

(* NextAction decides to create a pod or to end the testing only when no   *)
(* pod is pending or running, and the step it chooses is a new one.        *)
LEMMA DecisionIsSafe ==
  ASSUME NamesDiffer, PodsTyped(pods), OnlyLastIsActive,
         NEW i \in Instances, NEW spec \in SpecType,
         NEW d \in NextActions(i, spec, pods),
         d.action \in {"CreateFirstPod", "CreateNextPod", "EndTesting"}
  PROVE  /\ \A n \in OwnPods(i) : ~Active(n)
         /\ d.action # "EndTesting" => \A n \in OwnPods(i) : pods[n].step < d.step
<1>1. CASE OwnPods(i) = {}
  BY <1>1
<1>2. CASE OwnPods(i) # {}
  <2>1. PICK n \in LastPods(i, pods) : d = AfterPod(pods[n], WorkflowLength(spec))
    BY <1>2, ListedAreOwn DEF NextActions
  <2>2. n \in OwnPods(i) /\ \A m \in OwnPods(i) : pods[m].step <= pods[n].step
    BY <2>1, ListedAreOwn DEF LastPods
  <2>3. \A m \in OwnPods(i) : pods[m] \in PodType
    BY DEF OwnPods, PodsTyped
  <2>4. \A m \in OwnPods(i) : pods[m].step \in Nat /\ pods[m].phase \in Phases
    BY <2>3, BoundsAssumption DEF PodType
  <2>5. isLastPodIndex(pods[n].step, WorkflowLength(spec)) \in BOOLEAN
    BY DEF isLastPodIndex
  <2>6. pods[n].phase = "Done" /\ (d.action # "EndTesting" => d.step = pods[n].step + 1)
    BY <2>1, <2>2, <2>4, <2>5 DEF AfterPod, Decision, Phases
  <2>7. ~Active(n)
    BY <2>6 DEF Active
  <2>8. \A m \in OwnPods(i) : ~Active(m)
    <3> SUFFICES ASSUME NEW m \in OwnPods(i), Active(m) PROVE FALSE
      OBVIOUS
    <3>1. m # n
      BY <2>7
    <3>2. pods[n].step < pods[m].step
      BY <2>2, <3>1 DEF OnlyLastIsActive
    <3> QED
      BY <2>2, <2>4, <3>2
  <2> QED
    BY <2>2, <2>4, <2>6, <2>8
<1> QED
  BY <1>1, <1>2

(* The pods when one of them is created.                                   *)
LEMMA CreatedPods ==
  ASSUME NEW i \in Instances, Creates(i)
  PROVE  /\ DOMAIN pods' = DOMAIN pods \cup {PodOf(i)}
         /\ \A n \in DOMAIN pods : pods'[n] = pods[n]
         /\ pods'[PodOf(i)] = NewPod(i)
BY DEF Creates, WithPod

(* The new pod is the last one of its instance, and nothing else of it     *)
(* runs.                                                                   *)
LEMMA LastIsActiveStep ==
  ASSUME TypeInv, OnlyLastIsActive, NothingRuns, StepIsNew,
         Age \/ \E i \in Instances : Creates(i)
  PROVE  OnlyLastIsActive'
<1> SUFFICES ASSUME NEW j \in Instances, NEW n \in OwnPods(j)', NEW m \in OwnPods(j)',
                    Active(n)', m # n
             PROVE  pods'[m].step < pods'[n].step
  BY DEF OnlyLastIsActive
<1>1. CASE Age
  <2>1. n \in OwnPods(j) /\ m \in OwnPods(j) /\ Active(n)
    BY <1>1 DEF Age, OwnPods, Active
  <2> QED
    BY <1>1, <2>1 DEF Age, OnlyLastIsActive, OwnPods
<1>2. ASSUME NEW i \in Instances, Creates(i)
      PROVE  pods'[m].step < pods'[n].step
  <2> USE CreatedPods, <1>2
  <2>1. NewPod(i).owner = i /\ NewPod(i).step = mem[i].step
    BY DEF NewPod
  <2>2. WillCreate(i)
    BY DEF Creates, WillCreate
  <2>3. \A k \in OwnPods(j)' : k = PodOf(i) \/ (k \in OwnPods(j) /\ pods'[k] = pods[k])
    BY DEF OwnPods
  <2>4. PodOf(i) \in OwnPods(j)' => j = i
    BY <2>1 DEF OwnPods
  <2>5. CASE n = PodOf(i)
    BY <2>1, <2>2, <2>3, <2>4, <2>5 DEF StepIsNew
  <2>6. CASE n # PodOf(i) /\ m = PodOf(i)
    <3>1. n \in OwnPods(i) /\ Active(n)
      BY <2>3, <2>4, <2>6 DEF Active, OwnPods
    <3> QED
      BY <2>2, <3>1 DEF NothingRuns
  <2>7. CASE n # PodOf(i) /\ m # PodOf(i)
    <3>1. n \in OwnPods(j) /\ m \in OwnPods(j) /\ Active(n)
      BY <2>3, <2>7 DEF Active, OwnPods
    <3> QED
      BY <2>3, <2>7, <3>1 DEF OnlyLastIsActive
  <2> QED
    BY <2>5, <2>6, <2>7
<1> QED
  BY <1>1, <1>2

(* What StartPass remembers.                                               *)
LEMMA PassStarted ==
  ASSUME TypeInv, NEW i \in Instances, StartPass(i)
  PROVE  /\ pc'[i] = "check" /\ UNCHANGED <<lockVars, crVars, podVars>>
         /\ Specs[i][Get(i).gen] \in SpecType
         /\ mem'[i].gen = Get(i).gen /\ mem'[i].cond = Get(i).cond
         /\ mem'[i].before = Status(Get(i))
         /\ \E d \in NextActions(i, Specs[i][Get(i).gen], podCache) :
               mem'[i].action = d.action /\ mem'[i].step = d.step
<1> USE DEF TypeInv
<1>1. Get(i).gen \in Nat /\ 1 <= Get(i).gen /\ Get(i).gen <= Len(Specs[i])
  <2>1. /\ Get(i) \in ReadType /\ 1 <= Get(i).gen /\ Get(i).gen <= gen[i]
    BY GetType
  <2>2. Get(i).gen \in Nat
    BY <2>1 DEF ReadType
  <2> QED
    BY <2>1, <2>2, SpecsAssumption DEF ResourcesTyped
<1>2. Specs[i][Get(i).gen] \in SpecType
  BY <1>1, GenerationHasSpec
<1> QED
  BY <1>2 DEF StartPass, Go, PassesTyped

(* A pass that is about to create a pod or to release the lock decided so  *)
(* when nothing of its instance ran, and nothing was started since.        *)
LEMMA NothingRunsStep ==
  ASSUME NamesDiffer, TypeInv, PassInv, PodInv, [Next]_vars,
         Age \/ \E i \in Instances : Creates(i)
  PROVE  NothingRuns' /\ StepIsNew'
<1> SUFFICES ASSUME NEW j \in Instances, (WillCreate(j) \/ WillEnd(j))',
                    NEW n \in OwnPods(j)'
             PROVE  /\ ~Active(n)'
                    /\ WillCreate(j)' => pods'[n].step < mem'[j].step
  BY DEF NothingRuns, StepIsNew
<1> USE DEF PodInv, TypeInv
<1>1. pc'[j] \notin {"idle", "patch"}
  BY DEF WillCreate, WillEnd
<1>2. CASE StartPass(j)
  <2>1. PICK d \in NextActions(j, Specs[j][Get(j).gen], pods) :
          mem'[j].action = d.action /\ mem'[j].step = d.step
    BY <1>2, PassStarted
  <2>2. pc'[j] = "check" /\ pods' = pods /\ Specs[j][Get(j).gen] \in SpecType
    BY <1>2, PassStarted DEF podVars
  <2>3. d.action \in {"CreateFirstPod", "CreateNextPod", "EndTesting"}
    BY <2>1, <2>2 DEF WillCreate, WillEnd
  <2>4. OwnPods(j)' = OwnPods(j) /\ Active(n)' = Active(n)
    BY <2>2 DEF OwnPods, Active
  <2>5. WillCreate(j)' => d.action # "EndTesting"
    BY <2>1, <2>2 DEF WillCreate
  <2>6. /\ \A m \in OwnPods(j) : ~Active(m)
        /\ d.action # "EndTesting" => \A m \in OwnPods(j) : pods[m].step < d.step
    BY <2>1, <2>2, <2>3, DecisionIsSafe
  <2> QED
    BY <2>1, <2>2, <2>4, <2>5, <2>6
<1>3. CASE Proceeds(j)
  <2>1. /\ WillCreate(j) \/ WillEnd(j)
        /\ WillCreate(j)' => WillCreate(j)
        /\ mem'[j].step = mem[j].step
    BY <1>1, <1>3 DEF Proceeds, Dispatch, Go, Return, WillCreate, WillEnd,
                      PassesTyped
  <2>2. ASSUME n \in OwnPods(j), pods'[n].step = pods[n].step,
               Active(n)' => Active(n)
        PROVE  ~Active(n)' /\ (WillCreate(j)' => pods'[n].step < mem'[j].step)
    BY <2>1, <2>2 DEF NothingRuns, StepIsNew
  <2>3. CASE Age
    BY <2>2, <2>3 DEF Age, OwnPods, Active
  <2>4. ASSUME NEW i \in Instances, Creates(i), i # j
        PROVE  n \in OwnPods(j) /\ pods'[n] = pods[n]
    <3>1. NewPod(i).owner = i
      BY DEF NewPod
    <3> QED
      BY <2>4, <3>1, CreatedPods DEF OwnPods
  <2>5. ASSUME Creates(j) PROVE FALSE
    BY <1>1, <2>5 DEF Creates, Go, PassesTyped, WillCreate, WillEnd
  <2> QED
    BY <2>2, <2>3, <2>4, <2>5 DEF Active, OwnPods
<1> QED
  BY <1>1, <1>2, <1>3, PassesStep

(* What the pods are like when the cache does not lag, whatever fails.     *)
LEMMA PodInvHolds ==
  ASSUME ~Lagging, NamesDiffer
  PROVE  Spec => []PodInv
<1>1. Init => PodInv
  BY DEF Init, PodInv, OnlyLastIsActive, NothingRuns, StepIsNew, OwnPods,
         WillCreate, WillEnd
<1>2. ASSUME TypeInv, PassInv, PodInv, [Next]_vars
      PROVE  PodInv'
  <2>1. podCache' = pods' /\ (Age \/ \E i \in Instances : Creates(i))
    BY <1>2, PodsStep DEF PodInv, CacheFollows
  <2>2. OnlyLastIsActive'
    BY <1>2, <2>1, LastIsActiveStep DEF PodInv
  <2>3. NothingRuns' /\ StepIsNew'
    BY <1>2, <2>1, NothingRunsStep
  <2> QED
    BY <2>1, <2>2, <2>3 DEF PodInv
<1> QED
  BY <1>1, <1>2, TypeInvHolds, PTL DEF Spec

-----------------------------------------------------------------------------
(* A failed CreatePod started nothing, unless its answer was lost.         *)
LEMMA FailedAloneStep ==
  ASSUME "podCreateReply" \notin Faults, TypeInv, PassInv, PodInv, FailedAlone,
         [Next]_vars, Age \/ \E i \in Instances : Creates(i)
  PROVE  FailedAlone'
<1> SUFFICES ASSUME NEW j \in Instances, pc'[j] = "fail", NEW n \in OwnPods(j)'
             PROVE  ~Active(n)'
  BY DEF FailedAlone
<1>1. ~StartPass(j)
  BY PassStarted
<1>2. pc[j] \in {"create", "fail"}
  BY <1>1, PassesStep DEF Proceeds
<1>3. \A m \in OwnPods(j) : ~Active(m)
  BY <1>2 DEF FailedAlone, PodInv, NothingRuns, WillCreate
<1>4. CASE Age
  BY <1>3, <1>4 DEF Age, OwnPods, Active
<1>5. ASSUME NEW i \in Instances, Creates(i) PROVE i # j
  BY <1>5 DEF Creates, Go, TypeInv, PassesTyped
<1>6. ASSUME NEW i \in Instances, Creates(i) PROVE ~Active(n)'
  <2>1. NewPod(i).owner = i
    BY DEF NewPod
  <2> QED
    BY <1>3, <1>5, <1>6, <2>1, CreatedPods DEF OwnPods, Active
<1> QED
  BY <1>4, <1>6

(* A step that may not run beside others comes past AcquireLock only with  *)
(* the lock.                                                               *)
LEMMA ParallelSkipsStep ==
  ASSUME TypeInv, PassInv, ParallelSkips, [Next]_vars
  PROVE  ParallelSkips'
<1> SUFFICES ASSUME NEW j \in Instances, pc'[j] \in {"prepare", "create"},
                    stage'[j] = "parallel"
             PROVE  GetParallel(SpecOf(j), mem[j].step)'
  BY DEF ParallelSkips
<1>1. ~StartPass(j)
  BY PassStarted
<1>2. Proceeds(j)
  BY <1>1, PassesStep
<1>3. GetParallel(SpecOf(j), mem[j].step)
  BY <1>2 DEF Proceeds, ParallelSkips
<1> QED
  BY <1>2, <1>3 DEF Proceeds, SpecOf, GetParallel, WorkflowLength

(* The lock stays with the owner of a serial pod until the pod has ended.  *)
LEMMA SerialStep ==
  ASSUME Admitted = {}, TypeInv, PassInv, PodInv, GuardInv, LockTypeOK,
         HeldIsOwned, [Next]_vars, Age \/ \E i \in Instances : Creates(i), Orderly'
  PROVE  SerialPodsOwnLock'
<1> USE DEF PodInv, GuardInv
<1>1. [LockNext]_lockVars /\ Orderly /\ SerialPodsOwnLock
  BY ReconcileFollowsLock, OrderlyBefore
<1> SUFFICES ASSUME NEW n \in DOMAIN pods', Active(n)', Serial(n)',
                    pods'[n].owner \notin gone'
             PROVE  lock' = pods'[n].owner
  BY DEF SerialPodsOwnLock
<1>2. gone \subseteq gone'
  BY <1>1 DEF LockNext, StartLock, ContinueLock, AcquireLock, CreateLock,
       CreateLockFails, ReleaseLock, DeleteLock, DeleteLockFails,
       ConfirmRelease, GiveUpRelease, LeaveLock, LockEnvironment, SyncLock,
       RemoveInstance, CollectLock, UserDeletesLock, RestartLock, lockVars
<1>3. CASE Age
  <2>1. /\ n \in DOMAIN pods /\ Active(n) /\ pods'[n].owner = pods[n].owner
        /\ pods[n].owner \in Instances /\ n \in OwnPods(pods[n].owner)
    BY <1>3 DEF Age, Active, OwnPods, TypeInv, PodsTyped, PodType
  <2>2. Serial(n)
    BY <1>3 DEF Age, Serial, SpecOfPod, GetParallel, WorkflowLength
  <2>3. lock = pods[n].owner
    BY <1>1, <1>2, <2>1, <2>2 DEF SerialPodsOwnLock
  <2>4. lock \notin gone /\ lock # NoOwner
    BY <1>2, <2>1, <2>3, NoOwnerAssumption
  <2>5. stage[lock] # "delete"
    <3>1. stage[lock] = "delete" => pc[lock] \in {"end", "fail"}
      BY <2>1, <2>3 DEF PassInv, PassFollowsLock, StagesAt, PCs
    <3> QED
      BY <2>1, <2>3, <3>1 DEF NothingRuns, WillEnd, FailedAlone
  <2> QED
    BY <1>1, <2>1, <2>3, <2>4, <2>5, ReleaseStep
<1>4. ASSUME NEW i \in Instances, Creates(i)
      PROVE  lock' = pods'[n].owner
  <2>1. UNCHANGED <<lock, gone>>
    BY <1>4 DEF Creates, lockVars
  <2>2. CASE n \in DOMAIN pods
    <3>1. pods'[n] = pods[n]
      BY <1>4, <2>2, CreatedPods
    <3>2. Active(n) /\ Serial(n)
      BY <3>1 DEF Active, Serial, SpecOfPod, GetParallel, WorkflowLength
    <3> QED
      BY <1>1, <2>1, <2>2, <3>1, <3>2 DEF SerialPodsOwnLock
  <2>3. CASE n \notin DOMAIN pods
    <3>1. pods'[n] = NewPod(i)
      BY <1>4, <2>3, CreatedPods
    <3>2. /\ pods'[n].owner = i /\ pods'[n].step = mem[i].step
          /\ pods'[n].hash[2] = SpecOf(i)
      BY <3>1 DEF NewPod, CalculateConfigHash
    <3>3. ~GetParallel(SpecOf(i), mem[i].step)
      BY <3>2 DEF Serial, SpecOfPod, GetParallel, WorkflowLength
    <3>4. pc[i] = "create" /\ stage[i] \in {"held", "parallel"}
      BY <1>4 DEF Creates, PassInv, PassFollowsLock, StagesAt
    <3>5. stage[i] = "held"
      BY <3>3, <3>4 DEF ParallelSkips
    <3> QED
      BY <1>1, <2>1, <3>2, <3>5 DEF HeldIsOwned
  <2> QED
    BY <2>2, <2>3
<1> QED
  BY <1>3, <1>4

LEMMA GuardInvHolds ==
  ASSUME Admitted = {}, ~Lagging, "podCreateReply" \notin Faults, NamesDiffer
  PROVE  Spec => []GuardInv
<1>1. Init => GuardInv
  BY DEF Init, GuardInv, FailedAlone, ParallelSkips, SerialPodsOwnLock
<1>2. ASSUME TypeInv, PassInv, PodInv, GuardInv, LockTypeOK, HeldIsOwned, [Next]_vars
      PROVE  GuardInv'
  <2>1. Age \/ \E i \in Instances : Creates(i)
    BY <1>2, PodsStep DEF PodInv, CacheFollows
  <2>2. FailedAlone'
    BY <1>2, <2>1, FailedAloneStep DEF GuardInv
  <2>3. ParallelSkips'
    BY <1>2, ParallelSkipsStep DEF GuardInv
  <2>4. Orderly' => SerialPodsOwnLock'
    BY <1>2, <2>1, SerialStep
  <2> QED
    BY <2>2, <2>3, <2>4 DEF GuardInv
<1> QED
  BY <1>1, <1>2, TypeInvHolds, PodInvHolds, ReconcileExclusion, PTL DEF Spec

(* The lock guards the pods: as long as no resource without the finalizer  *)
(* has been deleted, the owner of a serial pod that is pending or running  *)
(* owns the lock.  All steps of all passes may interleave and fail, the    *)
(* lock cache and the custom resources may lag, and the operator may       *)
(* restart.                                                                *)
THEOREM SerialPodsGuarded ==
  ASSUME Admitted = {}, ~Lagging, "podCreateReply" \notin Faults, NamesDiffer
  PROVE  Spec => [](Orderly => SerialPodsOwnLock)
BY GuardInvHolds, PTL DEF GuardInv

(* A resource ceases to exist through the pass that takes its finalizer    *)
(* off, or right when the user deletes it.                                 *)
LEMMA WhoGoes ==
  ASSUME [Next]_vars
  PROVE  \/ UNCHANGED gone
         \/ \E i \in Instances : RemoveFinalizer(i) \/ DeleteResource(i)
<1>1. ASSUME NEW i \in Instances, Work(i)
      PROVE  UNCHANGED gone
  <2>1. CASE Acquire(i)
    BY <2>1 DEF Acquire, AcquireLock, CreateLock
  <2>2. CASE Release(i)
    BY <2>2 DEF Release, ReleaseLock, DeleteLock, ConfirmRelease, GiveUpRelease
  <2>3. CASE Patch(i) \/ PatchGone(i)
    BY <2>3 DEF Patch, PatchGone, EndPass, LeaveLock, lockVars
  <2> QED
    BY <1>1, <2>1, <2>2, <2>3 DEF Work, CheckConfigChange, Dispatch, Prepare,
       PrepareStops, CreatePod, Verify, lockVars
<1>2. ASSUME NEW i \in Instances, Fails(i)
      PROVE  UNCHANGED gone
  BY <1>2 DEF Fails, CheckConfigChangeFails, AcquireFails, CreateLockFails,
       PrepareFails, CreatePodFails, CreatePodReplyLost, ReleaseFails,
       DeleteLockFails, PatchFails, EndPass, LeaveLock, lockVars
<1>3. ASSUME NEW i \in Instances, Pick(i) \/ User(i) \/ DeliverCR(i),
             ~RemoveFinalizer(i), ~DeleteResource(i)
      PROVE  UNCHANGED gone
  BY <1>3 DEF Pick, User, SkipGone, Initialize, AddFinalizer, StartPass,
       UpdateSpec, Provide, DeliverCR, lockVars
<1>4. ASSUME NEW n \in DOMAIN pods, CollectPod(n) \/ RunPod(n) \/ RemovePod(n)
      PROVE  UNCHANGED gone
  BY <1>4 DEF CollectPod, RunPod, RemovePod, lockVars
<1>5. ASSUME \/ DeliverLock \/ DeliverPods \/ CollectGoneLock
             \/ DeleteLockByHand \/ Restart \/ UNCHANGED vars
      PROVE  UNCHANGED gone
  BY <1>5 DEF DeliverLock, DeliverPods, CollectGoneLock, DeleteLockByHand,
       Restart, SyncLock, CollectLock, UserDeletesLock, RestartLock, lockVars, vars
<1> QED
  BY <1>1, <1>2, <1>3, <1>4, <1>5 DEF Next

(* When only resources with the finalizer may be deleted, no other is.     *)
LEMMA OrderlyHolds ==
  ASSUME Removable \subseteq Finalized
  PROVE  Spec => []Orderly
<1>1. Init => Orderly
  BY DEF Init, LockInit, Orderly
<1>2. Orderly /\ [Next]_vars => Orderly'
  <2> SUFFICES ASSUME Orderly, [Next]_vars PROVE Orderly'
    OBVIOUS
  <2>1. ASSUME NEW i \in Instances, RemoveFinalizer(i) \/ DeleteResource(i)
        PROVE  Orderly'
    BY <2>1 DEF RemoveFinalizer, DeleteResource, RemoveInstance, Orderly,
                Finalized, lockVars
  <2>2. CASE UNCHANGED gone
    BY <2>2 DEF Orderly
  <2> QED
    BY <2>1, <2>2, WhoGoes
<1> QED
  BY <1>1, <1>2, PTL DEF Spec

(* Then the lock always guards the pods.                                   *)
THEOREM SerialPodsAlwaysGuarded ==
  ASSUME Admitted = {}, ~Lagging, "podCreateReply" \notin Faults, NamesDiffer,
         Removable \subseteq Finalized
  PROVE  Spec => []SerialPodsOwnLock
BY OrderlyHolds, SerialPodsGuarded, PTL

(* At most one serial pod is pending or running, of all kinds and          *)
(* instances together.                                                     *)
OneSerialPod ==
    \A m, n \in DOMAIN pods :
       (/\ Active(m) /\ Serial(m) /\ pods[m].owner \notin gone
        /\ Active(n) /\ Serial(n) /\ pods[n].owner \notin gone) => m = n

(* So serial pods run one at a time: what docs/source/guide.rst:234 says,  *)
(* for pods that are not being deleted and a pod cache that does not lag.  *)
THEOREM OneSerialPodAtATime ==
  ASSUME Admitted = {}, ~Lagging, "podCreateReply" \notin Faults, NamesDiffer,
         Removable \subseteq Finalized
  PROVE  Spec => []OneSerialPod
<1>1. ASSUME TypeInv, PodInv, SerialPodsOwnLock PROVE OneSerialPod
  <2> SUFFICES ASSUME NEW m \in DOMAIN pods, NEW n \in DOMAIN pods, m # n,
                      Active(m), Serial(m), pods[m].owner \notin gone,
                      Active(n), Serial(n), pods[n].owner \notin gone
               PROVE  FALSE
    BY DEF OneSerialPod
  <2>1. pods[m].owner = pods[n].owner
    BY <1>1 DEF SerialPodsOwnLock
  <2>2. PICK i \in Instances : m \in OwnPods(i) /\ n \in OwnPods(i)
    BY <1>1, <2>1 DEF TypeInv, PodsTyped, PodType, OwnPods, Active
  <2>3. pods[m].step < pods[n].step /\ pods[n].step < pods[m].step
    BY <1>1, <2>2 DEF PodInv, OnlyLastIsActive
  <2>4. pods[m].step \in Nat /\ pods[n].step \in Nat
    BY <1>1, BoundsAssumption DEF TypeInv, PodsTyped, PodType
  <2> QED
    BY <2>3, <2>4
<1> QED
  BY <1>1, TypeInvHolds, PodInvHolds, SerialPodsAlwaysGuarded, PTL
=============================================================================
