--------------------------- MODULE WorkflowProofs ---------------------------
(***************************************************************************)
(* Proofs about workflows, for a pod cache that does not lag: the steps    *)
(* run in order, and DeploymentReady becomes True only when every pod of   *)
(* the spec is done.  A failed Delete request of CheckConfigChange may     *)
(* leave a later step without the earlier ones, which count again when the *)
(* spec is changed back; so either that does not happen or no spec comes   *)
(* back (LeftoversAreOld).                                                 *)
(***************************************************************************)
EXTENDS PodProofs

-----------------------------------------------------------------------------
(* A resource is not given one spec twice.                                 *)
SpecsDiffer ==
    \A i \in Instances : \A g, h \in DOMAIN Specs[i] :
       Specs[i][g] = Specs[i][h] => g = h

(* Pods that a failed Delete request of CheckConfigChange leaves are of a  *)
(* spec that does not come back.                                           *)
LeftoversAreOld == "podDelete" \notin Faults \/ SpecsDiffer

(* The pods of a resource that exists were created from one spec,          *)
SameSpec ==
    \A i \in Instances \ gone : \A m, n \in OwnPods(i) :
       pods[m].hash = pods[n].hash

(* and the steps before each are there,                                    *)
StepsBefore(i, step) ==
    \A s \in Nat : s < step => \E m \in OwnPods(i) : pods[m].step = s

(* unless a Delete request of CheckConfigChange failed: then what is left  *)
(* is from a spec that no pass will read again.                            *)
InPass(i) == pc[i] \notin {"idle", "patch"}

LeastRead(i) == IF InPass(i) THEN mem[i].gen ELSE Get(i).gen

Outdated(i, n) ==
    \A g \in DOMAIN Specs[i] :
       g >= LeastRead(i) => pods[n].hash # CalculateConfigHash(i, Specs[i][g])

NoStepSkipped ==
    \A i \in Instances \ gone : \A n \in OwnPods(i) :
       StepsBefore(i, pods[n].step) \/ Outdated(i, n)

(* No pass reads a generation older than one that pods were created from.  *)
PodsAreOlder ==
    \A i \in Instances \ gone : \A n \in OwnPods(i) :
       \E g \in DOMAIN Specs[i] :
          g <= LeastRead(i) /\ pods[n].hash = CalculateConfigHash(i, Specs[i][g])

ReadIsOlder ==
    \A i \in Instances : InPass(i) => mem[i].gen <= Get(i).gen

(* A pass that goes on after CheckConfigChange has compared that spec with *)
(* the one it has read.                                                    *)
SpecCompared ==
    \A i \in Instances \ gone : pc[i] \in {"acquire", "prepare", "create", "end"} =>
       \A n \in OwnPods(i) : pods[n].hash = CalculateConfigHash(i, SpecOf(i))

(* What NextAction found holds until the pass acts on it.                  *)
Differs(i) ==
    \E n \in OwnPods(i) : pods[n].hash # CalculateConfigHash(i, SpecOf(i))

StepIsNext ==
    \A i \in Instances \ gone : WillCreate(i) =>
       StepsBefore(i, mem[i].step) \/ Differs(i)

LastIsThere ==
    \A i \in Instances \ gone : WillEnd(i) =>
       \E n \in OwnPods(i) : isLastPodIndex(pods[n].step, WorkflowLength(SpecOf(i)))

OrderInv ==
    /\ SameSpec
    /\ ReadIsOlder
    /\ PodsAreOlder
    /\ NoStepSkipped
    /\ SpecCompared
    /\ StepIsNext
    /\ LastIsThere

-----------------------------------------------------------------------------
(* What the pass compares the new status with is the status, when the      *)
(* custom resources do not lag.                                            *)
BeforeIsCurrent ==
    \A i \in Instances : pc[i] # "idle" => mem[i].before = <<cond[i], observed[i]>>

SaysReady(c) == "DeploymentReady" \in DOMAIN c /\ c["DeploymentReady"] = "True"

(* The pods of generation g are there, done and not being deleted.         *)
AllDone(i, g) ==
    \A s \in Steps(Specs[i][g]) : \E n \in OwnPods(i) :
       /\ pods[n].hash = CalculateConfigHash(i, Specs[i][g])
       /\ pods[n].step = s
       /\ pods[n].phase = "Done"

(* A pass that is about to say that the tests are done, which was not said *)
(* before, has found them done.                                            *)
ReadyIsEarned ==
    \A i \in Instances \ gone :
       pc[i] # "idle" /\ SaysReady(mem[i].cond) /\ ~SaysReady(cond[i])
         => pc[i] = "patch" /\ AllDone(i, mem[i].gen)

EarnedInv == BeforeIsCurrent /\ ReadyIsEarned

-----------------------------------------------------------------------------
(* A step keeps the pods of an instance and what they are.                 *)
Keeps(j) ==
    /\ OwnPods(j)' = OwnPods(j)
    /\ \A n \in OwnPods(j) : /\ pods'[n].step = pods[n].step
                             /\ pods'[n].hash = pods[n].hash
                             /\ pods[n].phase = "Done" => pods'[n].phase = "Done"

(* CheckConfigChange deletes them, all or some of an old spec.             *)
Drops(j) ==
    /\ OwnPods(j)' \subseteq OwnPods(j)
    /\ \A n \in OwnPods(j)' : /\ pods'[n].step = pods[n].step
                              /\ pods'[n].hash = pods[n].hash
    /\ pc[j] = "check" /\ pc'[j] = "patch"
    /\ OwnPods(j)' = {} \/ ("podDelete" \in Faults /\ Differs(j))

(* A Delete request to pods of others, or to none that still counts.       *)
LEMMA DeletionKeeps ==
  ASSUME PodsTyped(pods), NEW S, NEW queue, DeletePods(S, queue),
         NEW j \in Instances, S \cap OwnPods(j) = {}
  PROVE  Keeps(j)
<1>1. /\ Age
      /\ \A n \in DOMAIN pods \ S : n \in DOMAIN pods' /\ pods'[n] = pods[n]
  BY DeletePodsAge
<1> QED
  BY <1>1 DEF Keeps, Age, OwnPods

(* What a step does to the pods of an instance that exists: nothing that   *)
(* matters, unless CheckConfigChange deletes them or a pass of the instance *)
(* creates one.                                                            *)
LEMMA UncheckedPodsStep ==
  ASSUME TypeInv, [Next]_vars, NEW j \in Instances \ gone,
         \A i \in Instances : ~CheckConfigChange(i) /\ ~CheckConfigChangeFails(i)
  PROVE  Keeps(j) \/ Creates(j)
<1> USE DEF TypeInv
<1>1. CASE UNCHANGED pods
  BY <1>1 DEF Keeps, OwnPods
<1>2. ASSUME NEW i \in Instances, Creates(i), i # j PROVE Keeps(j)
  <2>1. NewPod(i).owner = i /\ PodOf(i) \notin DOMAIN pods
    BY <1>2 DEF NewPod, Creates
  <2> QED
    BY <1>2, <2>1, CreatedPods DEF Keeps, OwnPods
<1>3. ASSUME NEW n \in DOMAIN pods, CollectPod(n) PROVE Keeps(j)
  <2>1. {n} \cap OwnPods(j) = {}
    BY <1>3 DEF CollectPod, OwnPods
  <2> QED
    BY <1>3, <2>1, DeletionKeeps DEF CollectPod
<1>4. ASSUME NEW n \in DOMAIN pods, RunPod(n) PROVE Keeps(j)
  <2>1. PICK ph : pods' = [pods EXCEPT ![n] = [pods[n] EXCEPT !.phase = ph]]
    BY <1>4 DEF RunPod, SetPods
  <2>2. pods[n] \in PodType /\ pods[n].phase # "Done"
    BY <1>4 DEF RunPod, PodsTyped
  <2>3. /\ DOMAIN pods' = DOMAIN pods
        /\ \A m \in DOMAIN pods : /\ pods'[m].owner = pods[m].owner
                                  /\ pods'[m].deleting = pods[m].deleting
                                  /\ pods'[m].step = pods[m].step
                                  /\ pods'[m].hash = pods[m].hash
                                  /\ pods[m].phase = "Done" => pods'[m].phase = "Done"
    BY <2>1, <2>2 DEF PodType
  <2> QED
    BY <2>3 DEF Keeps, OwnPods
<1>5. ASSUME NEW n \in DOMAIN pods, RemovePod(n) PROVE Keeps(j)
  BY <1>5 DEF RemovePod, SetPods, Without, Keeps, OwnPods
<1>6. ASSUME NEW i \in Instances, Work(i) \/ Fails(i)
      PROVE  Keeps(j) \/ Creates(j)
  <2>1. CASE CreatePod(i) \/ CreatePodFails(i) \/ CreatePodReplyLost(i)
    <3>1. UNCHANGED pods \/ Creates(i)
      BY <2>1, SetPodsFollowed
         DEF CreatePod, CreatePodFails, CreatePodReplyLost, Creates, Fault, podVars
    <3> QED
      BY <1>1, <1>2, <3>1
  <2>2. CASE UNCHANGED podVars
    BY <1>1, <2>2 DEF podVars
  <2> QED
    BY <1>6, <2>1, <2>2
       DEF Work, Fails, Dispatch, Acquire, AcquireFails, Prepare, PrepareStops,
           PrepareFails, Verify, Release, ReleaseFails, Patch, PatchGone, PatchFails
<1>7. ASSUME NEW i \in Instances, Pick(i) \/ User(i) \/ DeliverCR(i)
      PROVE  Keeps(j)
  <2>1. UNCHANGED podVars
    BY <1>7 DEF Pick, SkipGone, Initialize, AddFinalizer, RemoveFinalizer,
                TakeForFinalizer, StartPass, User, UpdateSpec, DeleteResource,
                Provide, DeliverCR
  <2> QED
    BY <2>1 DEF podVars, Keeps, OwnPods
<1>8. CASE \/ DeliverPods \/ Restart \/ DeliverLock \/ CollectGoneLock
           \/ DeleteLockByHand \/ UNCHANGED vars
  BY <1>1, <1>8 DEF DeliverPods, Restart, DeliverLock, CollectGoneLock,
                     DeleteLockByHand, vars, podVars
<1> QED
  BY <1>3, <1>4, <1>5, <1>6, <1>7, <1>8 DEF Next

LEMMA OwnPodsStep ==
  ASSUME NamesDiffer, TypeInv, podCache = pods, [Next]_vars, NEW j \in Instances \ gone
  PROVE  Drops(j) \/ Keeps(j) \/ Creates(j)
<1> USE DEF TypeInv
<1>1. ASSUME NEW i \in Instances, CheckConfigChange(i) \/ CheckConfigChangeFails(i)
      PROVE  Drops(j) \/ Keeps(j)
  <2>1. Listed(i, podCache) \cap DOMAIN pods = OwnPods(i)
    BY ListedAreOwn DEF OwnPods
  <2>2. PICK S \in SUBSET OwnPods(i) :
          DeletePods(S, queued) /\ (S = OwnPods(i) \/ "podDelete" \in Faults)
    BY <1>1, <2>1 DEF CheckConfigChange, CheckConfigChangeFails, Fault
  <2>3. CASE i = j
    <3>1. /\ Age
          /\ \A n \in DOMAIN pods' \cap S : pods'[n].deleting
      BY <2>2, DeletePodsAge
    <3>2. /\ OwnPods(j)' \subseteq OwnPods(j)
          /\ \A n \in OwnPods(j)' : /\ pods'[n].step = pods[n].step
                                    /\ pods'[n].hash = pods[n].hash
          /\ S = OwnPods(i) => OwnPods(j)' = {}
      BY <2>3, <3>1 DEF Age, OwnPods
    <3>3. pc[j] = "check" /\ pc'[j] = "patch"
      <4>1. pc[i] = "check" /\ Go(i, "patch")
        BY <1>1 DEF CheckConfigChange, CheckConfigChangeFails, Return
      <4> QED
        BY <2>3, <4>1 DEF Go, PassesTyped
    <3>4. Differs(j)
      <4>1. TRUE \in ConfigChanged(j, SpecOf(j), pods)
        BY <1>1, <2>3 DEF CheckConfigChange, CheckConfigChangeFails
      <4> QED
        BY <4>1, ListedAreOwn DEF ConfigChanged, Differs
    <3> QED
      BY <2>2, <3>2, <3>3, <3>4 DEF Drops
  <2>4. CASE i # j
    <3>1. S \cap OwnPods(j) = {}
      BY <2>4 DEF OwnPods
    <3> QED
      BY <2>2, <3>1, DeletionKeeps
  <2> QED
    BY <2>3, <2>4
<1> QED
  BY <1>1, UncheckedPodsStep

(* What CreatePod adds.                                                    *)
LEMMA OwnPodsCreated ==
  ASSUME NEW i \in Instances, Creates(i)
  PROVE  /\ OwnPods(i)' = OwnPods(i) \cup {PodOf(i)}
         /\ \A n \in OwnPods(i) : pods'[n] = pods[n]
         /\ pods'[PodOf(i)].step = mem[i].step
         /\ pods'[PodOf(i)].hash = CalculateConfigHash(i, SpecOf(i))
<1>1. /\ NewPod(i).owner = i /\ ~NewPod(i).deleting /\ NewPod(i).step = mem[i].step
      /\ NewPod(i).hash = CalculateConfigHash(i, SpecOf(i))
  BY DEF NewPod
<1> QED
  BY <1>1, CreatedPods DEF OwnPods

-----------------------------------------------------------------------------
(* What a pass reads has a spec.                                           *)
LEMMA GetHasSpec ==
  ASSUME ResourcesTyped, CacheTyped, NEW i \in Instances
  PROVE  Get(i).gen \in DOMAIN Specs[i] /\ Get(i).gen \in Nat
<1>1. Get(i).gen \in Nat /\ 1 <= Get(i).gen /\ Get(i).gen <= gen[i]
  BY GetType DEF ReadType
<1>2. gen[i] \in Nat /\ gen[i] <= Len(Specs[i]) /\ Len(Specs[i]) \in Nat
  BY SpecsAssumption DEF ResourcesTyped
<1> QED
  BY <1>1, <1>2, GenerationHasSpec

(* What NextAction decides, when there are no gaps between the pods.       *)
LEMMA DecisionIsNext ==
  ASSUME NamesDiffer, PodsTyped(pods), NEW i \in Instances,
         NEW spec \in SpecType, NEW d \in NextActions(i, spec, pods)
  PROVE  /\ /\ d.action \in {"CreateFirstPod", "CreateNextPod"}
            /\ \A n \in OwnPods(i) : StepsBefore(i, pods[n].step)
            => StepsBefore(i, d.step)
         /\ d.action = "EndTesting" =>
              \E n \in OwnPods(i) : isLastPodIndex(pods[n].step, WorkflowLength(spec))
<1>1. CASE OwnPods(i) = {}
  <2>1. d = Decision("CreateFirstPod", 0)
    BY <1>1, ListedAreOwn DEF NextActions
  <2> QED
    BY <2>1 DEF Decision, StepsBefore
<1>2. CASE OwnPods(i) # {}
  <2>1. PICK n \in LastPods(i, pods) : d = AfterPod(pods[n], WorkflowLength(spec))
    BY <1>2, ListedAreOwn DEF NextActions
  <2>2. n \in OwnPods(i)
    BY <2>1, ListedAreOwn DEF LastPods
  <2>3. pods[n] \in PodType
    BY <2>2 DEF OwnPods, PodsTyped
  <2>4. pods[n].step \in Nat /\ pods[n].phase \in Phases
    BY <2>3, BoundsAssumption DEF PodType
  <2>5. isLastPodIndex(pods[n].step, WorkflowLength(spec)) \in BOOLEAN
    BY DEF isLastPodIndex
  <2>6. /\ d.action \in {"CreateFirstPod", "CreateNextPod"} => d.step = pods[n].step + 1
        /\ d.action = "EndTesting" => isLastPodIndex(pods[n].step, WorkflowLength(spec))
    BY <2>1, <2>4, <2>5 DEF AfterPod, Decision, Phases
  <2>7. ASSUME StepsBefore(i, pods[n].step) PROVE StepsBefore(i, pods[n].step + 1)
    <3> SUFFICES ASSUME NEW s \in Nat, s < pods[n].step + 1
                 PROVE  \E m \in OwnPods(i) : pods[m].step = s
      BY DEF StepsBefore
    <3>1. CASE s = pods[n].step
      BY <2>2, <3>1
    <3>2. CASE s < pods[n].step
      BY <2>7, <3>2 DEF StepsBefore
    <3> QED
      BY <2>4, <3>1, <3>2
  <2> QED
    BY <2>2, <2>6, <2>7
<1> QED
  BY <1>1, <1>2

(* Generations grow, and the cache shows what there was or what there is.  *)
LEMMA ResourceGrows ==
  ASSUME TypeInv, [Next]_vars, NEW j \in Instances
  PROVE  /\ gen'[j] \in Nat /\ gen'[j] >= gen[j]
         /\ crCache'[j] = crCache[j] \/ crCache'[j] = Resource(j)
<1> USE DEF TypeInv, ResourcesTyped, CacheTyped
<1> DEFINE Grows == /\ gen'[j] \in Nat /\ gen'[j] >= gen[j]
                    /\ crCache'[j] = crCache[j] \/ crCache'[j] = Resource(j)
<1>1. ASSUME UNCHANGED <<gen, crCache>> PROVE Grows
  BY <1>1
<1>2. ASSUME NEW i \in Instances, User(i) \/ DeliverCR(i)
      PROVE  Grows
  <2>1. gen' = gen \/ gen' = [gen EXCEPT ![i] = @ + 1]
    BY <1>2 DEF User, UpdateSpec, DeleteResource, Provide, DeliverCR, crVars,
                resourceVars
  <2>2. crCache' = crCache \/ crCache' = [crCache EXCEPT ![i] = Resource(i)]
    BY <1>2 DEF User, UpdateSpec, DeleteResource, Provide, DeliverCR, crVars
  <2>3. gen'[j] \in Nat /\ gen'[j] >= gen[j]
    BY <2>1
  <2>4. crCache'[j] = crCache[j] \/ crCache'[j] = Resource(j)
    BY <2>2
  <2> QED
    BY <2>3, <2>4
<1>3. ASSUME Restart PROVE Grows
  <2>1. UNCHANGED gen
    BY <1>3 DEF Restart, resourceVars
  <2>2. crCache'[j] = crCache[j] \/ crCache'[j] = Resource(j)
    BY <1>3 DEF Restart
  <2> QED
    BY <2>1, <2>2
<1>4. ASSUME NEW i \in Instances, Pick(i) \/ Work(i) \/ Fails(i)
      PROVE  UNCHANGED <<gen, crCache>>
  BY <1>4 DEF Pick, SkipGone, Initialize, AddFinalizer, RemoveFinalizer,
       TakeForFinalizer, StartPass, Work, Fails, CheckConfigChange,
       CheckConfigChangeFails, Dispatch, Acquire, AcquireFails, Prepare,
       PrepareStops, PrepareFails, CreatePod, CreatePodFails, CreatePodReplyLost,
       Verify, Release, ReleaseFails, Patch, PatchGone, PatchFails, crVars,
       resourceVars
<1>5. ASSUME NEW n \in DOMAIN pods, CollectPod(n) \/ RunPod(n) \/ RemovePod(n)
      PROVE  UNCHANGED <<gen, crCache>>
  BY <1>5 DEF CollectPod, RunPod, RemovePod, crVars, resourceVars
<1>6. ASSUME \/ DeliverLock \/ DeliverPods \/ CollectGoneLock \/ DeleteLockByHand
             \/ UNCHANGED vars
      PROVE  UNCHANGED <<gen, crCache>>
  BY <1>6 DEF DeliverLock, DeliverPods, CollectGoneLock, DeleteLockByHand,
                    vars, crVars, resourceVars
<1> QED
  BY <1>1, <1>2, <1>3, <1>4, <1>5, <1>6 DEF Next

LEMMA GetGrows ==
  ASSUME TypeInv, [Next]_vars, NEW j \in Instances
  PROVE  Get(j)'.gen \in Nat /\ Get(j)'.gen >= Get(j).gen
<1>1. crCache[j].gen \in Nat /\ crCache[j].gen <= gen[j] /\ Resource(j).gen = gen[j]
  BY DEF TypeInv, CacheTyped, ReadType, Resource
<1>2. gen[j] \in Nat /\ Resource(j)'.gen = gen'[j]
  BY DEF TypeInv, ResourcesTyped, Resource
<1> QED
  BY <1>1, <1>2, ResourceGrows DEF Get

(* So no pass reads a generation again once a newer one was read.          *)
LEMMA LeastReadGrows ==
  ASSUME TypeInv, PassInv, ReadIsOlder, [Next]_vars, NEW j \in Instances
  PROVE  /\ LeastRead(j) \in Nat /\ LeastRead(j)' \in Nat
         /\ LeastRead(j) <= LeastRead(j)'
         /\ InPass(j)' => mem'[j].gen <= Get(j)'.gen
<1>1. Get(j).gen \in Nat /\ mem[j].gen \in Nat
  BY GetType DEF TypeInv, ReadType, PassesTyped, MemType
<1>2. Get(j)'.gen \in Nat /\ Get(j)'.gen >= Get(j).gen
  BY GetGrows
<1>3. CASE StartPass(j)
  <2>1. pc[j] = "idle" /\ pc'[j] = "check" /\ mem'[j].gen = Get(j).gen
    BY <1>3, PassStarted DEF StartPass, Take
  <2> QED
    BY <1>1, <1>2, <2>1 DEF LeastRead, InPass
<1>4. CASE Proceeds(j) /\ pc'[j] \notin {"idle", "patch"}
  <2>1. pc[j] \notin {"idle", "patch"} /\ mem'[j].gen = mem[j].gen
    BY <1>4 DEF Proceeds, Dispatch
  <2> QED
    BY <1>1, <1>2, <1>4, <2>1 DEF LeastRead, InPass, ReadIsOlder
<1>5. CASE pc'[j] \in {"idle", "patch"}
  BY <1>1, <1>2, <1>5 DEF LeastRead, InPass, ReadIsOlder
<1> QED
  BY <1>3, <1>4, <1>5, PassesStep

(* What is outdated stays so.                                              *)
LEMMA StaysOutdated ==
  ASSUME TypeInv, PassInv, ReadIsOlder, [Next]_vars, NEW j \in Instances, NEW n,
         Outdated(j, n), pods'[n].hash = pods[n].hash
  PROVE  Outdated(j, n)'
<1>1. ASSUME NEW g \in DOMAIN Specs[j], g >= LeastRead(j)'
      PROVE  pods[n].hash # CalculateConfigHash(j, Specs[j][g])
  <2>1. g \in Nat
    BY SpecsAssumption
  <2> QED
    BY <1>1, <2>1, LeastReadGrows DEF Outdated
<1> QED
  BY <1>1 DEF Outdated, CalculateConfigHash

(* The pods that a failed Delete request leaves are outdated.              *)
LEMMA LeftoversOutdated ==
  ASSUME SpecsDiffer, TypeInv, OrderInv, NEW j \in Instances \ gone,
         pc[j] = "check", Differs(j), NEW n \in OwnPods(j)
  PROVE  Outdated(j, n)
<1>1. LeastRead(j) = mem[j].gen /\ mem[j].gen \in DOMAIN Specs[j]
  BY PassHasSpec DEF LeastRead, InPass, TypeInv
<1>2. pods[n].hash # CalculateConfigHash(j, Specs[j][mem[j].gen])
  BY DEF Differs, OrderInv, SameSpec, SpecOf
<1>3. PICK g \in DOMAIN Specs[j] :
        g <= mem[j].gen /\ pods[n].hash = CalculateConfigHash(j, Specs[j][g])
  BY <1>1 DEF OrderInv, PodsAreOlder
<1>4. g # mem[j].gen
  BY <1>2, <1>3
<1>5. ASSUME NEW h \in DOMAIN Specs[j], h >= mem[j].gen
      PROVE  pods[n].hash # CalculateConfigHash(j, Specs[j][h])
  <2>1. g # h
    <3>1. g \in Nat /\ h \in Nat /\ mem[j].gen \in Nat
      BY <1>1, SpecsAssumption
    <3> QED
      BY <1>3, <1>4, <1>5, <3>1
  <2>2. Specs[j][g] # Specs[j][h]
    BY <2>1 DEF SpecsDiffer
  <2> QED
    BY <1>3, <2>2 DEF CalculateConfigHash
<1> QED
  BY <1>1, <1>5 DEF Outdated

(* The pods of a pass that has compared the specs are not.                 *)
LEMMA ComparedIsCurrent ==
  ASSUME TypeInv, OrderInv, NEW j \in Instances \ gone,
         pc[j] \in {"acquire", "prepare", "create", "end"}
  PROVE  /\ \A n \in OwnPods(j) : StepsBefore(j, pods[n].step)
         /\ WillCreate(j) => StepsBefore(j, mem[j].step)
<1>1. LeastRead(j) = mem[j].gen /\ mem[j].gen \in DOMAIN Specs[j]
  BY PassHasSpec DEF LeastRead, InPass, TypeInv
<1>2. mem[j].gen \in Nat
  BY DEF TypeInv, PassesTyped, MemType
<1>3. \A n \in OwnPods(j) : pods[n].hash = CalculateConfigHash(j, SpecOf(j))
  BY DEF OrderInv, SpecCompared
<1>4. \A n \in OwnPods(j) : ~Outdated(j, n)
  BY <1>1, <1>2, <1>3 DEF Outdated, SpecOf
<1> QED
  BY <1>3, <1>4 DEF OrderInv, NoStepSkipped, StepIsNext, Differs

(* The pods keep pace with what passes read.                               *)
LEMMA PodsAreOlderStep ==
  ASSUME ~Lagging, NamesDiffer, TypeInv, PassInv, PodInv, OrderInv, [Next]_vars,
         gone \subseteq gone'
  PROVE  ReadIsOlder' /\ PodsAreOlder'
<1>1. ReadIsOlder'
  BY LeastReadGrows DEF OrderInv, ReadIsOlder
<1>2. ASSUME NEW j \in Instances \ gone', NEW n \in OwnPods(j)'
      PROVE  \E g \in DOMAIN Specs[j] :
                g <= LeastRead(j)' /\ pods'[n].hash = CalculateConfigHash(j, Specs[j][g])
  <2>1. /\ LeastRead(j) \in Nat /\ LeastRead(j)' \in Nat
        /\ LeastRead(j) <= LeastRead(j)'
    BY LeastReadGrows DEF OrderInv
  <2>2. CASE n \in OwnPods(j) /\ pods'[n].hash = pods[n].hash
    <3>1. PICK g \in DOMAIN Specs[j] :
            g <= LeastRead(j) /\ pods[n].hash = CalculateConfigHash(j, Specs[j][g])
      BY <1>2, <2>2 DEF OrderInv, PodsAreOlder
    <3>2. g \in Nat
      BY SpecsAssumption
    <3> QED
      BY <2>1, <2>2, <3>1, <3>2
  <2>3. CASE Creates(j) /\ n = PodOf(j)
    <3>1. pods'[n].hash = CalculateConfigHash(j, SpecOf(j))
      BY <2>3, OwnPodsCreated
    <3>2. /\ pc[j] = "create" /\ pc'[j] \in {"verify", "fail"} /\ mem' = mem
      BY <2>3 DEF Creates, Go, TypeInv, PassesTyped
    <3>3. LeastRead(j)' = mem[j].gen /\ mem[j].gen \in DOMAIN Specs[j]
      BY <3>2, PassHasSpec DEF LeastRead, InPass, TypeInv
    <3> QED
      BY <2>1, <3>1, <3>3 DEF SpecOf
  <2> QED
    BY <1>2, <2>2, <2>3, OwnPodsStep, OwnPodsCreated DEF Keeps, Drops, PodInv
<1> QED
  BY <1>1, <1>2 DEF PodsAreOlder, CalculateConfigHash

(* A creation adds the step after the last.                                *)
LEMMA PodsInOrderStep ==
  ASSUME ~Lagging, NamesDiffer, LeftoversAreOld, TypeInv, PassInv, PodInv,
         OrderInv, [Next]_vars, gone \subseteq gone'
  PROVE  SameSpec' /\ NoStepSkipped'
<1> SUFFICES ASSUME NEW j \in Instances \ gone', NEW m \in OwnPods(j)',
                    NEW n \in OwnPods(j)'
             PROVE  /\ pods'[m].hash = pods'[n].hash
                    /\ StepsBefore(j, pods[n].step)' \/ Outdated(j, n)'
  BY DEF SameSpec, NoStepSkipped
<1>0. j \notin gone
  OBVIOUS
<1> USE DEF OrderInv
<1>1. CASE Keeps(j)
  <2>1. /\ m \in OwnPods(j) /\ n \in OwnPods(j) /\ pods'[n].step = pods[n].step
        /\ pods'[n].hash = pods[n].hash /\ pods'[m].hash = pods[m].hash
    BY <1>1 DEF Keeps
  <2>2. CASE StepsBefore(j, pods[n].step)
    <3>1. \A s \in Nat : s < pods[n].step => \E k \in OwnPods(j)' : pods'[k].step = s
      BY <1>1, <2>2 DEF StepsBefore, Keeps
    <3> QED
      BY <1>0, <2>1, <3>1 DEF SameSpec, StepsBefore
  <2>3. CASE Outdated(j, n)
    BY <1>0, <2>1, <2>3, StaysOutdated DEF SameSpec
  <2> QED
    BY <1>0, <2>1, <2>2, <2>3 DEF NoStepSkipped
<1>2. CASE Creates(j)
  <2>1. pc[j] = "create" /\ WillCreate(j)
    BY <1>2 DEF Creates, WillCreate
  <2>2. \A k \in OwnPods(j) : pods[k].hash = CalculateConfigHash(j, SpecOf(j))
    BY <1>0, <2>1 DEF SpecCompared
  <2>3. \A k \in OwnPods(j)' : pods'[k].hash = CalculateConfigHash(j, SpecOf(j))
    BY <1>2, <2>2, OwnPodsCreated
  <2>4. ASSUME NEW st, StepsBefore(j, st)
        PROVE  \A s \in Nat : s < st => \E k \in OwnPods(j)' : pods'[k].step = s
    BY <1>2, <2>4, OwnPodsCreated DEF StepsBefore
  <2>5. StepsBefore(j, mem[j].step) /\ \A k \in OwnPods(j) : StepsBefore(j, pods[k].step)
    BY <1>0, <2>1, ComparedIsCurrent
  <2>6. \A s \in Nat : s < pods'[n].step => \E k \in OwnPods(j)' : pods'[k].step = s
    BY <1>2, <2>4, <2>5, OwnPodsCreated
  <2> QED
    BY <2>3, <2>6 DEF StepsBefore
<1>3. CASE Drops(j)
  <2>1. /\ m \in OwnPods(j) /\ n \in OwnPods(j)
        /\ pods'[n].hash = pods[n].hash /\ pods'[m].hash = pods[m].hash
        /\ pc[j] = "check" /\ Differs(j) /\ "podDelete" \in Faults
    BY <1>3 DEF Drops
  <2>2. Outdated(j, n)
    BY <1>0, <2>1, LeftoversOutdated DEF LeftoversAreOld
  <2> QED
    BY <1>0, <2>1, <2>2, StaysOutdated DEF SameSpec
<1> QED
  BY <1>0, <1>1, <1>2, <1>3, OwnPodsStep DEF PodInv

(* What a pass has found, and compared, stays so until it acts on it.      *)
LEMMA PassInOrderStep ==
  ASSUME ~Lagging, NamesDiffer, TypeInv, PassInv, PodInv, OrderInv, [Next]_vars,
         gone \subseteq gone'
  PROVE  SpecCompared' /\ StepIsNext' /\ LastIsThere'
<1> SUFFICES ASSUME NEW j \in Instances \ gone', pc'[j] \notin {"idle", "patch"}
             PROVE  /\ pc'[j] \in {"acquire", "prepare", "create", "end"} =>
                         \A n \in OwnPods(j)' :
                            pods'[n].hash = CalculateConfigHash(j, SpecOf(j)')
                    /\ WillCreate(j)' => StepsBefore(j, mem[j].step)' \/ Differs(j)'
                    /\ WillEnd(j)' => \E n \in OwnPods(j)' :
                         isLastPodIndex(pods'[n].step, WorkflowLength(SpecOf(j)'))
  BY DEF SpecCompared, StepIsNext, LastIsThere, WillCreate, WillEnd,
         CalculateConfigHash, isLastPodIndex, WorkflowLength
<1> USE DEF OrderInv, PodInv
<1>0. j \notin gone
  OBVIOUS
<1>1. CASE Creates(j)
  BY <1>1 DEF Creates, Go, TypeInv, PassesTyped, WillCreate, WillEnd
<1>2. CASE StartPass(j)
  <2>1. PICK d \in NextActions(j, Specs[j][Get(j).gen], pods) :
          mem'[j].action = d.action /\ mem'[j].step = d.step
    BY <1>2, PassStarted
  <2>2. /\ pc'[j] = "check" /\ pods' = pods /\ Specs[j][Get(j).gen] \in SpecType
        /\ mem'[j].gen = Get(j).gen
    BY <1>2, PassStarted DEF podVars
  <2>3. OwnPods(j)' = OwnPods(j) /\ SpecOf(j)' = Specs[j][Get(j).gen]
    BY <2>2 DEF OwnPods, SpecOf
  <2>4. ASSUME NEW n \in OwnPods(j), Outdated(j, n) PROVE Differs(j)'
    <3>1. LeastRead(j) = Get(j).gen
      BY <1>2 DEF StartPass, Take, LeastRead, InPass
    <3>2. Get(j).gen \in DOMAIN Specs[j] /\ Get(j).gen \in Nat
      BY GetHasSpec DEF TypeInv
    <3>3. pods[n].hash # CalculateConfigHash(j, Specs[j][Get(j).gen])
      BY <2>4, <3>1, <3>2 DEF Outdated
    <3> QED
      BY <2>2, <2>3, <2>4, <3>3 DEF Differs, CalculateConfigHash
  <2>5. d.action = "EndTesting" => \E n \in OwnPods(j) :
             isLastPodIndex(pods[n].step, WorkflowLength(Specs[j][Get(j).gen]))
    BY <2>1, <2>2, DecisionIsNext DEF TypeInv
  <2>6. ASSUME d.action \in {"CreateFirstPod", "CreateNextPod"}
        PROVE  StepsBefore(j, d.step) \/ Differs(j)'
    <3>1. CASE \A n \in OwnPods(j) : StepsBefore(j, pods[n].step)
      BY <2>1, <2>2, <2>6, <3>1, DecisionIsNext DEF TypeInv
    <3> QED
      BY <1>0, <2>4, <3>1 DEF NoStepSkipped
  <2>7. StepsBefore(j, d.step) => StepsBefore(j, mem[j].step)'
    BY <2>1, <2>2, <2>3 DEF StepsBefore
  <2> QED
    BY <2>1, <2>2, <2>3, <2>5, <2>6, <2>7 DEF WillCreate, WillEnd
<1>3. CASE Keeps(j) /\ Proceeds(j)
  <2>1. /\ SpecOf(j)' = SpecOf(j) /\ mem'[j].step = mem[j].step
        /\ WillCreate(j)' => WillCreate(j)
        /\ WillEnd(j)' => WillEnd(j)
    BY <1>3 DEF Proceeds, Dispatch, Go, Return, WillCreate, WillEnd, SpecOf,
                TypeInv, PassesTyped
  <2>2. ASSUME Dispatch(j)
        PROVE  \A n \in OwnPods(j) : pods[n].hash = CalculateConfigHash(j, SpecOf(j))
    <3>1. FALSE \in ConfigChanged(j, SpecOf(j), pods)
      BY <2>2 DEF Dispatch
    <3>2. CASE OwnPods(j) = {}
      BY <3>2
    <3>3. CASE OwnPods(j) # {}
      <4>1. PICK m \in OwnPods(j) : FALSE = (pods[m].hash # CalculateConfigHash(j, SpecOf(j)))
        BY <3>1, <3>3, ListedAreOwn DEF ConfigChanged, TypeInv
      <4> QED
        BY <1>0, <4>1 DEF SameSpec
    <3> QED
      BY <3>2, <3>3
  <2>3. pc'[j] \in {"acquire", "prepare", "create", "end"} =>
          \A n \in OwnPods(j) : pods[n].hash = CalculateConfigHash(j, SpecOf(j))
    BY <1>0, <1>3, <2>2 DEF Proceeds, SpecCompared
  <2>4. pc'[j] \in {"acquire", "prepare", "create", "end"} =>
          \A n \in OwnPods(j)' : pods'[n].hash = CalculateConfigHash(j, SpecOf(j)')
    BY <1>3, <2>1, <2>3 DEF Keeps
  <2>5. WillCreate(j)' => StepsBefore(j, mem[j].step)' \/ Differs(j)'
    <3>1. WillCreate(j) => StepsBefore(j, mem[j].step) \/ Differs(j)
      BY <1>0 DEF StepIsNext
    <3>2. StepsBefore(j, mem[j].step) => StepsBefore(j, mem[j].step)'
      BY <1>3, <2>1 DEF StepsBefore, Keeps
    <3>3. Differs(j) => Differs(j)'
      BY <1>3, <2>1 DEF Differs, Keeps, CalculateConfigHash
    <3> QED
      BY <2>1, <3>1, <3>2, <3>3
  <2>6. WillEnd(j)' => \E n \in OwnPods(j)' :
          isLastPodIndex(pods'[n].step, WorkflowLength(SpecOf(j)'))
    <3>1. WillEnd(j) => \E n \in OwnPods(j) :
            isLastPodIndex(pods[n].step, WorkflowLength(SpecOf(j)))
      BY <1>0 DEF LastIsThere
    <3> QED
      BY <1>3, <2>1, <3>1 DEF Keeps
  <2> QED
    BY <2>4, <2>5, <2>6
<1> QED
  BY <1>0, <1>1, <1>2, <1>3, OwnPodsStep, PassesStep DEF Drops

(* The steps of the lock protocol never bring a resource back.             *)
LEMMA GoneStaysGone ==
  ASSUME [Next]_vars
  PROVE  gone \subseteq gone'
BY WhoGoes DEF RemoveFinalizer, DeleteResource, RemoveInstance, lockVars

LEMMA OrderInvHolds ==
  ASSUME ~Lagging, NamesDiffer, LeftoversAreOld
  PROVE  Spec => []OrderInv
<1>1. Init => OrderInv
  BY DEF Init, OrderInv, SameSpec, ReadIsOlder, InPass, PodsAreOlder,
         NoStepSkipped, SpecCompared, StepIsNext, LastIsThere, OwnPods, WillCreate,
         WillEnd
<1>2. TypeInv /\ PassInv /\ PodInv /\ OrderInv /\ [Next]_vars => OrderInv'
  BY GoneStaysGone, PodsAreOlderStep, PodsInOrderStep, PassInOrderStep DEF OrderInv
<1> QED
  BY <1>1, <1>2, TypeInvHolds, PodInvHolds, PTL DEF Spec

(* Workflow steps run one after the other: a pod is created when the pods  *)
(* of its instance are those of the earlier steps of the same spec, all of *)
(* them done, whatever interleaves, fails or restarts, even when the       *)
(* answer to CreatePod is lost and when the custom resources lag.          *)
THEOREM WorkflowInOrder ==
  ASSUME ~Lagging, NamesDiffer, LeftoversAreOld,
         Removable \subseteq Finalized
  PROVE  Spec => StepsInOrder
<1> DEFINE Earlier(n) == {m \in DOMAIN pods : /\ pods[m].owner = pods'[n].owner
                                              /\ ~pods[m].deleting}
           Good(n) == /\ {pods[m].step : m \in Earlier(n)} = 0 .. pods'[n].step - 1
                      /\ \A m \in Earlier(n) : /\ pods[m].phase = "Done"
                                               /\ pods[m].hash = pods'[n].hash
<1>1. ASSUME TypeInv, PassInv, PodInv, OrderInv, Orderly, [Next]_vars,
             NEW n \in DOMAIN pods' \ DOMAIN pods
      PROVE  Good(n)
  <2> USE <1>1 DEF PodInv, OrderInv
  <2>1. PICK i \in Instances : Creates(i)
    BY PodsStep DEF Age
  <2>2. n = PodOf(i) /\ pods'[n] = NewPod(i)
    <3>1. DOMAIN pods' = DOMAIN pods \cup {PodOf(i)} /\ pods'[PodOf(i)] = NewPod(i)
      BY <2>1, CreatedPods
    <3> QED
      BY <1>1, <3>1
  <2>3. /\ pods'[n].owner = i /\ pods'[n].step = mem[i].step
        /\ pods'[n].hash = CalculateConfigHash(i, SpecOf(i))
    BY <2>2 DEF NewPod
  <2>4. Earlier(n) = OwnPods(i)
    BY <2>3 DEF OwnPods
  <2>5. i \notin gone /\ WillCreate(i) /\ pc[i] = "create"
    BY <2>1, PassOfExisting DEF Creates, WillCreate, Orderly
  <2>6. \A m \in OwnPods(i) : /\ pods[m].step \in Nat /\ pods[m].phase \in Phases
                              /\ pods[m].step < mem[i].step
    BY <2>5, BoundsAssumption DEF OwnPods, TypeInv, PodsTyped, PodType, StepIsNew
  <2>7. mem[i].step \in Nat
    BY DEF TypeInv, PassesTyped, MemType
  <2>8. {pods[m].step : m \in OwnPods(i)} = 0 .. mem[i].step - 1
    <3>1. StepsBefore(i, mem[i].step)
      BY <2>5, ComparedIsCurrent
    <3> QED
      BY <2>6, <2>7, <3>1 DEF StepsBefore
  <2>9. \A m \in OwnPods(i) : pods[m].phase = "Done"
    BY <2>5 DEF NothingRuns, Active, OwnPods
  <2>10. \A m \in OwnPods(i) : pods[m].hash = CalculateConfigHash(i, SpecOf(i))
    BY <2>5 DEF SpecCompared
  <2> QED
    BY <2>3, <2>4, <2>8, <2>9, <2>10
<1>2. TypeInv /\ PassInv /\ PodInv /\ OrderInv /\ Orderly /\ [Next]_vars
        => [\A n \in DOMAIN pods' \ DOMAIN pods : Good(n)]_vars
  BY <1>1
<1> QED
  BY <1>2, TypeInvHolds, PodInvHolds, OrderInvHolds, OrderlyHolds, PTL
     DEF Spec, StepsInOrder

-----------------------------------------------------------------------------
(* Of all that a pass does to the conditions, only the end of the testing  *)
(* makes DeploymentReady True.                                             *)
LEMMA MarkOfOthers ==
  ASSUME NEW c, NEW types, NEW status,
         "DeploymentReady" \notin types \/ status # "True", SaysReady(Mark(c, types, status))
  PROVE  SaysReady(c)
BY DEF SaysReady, Mark

LEMMA DeferredSays ==
  ASSUME NEW c
  PROVE  /\ SaysReady(Deferred(c)) => SaysReady(c)
         /\ SaysReady(ReadyWhenAllTrue(c)) => SaysReady(c)
BY MarkOfOthers DEF Deferred, ReadyWhenAllTrue

LEMMA PreparedSays ==
  ASSUME NEW i \in Instances, NEW k
  PROVE  SaysReady(MetBefore(i, k)) => SaysReady(mem[i].cond)
<1>1. "DeploymentReady" \notin UNION {ConditionOf(r) : r \in Before(k) \cap Needed(i)}
  BY DEF ConditionOf
<1> QED
  BY <1>1, MarkOfOthers DEF MetBefore

(* And only the failure of CreatePod makes it False.                       *)
LEMMA MarkKeepsOthers ==
  ASSUME NEW c, NEW types, NEW status,
         "DeploymentReady" \notin types \/ status = "True", SaysReady(c)
  PROVE  SaysReady(Mark(c, types, status))
BY DEF SaysReady, Mark

LEMMA DeferredKeeps ==
  ASSUME NEW c, SaysReady(c)
  PROVE  SaysReady(Deferred(c)) /\ SaysReady(ReadyWhenAllTrue(c))
BY MarkKeepsOthers DEF Deferred, ReadyWhenAllTrue

LEMMA PreparedKeeps ==
  ASSUME NEW i \in Instances, NEW k
  PROVE  SaysReady(mem[i].cond) => SaysReady(MetBefore(i, k))
BY MarkKeepsOthers DEF MetBefore

(* None of it adds a condition to the list or takes one away.              *)
LEMMA MarkKeepsList ==
  ASSUME NEW c, NEW types, NEW status
  PROVE  DOMAIN Mark(c, types, status) = DOMAIN c
BY DEF Mark

LEMMA EndKeepsList ==
  ASSUME NEW c
  PROVE  DOMAIN Deferred(c) = DOMAIN c /\ DOMAIN ReadyWhenAllTrue(c) = DOMAIN c
BY MarkKeepsList DEF Deferred, ReadyWhenAllTrue

(* What a pass does with what it has in memory.                            *)
Remembers(j) ==
    /\ pc[j] # "idle"
    /\ mem'[j].gen = mem[j].gen /\ mem'[j].before = mem[j].before
    /\ DOMAIN mem'[j].cond = DOMAIN mem[j].cond
    /\ \/ SaysReady(mem[j].cond) => SaysReady(mem'[j].cond)
       \/ pc[j] = "fail" /\ pc'[j] = "patch"
    /\ \/ pc'[j] = pc[j] /\ mem'[j].cond = mem[j].cond
       \/ pc[j] # "patch" /\ (SaysReady(mem'[j].cond) => SaysReady(mem[j].cond))
       \/ pc[j] = "end" /\ pc'[j] = "patch"

LEMMA OwnMemoryStep ==
  ASSUME TypeInv, NEW i \in Instances, Work(i) \/ Fails(i)
  PROVE  pc'[i] = "idle" \/ Remembers(i)
<1> USE DEF TypeInv, PassesTyped
<1>1. ASSUME NEW c, NEW a, Return(i, c, a)
      PROVE  /\ pc'[i] = "patch" /\ mem'[i].cond = c
             /\ mem'[i].gen = mem[i].gen /\ mem'[i].before = mem[i].before
  <2>1. mem' = [mem EXCEPT ![i] = [mem[i] EXCEPT !.cond = c, !.again = a]]
    BY <1>1 DEF Return
  <2>2. pc'[i] = "patch"
    BY <1>1 DEF Return, Go
  <2> QED
    BY <2>1, <2>2 DEF MemType
<1>2. ASSUME NEW c, NEW a, Return(i, c, a), pc[i] \notin {"idle", "patch"},
             DOMAIN c = DOMAIN mem[i].cond, SaysReady(c) => SaysReady(mem[i].cond),
             (SaysReady(mem[i].cond) => SaysReady(c)) \/ pc[i] = "fail"
      PROVE  Remembers(i)
  BY <1>1, <1>2 DEF Remembers
<1>3. ASSUME UNCHANGED mem, pc[i] \notin {"idle", "patch"} PROVE Remembers(i)
  BY <1>3 DEF Remembers
<1>4. CASE CheckConfigChange(i) \/ CheckConfigChangeFails(i) \/ Dispatch(i)
  <2>1. pc[i] = "check" /\ (UNCHANGED mem \/ Return(i, mem[i].cond, TRUE))
    BY <1>4 DEF CheckConfigChange, CheckConfigChangeFails, Dispatch
  <2> QED
    BY <1>2, <1>3, <2>1
<1>5. CASE Acquire(i) \/ AcquireFails(i)
  <2>1. pc[i] = "acquire" /\ (UNCHANGED mem \/ Return(i, mem[i].cond, TRUE))
    BY <1>5 DEF Acquire, AcquireFails, AfterAcquire, passVars
  <2> QED
    BY <1>2, <1>3, <2>1
<1>6. CASE Prepare(i)
  <2>1. /\ pc[i] = "prepare"
        /\ mem' = [mem EXCEPT ![i] = [mem[i] EXCEPT
                                        !.cond = MetBefore(i, Len(Requirements) + 1)]]
    BY <1>6 DEF Prepare
  <2>2. /\ mem'[i].gen = mem[i].gen /\ mem'[i].before = mem[i].before
        /\ mem'[i].cond = MetBefore(i, Len(Requirements) + 1)
    BY <2>1 DEF MemType
  <2>3. DOMAIN MetBefore(i, Len(Requirements) + 1) = DOMAIN mem[i].cond
    BY MarkKeepsList DEF MetBefore
  <2> QED
    BY <2>1, <2>2, <2>3, PreparedSays, PreparedKeeps DEF Remembers
<1>7. CASE PrepareStops(i) \/ PrepareFails(i)
  <2>1. PICK k \in DOMAIN Requirements :
          Return(i, Mark(MetBefore(i, k), ConditionOf(Requirements[k]), "False"), TRUE)
    BY <1>7 DEF PrepareStops, PrepareFails, StopAt
  <2>2. pc[i] = "prepare"
    BY <1>7 DEF PrepareStops, PrepareFails
  <2>3. SaysReady(Mark(MetBefore(i, k), ConditionOf(Requirements[k]), "False"))
          => SaysReady(mem[i].cond)
    BY MarkOfOthers, PreparedSays
  <2>4. DOMAIN Mark(MetBefore(i, k), ConditionOf(Requirements[k]), "False")
          = DOMAIN mem[i].cond
    BY MarkKeepsList DEF MetBefore
  <2>5. SaysReady(mem[i].cond)
          => SaysReady(Mark(MetBefore(i, k), ConditionOf(Requirements[k]), "False"))
    <3>1. "DeploymentReady" \notin ConditionOf(Requirements[k])
      BY DEF ConditionOf
    <3> QED
      BY <3>1, MarkKeepsOthers, PreparedKeeps
  <2> QED
    BY <1>2, <2>1, <2>2, <2>3, <2>4, <2>5
<1>8. CASE CreatePod(i) \/ CreatePodFails(i) \/ CreatePodReplyLost(i)
  BY <1>3, <1>8 DEF CreatePod, CreatePodFails, CreatePodReplyLost
<1>9. CASE Verify(i)
  <2> DEFINE Net(s) == Mark(mem[i].cond, {"NetworkAttachmentsReady"}, s)
  <2>1. PICK c, a : /\ pc[i] = "verify" /\ Return(i, c, a)
                    /\ c \in {ReadyWhenAllTrue(mem[i].cond),
                              ReadyWhenAllTrue(Net("True")), Net("False")}
    BY <1>9 DEF Verify
  <2>2. SaysReady(c) <=> SaysReady(mem[i].cond)
    <3>1. \A s : SaysReady(Net(s)) => SaysReady(mem[i].cond)
      BY MarkOfOthers
    <3>2. \A s : SaysReady(mem[i].cond) => SaysReady(Net(s))
      BY MarkKeepsOthers
    <3> HIDE DEF Net
    <3>3. SaysReady(c) => SaysReady(mem[i].cond)
      BY <2>1, <3>1, DeferredSays
    <3>4. SaysReady(mem[i].cond) => SaysReady(c)
      BY <2>1, <3>2, DeferredKeeps
    <3> QED
      BY <3>3, <3>4
  <2>3. DOMAIN c = DOMAIN mem[i].cond
    <3>1. \A s : DOMAIN Net(s) = DOMAIN mem[i].cond
      BY MarkKeepsList
    <3> HIDE DEF Net
    <3> QED
      BY <2>1, <3>1, EndKeepsList
  <2> QED
    BY <1>2, <2>1, <2>2, <2>3
<1>10. CASE Release(i) \/ ReleaseFails(i)
  <2>1. pc[i] \in {"end", "fail"} /\ AfterRelease(i)
    BY <1>10 DEF Release, ReleaseFails
  <2>2. CASE UNCHANGED passVars \/ Return(i, mem[i].cond, TRUE)
    BY <1>2, <1>3, <2>1, <2>2 DEF passVars
  <2>3. CASE pc[i] = "fail" /\ Return(i, Mark(mem[i].cond, {"DeploymentReady"}, "False"), TRUE)
    BY <1>2, <2>3, MarkOfOthers, MarkKeepsList
  <2>4. ASSUME pc[i] = "end", NEW c, NEW a, Return(i, c, a),
               DOMAIN c = DOMAIN mem[i].cond, SaysReady(mem[i].cond) => SaysReady(c)
        PROVE  Remembers(i)
    BY <1>1, <2>4 DEF Remembers
  <2>5. DOMAIN ReadyWhenAllTrue(Mark(mem[i].cond, {"DeploymentReady"}, "True"))
          = DOMAIN mem[i].cond
    BY MarkKeepsList, EndKeepsList
  <2>6. SaysReady(mem[i].cond)
          => SaysReady(ReadyWhenAllTrue(Mark(mem[i].cond, {"DeploymentReady"}, "True")))
    BY MarkKeepsOthers, DeferredKeeps
  <2> QED
    BY <2>1, <2>2, <2>3, <2>4, <2>5, <2>6 DEF AfterRelease
<1>11. CASE Patch(i) \/ PatchGone(i) \/ PatchFails(i)
  BY <1>11 DEF Patch, PatchGone, PatchFails, EndPass, Go
<1> QED
  BY <1>4, <1>5, <1>6, <1>7, <1>8, <1>9, <1>10, <1>11 DEF Work, Fails

(* A step ends a pass, starts it, or lets it remember.                     *)
LEMMA MemoryStep ==
  ASSUME TypeInv, PassInv, [Next]_vars, NEW j \in Instances
  PROVE  pc'[j] = "idle" \/ Initialize(j) \/ StartPass(j) \/ Remembers(j)
<1>1. ASSUME pc'[j] = pc[j], mem'[j] = mem[j]
      PROVE  pc'[j] = "idle" \/ Remembers(j)
  BY <1>1 DEF Remembers
<1>2. ASSUME Pick(j) PROVE pc'[j] = "idle" \/ Initialize(j) \/ StartPass(j)
  BY <1>2 DEF Pick, SkipGone, AddFinalizer, RemoveFinalizer, TakeForFinalizer,
              Take, passVars
<1>3. ASSUME NEW i \in Instances \ {j}, Pick(i) \/ Work(i) \/ Fails(i)
      PROVE  pc'[j] = pc[j] /\ mem'[j] = mem[j]
  BY <1>3, OthersKept
<1>4. ASSUME NEW i \in Instances, User(i) \/ DeliverCR(i)
      PROVE  UNCHANGED passVars
  BY <1>4 DEF User, UpdateSpec, DeleteResource, Provide, DeliverCR
<1>5. ASSUME NEW n \in DOMAIN pods, CollectPod(n) \/ RunPod(n) \/ RemovePod(n)
      PROVE  UNCHANGED passVars
  BY <1>5 DEF CollectPod, RunPod, RemovePod
<1>6. CASE DeliverLock \/ DeliverPods \/ CollectGoneLock \/ DeleteLockByHand
           \/ UNCHANGED vars
  BY <1>1, <1>6 DEF DeliverLock, DeliverPods, CollectGoneLock, DeleteLockByHand,
                    vars, passVars
<1>7. CASE Restart
  BY <1>7 DEF Restart
<1> QED
  BY <1>1, <1>2, <1>3, <1>4, <1>5, <1>6, <1>7, OwnMemoryStep DEF Next, passVars

(* Only the end of a pass changes the status of a resource, and the pass   *)
(* that adds the finalizer.                                                *)
LEMMA StatusStep ==
  ASSUME TypeInv, [Next]_vars, NEW j \in Instances
  PROVE  \/ cond'[j] = cond[j] /\ observed'[j] = observed[j]
         \/ pc'[j] = "idle" /\ (Patch(j) \/ (AddFinalizer(j) /\ cond'[j] = cond[j]))
<1> USE DEF TypeInv, ResourcesTyped, PassesTyped
<1>1. ASSUME UNCHANGED <<cond, observed>>
      PROVE  cond'[j] = cond[j] /\ observed'[j] = observed[j]
  BY <1>1
<1>2. ASSUME NEW i \in Instances, Patch(i), i # j
      PROVE  cond'[j] = cond[j] /\ observed'[j] = observed[j]
  BY <1>2 DEF Patch, WriteStatus
<1>3. ASSUME Patch(j) PROVE pc'[j] = "idle"
  BY <1>3 DEF Patch, EndPass, Go
<1>4. ASSUME NEW i \in Instances, AddFinalizer(i)
      PROVE  /\ cond'[j] = cond[j]
             /\ observed'[j] = observed[j] \/ (pc'[j] = "idle" /\ AddFinalizer(j))
  <2>1. UNCHANGED <<cond, pc>> /\ pc[i] = "idle"
    BY <1>4 DEF AddFinalizer, TakeForFinalizer, Take, passVars
  <2>2. i # j => observed'[j] = observed[j]
    BY <1>4 DEF AddFinalizer
  <2> QED
    BY <1>4, <2>1, <2>2
<1>5. ASSUME NEW i \in Instances, Work(i), ~Patch(i) PROVE UNCHANGED <<cond, observed>>
  BY <1>5 DEF Work, CheckConfigChange, Dispatch, Acquire, Prepare, PrepareStops,
              CreatePod, Verify, Release, PatchGone, crVars, resourceVars
<1>6. ASSUME NEW i \in Instances, Fails(i) PROVE UNCHANGED <<cond, observed>>
  BY <1>6 DEF Fails, CheckConfigChangeFails, AcquireFails, PrepareFails,
              CreatePodFails, CreatePodReplyLost, ReleaseFails, PatchFails,
              crVars, resourceVars
<1>7. ASSUME NEW i \in Instances, Pick(i), ~AddFinalizer(i)
      PROVE  UNCHANGED <<cond, observed>>
  BY <1>7 DEF Pick, SkipGone, Initialize, RemoveFinalizer, TakeForFinalizer,
              StartPass, crVars, resourceVars
<1>8. ASSUME NEW i \in Instances, User(i) \/ DeliverCR(i)
      PROVE  UNCHANGED <<cond, observed>>
  BY <1>8 DEF User, UpdateSpec, DeleteResource, Provide, DeliverCR, crVars,
              resourceVars
<1>9. ASSUME NEW n \in DOMAIN pods, CollectPod(n) \/ RunPod(n) \/ RemovePod(n)
      PROVE  UNCHANGED <<cond, observed>>
  BY <1>9 DEF CollectPod, RunPod, RemovePod, crVars, resourceVars
<1>10. CASE \/ DeliverLock \/ DeliverPods \/ CollectGoneLock \/ DeleteLockByHand
            \/ Restart \/ UNCHANGED vars
  BY <1>1, <1>10 DEF DeliverLock, DeliverPods, CollectGoneLock, DeleteLockByHand,
                     Restart, vars, crVars, resourceVars
<1> QED
  BY <1>1, <1>2, <1>3, <1>4, <1>5, <1>6, <1>7, <1>8, <1>9, <1>10 DEF Next

-----------------------------------------------------------------------------
(* A pass that ends the testing finds every pod done.                      *)
LEMMA EndFindsAllDone ==
  ASSUME TypeInv, PassInv, PodInv, OrderInv, NEW j \in Instances \ gone, pc[j] = "end"
  PROVE  AllDone(j, mem[j].gen)
<1> USE DEF OrderInv
<1>1. \A n \in OwnPods(j) : /\ pods[n].step \in Nat /\ pods[n].phase = "Done"
                            /\ pods[n].hash = CalculateConfigHash(j, SpecOf(j))
  <2>1. \A n \in OwnPods(j) : ~Active(n)
    BY DEF PodInv, NothingRuns, WillEnd
  <2>2. \A n \in OwnPods(j) : pods[n].hash = CalculateConfigHash(j, SpecOf(j))
    BY DEF SpecCompared
  <2>3. \A n \in OwnPods(j) : pods[n].step \in Nat /\ ~pods[n].deleting
    BY BoundsAssumption DEF OwnPods, TypeInv, PodsTyped, PodType
  <2> QED
    BY <2>1, <2>2, <2>3 DEF Active
<1>2. PICK n \in OwnPods(j) : isLastPodIndex(pods[n].step, WorkflowLength(SpecOf(j)))
  BY DEF LastIsThere, WillEnd
<1>3. WorkflowLength(SpecOf(j)) \in Nat
  <2>1. SpecOf(j) \in SpecType
    BY PassHasSpec DEF TypeInv
  <2> QED
    BY <2>1 DEF WorkflowLength, SpecType
<1>4. Steps(SpecOf(j)) = 0 .. pods[n].step
  BY <1>1, <1>2, <1>3 DEF Steps, isLastPodIndex
<1>5. \A s \in 0 .. pods[n].step : \E m \in OwnPods(j) : pods[m].step = s
  <2>1. StepsBefore(j, pods[n].step)
    BY <1>2, ComparedIsCurrent
  <2> QED
    BY <1>1, <1>2, <2>1 DEF StepsBefore
<1> QED
  BY <1>1, <1>4, <1>5 DEF AllDone, SpecOf

(* They stay until the pass has said so.                                   *)
LEMMA AllDoneKept ==
  ASSUME ~Lagging, NamesDiffer, TypeInv, PassInv, podCache = pods, [Next]_vars,
         NEW j \in Instances \ gone, NEW g,
         AllDone(j, g), pc[j] \notin {"check", "create"}
  PROVE  AllDone(j, g)'
<1>1. Keeps(j)
  BY OwnPodsStep DEF Creates, Drops
<1>2. \A s \in Steps(Specs[j][g]) : \E n \in OwnPods(j)' :
        /\ pods'[n].hash = CalculateConfigHash(j, Specs[j][g])
        /\ pods'[n].step = s /\ pods'[n].phase = "Done"
  BY <1>1 DEF AllDone, Keeps
<1> QED
  BY <1>2 DEF AllDone, Steps, WorkflowLength, CalculateConfigHash

LEMMA EarnedInvHolds ==
  ASSUME ~Lagging, LaggingCR = {}, NamesDiffer, LeftoversAreOld
  PROVE  Spec => []EarnedInv
<1>1. Init => EarnedInv
  BY DEF Init, EarnedInv, BeforeIsCurrent, ReadyIsEarned
<1>2. ASSUME TypeInv, PassInv, PodInv, OrderInv, EarnedInv, [Next]_vars
      PROVE  EarnedInv'
  <2> USE <1>2
  <2>1. ASSUME NEW j \in Instances, Initialize(j) \/ StartPass(j)
        PROVE  /\ mem'[j].before = <<cond'[j], observed'[j]>>
               /\ SaysReady(mem'[j].cond) => SaysReady(cond[j])
    <3>1. /\ Get(j).cond = cond[j] /\ Get(j).observed = observed[j]
          /\ UNCHANGED <<cond, observed>>
      BY <2>1 DEF Get, Resource, Initialize, StartPass, crVars, resourceVars
    <3>2. CASE Initialize(j)
      <4>1. mem' = [mem EXCEPT ![j] = [mem[j] EXCEPT
                      !.gen = Get(j).observed, !.before = Status(Get(j)),
                      !.cond = InitialConditions(Kind[j])]]
        BY <3>2 DEF Initialize
      <4>2. /\ mem'[j].before = Status(Get(j))
            /\ mem'[j].cond = InitialConditions(Kind[j])
        BY <4>1 DEF TypeInv, PassesTyped, MemType
      <4> QED
        BY <3>1, <4>2 DEF Status, InitialConditions, SaysReady
    <3>3. CASE StartPass(j)
      BY <3>1, <3>3, PassStarted DEF Status
    <3> QED
      BY <2>1, <3>2, <3>3
  <2>2. BeforeIsCurrent'
    BY <2>1, MemoryStep, StatusStep DEF EarnedInv, BeforeIsCurrent, Remembers
  <2>3. ReadyIsEarned'
    <3> SUFFICES ASSUME NEW j \in Instances \ gone', pc'[j] # "idle",
                        SaysReady(mem'[j].cond), ~SaysReady(cond'[j])
                 PROVE  pc'[j] = "patch" /\ AllDone(j, mem[j].gen)'
      BY DEF ReadyIsEarned
    <3>1. j \notin gone /\ cond'[j] = cond[j]
      BY GoneStaysGone, StatusStep
    <3>2. Remembers(j)
      BY <2>1, <3>1, MemoryStep
    <3>3. \/ pc[j] = "patch" /\ pc'[j] = "patch" /\ AllDone(j, mem[j].gen)
          \/ pc[j] = "end" /\ pc'[j] = "patch"
      BY <3>1, <3>2 DEF Remembers, EarnedInv, ReadyIsEarned
    <3>4. AllDone(j, mem[j].gen)
      BY <3>1, <3>3, EndFindsAllDone
    <3>5. mem'[j].gen = mem[j].gen
      BY <3>2 DEF Remembers
    <3>6. ASSUME NEW h, h = mem[j].gen
          PROVE  \A s \in Steps(Specs[j][h]) : \E n \in OwnPods(j)' :
                    /\ pods'[n].hash = CalculateConfigHash(j, Specs[j][h])
                    /\ pods'[n].step = s
                    /\ pods'[n].phase = "Done"
      <4>1. AllDone(j, h)'
        BY <3>1, <3>3, <3>4, <3>6, AllDoneKept DEF PodInv
      <4> QED
        BY <4>1 DEF AllDone, Steps, WorkflowLength, CalculateConfigHash
    <3>7. \A s \in Steps(Specs[j][mem'[j].gen]) : \E n \in OwnPods(j)' :
             /\ pods'[n].hash = CalculateConfigHash(j, Specs[j][mem'[j].gen])
             /\ pods'[n].step = s
             /\ pods'[n].phase = "Done"
      BY <3>5, <3>6
    <3> QED
      BY <3>3, <3>7 DEF AllDone, Steps, WorkflowLength, CalculateConfigHash
  <2> QED
    BY <2>2, <2>3 DEF EarnedInv
<1> QED
  BY <1>1, <1>2, TypeInvHolds, PodInvHolds, OrderInvHolds, PTL DEF Spec

(* A result is earned: DeploymentReady becomes True only when every test   *)
(* pod of the spec that observedGeneration names is done, whatever         *)
(* interleaves, fails or restarts, when neither the pods nor the custom    *)
(* resources lag.                                                          *)
THEOREM ReadyOnlyWhenTested ==
  ASSUME ~Lagging, LaggingCR = {}, NamesDiffer, LeftoversAreOld
  PROVE  Spec => DeploymentReadyEarned
<1>1. ASSUME TypeInv, EarnedInv, [Next]_vars, NEW i \in Instances,
             ~Says(i, "True"), Says(i, "True")'
      PROVE  Tested(i, observed'[i])
  <2>1. ~SaysReady(cond[i]) /\ SaysReady(cond'[i])
    BY <1>1 DEF Says, SaysReady
  <2>2. Patch(i)
    BY <1>1, <2>1, StatusStep
  <2>3. pc[i] = "patch" /\ i \notin gone
    BY <2>2 DEF Patch
  <2>4. mem[i].before = <<cond[i], observed[i]>>
    BY <1>1, <2>3 DEF EarnedInv, BeforeIsCurrent
  <2>5. cond'[i] = Deferred(mem[i].cond) /\ observed'[i] = mem[i].gen
    BY <1>1, <2>1, <2>2, <2>4
       DEF Patch, WriteStatus, NewStatus, TypeInv, ResourcesTyped
  <2>6. AllDone(i, mem[i].gen)
    BY <1>1, <2>1, <2>3, <2>5, DeferredSays DEF EarnedInv, ReadyIsEarned
  <2> QED
    BY <2>5, <2>6 DEF AllDone, Tested, OwnPods
<1>2. TypeInv /\ EarnedInv /\ [Next]_vars
        => [\A i \in Instances : ~Says(i, "True") /\ Says(i, "True")'
              => Tested(i, observed'[i])]_vars
  BY <1>1
<1> QED
  BY <1>2, TypeInvHolds, EarnedInvHolds, PTL DEF Spec, DeploymentReadyEarned
=============================================================================
