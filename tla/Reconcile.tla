------------------------------ MODULE Reconcile ------------------------------
(***************************************************************************)
(* CommonReconcile (internal/controller/common_controller.go), which the   *)
(* four controllers run, composed with the lock, the pods, the garbage     *)
(* collector, the kubelet and the user.  A pass is cut wherever it reads   *)
(* the cache or calls the API server; each controller has one worker, so   *)
(* passes of two instances interleave when their kinds differ.             *)
(***************************************************************************)
EXTENDS Lock, Pods, Conditions

CONSTANTS
    Specs,       \* the specs each instance is given, one after the other: what
                 \* matters here is [workflow: a sequence of overrides of
                 \* Parallel, parallel: BOOLEAN]
    Networked,   \* instances that list network attachments
    Missing,     \* the prerequisites that are missing at first, by instance
    Removable,   \* instances the user may delete
    Faults,      \* what may go wrong (see Fault)
    MaxFaults,   \* bound: how often
    MaxStep,     \* bound: the highest workflow step a pod is created for
    Lagging,     \* whether the pod cache may be behind the API server
    LaggingCR    \* instances whose custom resource may be, too

(* The Parallel field of a workflow step: absent, or a value.              *)
Overrides == {"inherit", "parallel", "serial"}

SpecType == [workflow : Seq(Overrides), parallel : BOOLEAN]

SpecOK(kind, spec) ==
    /\ spec.parallel => Config[kind].HasParallel
    /\ spec.workflow # <<>> => Config[kind].SupportsWorkflow
    /\ \A k \in DOMAIN spec.workflow :
          spec.workflow[k] # "inherit" => StepOverridesParallel(kind)

ASSUME SpecsAssumption ==
    \A i \in Instances :
       /\ Specs[i] \in Seq(SpecType) /\ Specs[i] # <<>>
       /\ \A g \in DOMAIN Specs[i] : SpecOK(Kind[i], Specs[i][g])

(* MergeSections lets the Parallel field of the step, when it is present,  *)
(* override the one of the spec before GetParallel reads it.               *)
GetParallel(spec, step) ==
    IF step < WorkflowLength(spec) /\ spec.workflow[step + 1] # "inherit"
    THEN spec.workflow[step + 1] = "parallel"
    ELSE spec.parallel

(* What a pass needs before it can create a pod, in the order of the code. *)
Requirements == <<"inputs", "pvc", "config", "network", "image">>
RequirementSet == {Requirements[k] : k \in DOMAIN Requirements}

ASSUME NetworkedAssumption ==
    \A i \in Networked : i \in Instances /\ NeedsNetworkAttachments(Kind[i])
ASSUME MissingAssumption == Missing \in [Instances -> SUBSET RequirementSet]
ASSUME BoundsAssumption ==
    /\ MaxFaults \in Nat /\ MaxStep \in Nat
    /\ Lagging \in BOOLEAN /\ LaggingCR \subseteq Instances

VARIABLES
    gen,          \* metadata.generation: which of Specs is the spec
    terminating,  \* instances with a deletion timestamp
    finalizer,    \* instances that carry the finalizer
    cond,         \* status.conditions
    observed,     \* status.observedGeneration
    crCache,      \* the custom resources in the informer cache, if they lag
    pods,         \* the test pods at the API server
    podCache,     \* and in the informer cache
    queued,       \* instances in the work queue of their controller
    pc,           \* where the pass of each instance stands
    mem,          \* what the pass has in memory
    missing,      \* the prerequisites still missing
    faults        \* how many more faults there may be

resourceVars == <<gen, terminating, finalizer, cond, observed>>
crVars == <<resourceVars, crCache>>
podVars == <<pods, podCache>>
passVars == <<pc, mem>>
vars == <<lockVars, crVars, podVars, passVars, queued, missing, faults>>

PCs == {"idle", "check", "acquire", "prepare", "create", "verify",
        "end", "fail", "patch"}

NoPass == [gen |-> 0, action |-> "none", step |-> 0, cond |-> NoConditions,
           before |-> <<>>, again |-> FALSE]

(* A custom resource at the API server, and as a pass reads it.            *)
Resource(i) ==
    [ gen         |-> gen[i],
      cond        |-> cond[i],
      observed    |-> observed[i],
      terminating |-> i \in terminating,
      finalizer   |-> i \in finalizer,
      gone        |-> i \in gone ]

Get(i) == IF i \in LaggingCR THEN crCache[i] ELSE Resource(i)

Init ==
    /\ LockInit
    /\ gen = [i \in Instances |-> 1]
    /\ terminating = {}
    /\ finalizer = {}
    /\ cond = [i \in Instances |-> NoConditions]
    /\ observed = [i \in Instances |-> 0]
    /\ crCache = [i \in Instances |-> Resource(i)]
    /\ pods = [n \in {} |-> {}]
    /\ podCache = [n \in {} |-> {}]
    /\ queued = Instances
    /\ pc = [i \in Instances |-> "idle"]
    /\ mem = [i \in Instances |-> NoPass]
    /\ missing = Missing
    /\ faults = MaxFaults

(* One more of the admitted faults happens.                                *)
Fault(kind) ==
    /\ kind \in Faults
    /\ faults > 0
    /\ faults' = faults - 1

-----------------------------------------------------------------------------
(* Mistake: the controllers do not watch the pods they own.                *)
TouchedUnwatched(old, new) == {}

(* The pods and the events their changes cause: the owner of a pod that    *)
(* changed is queued once the cache has seen the change.                   *)
Touched(old, new) ==
    { old[n].owner : n \in {m \in DOMAIN old :
                              m \notin DOMAIN new \/ new[m] # old[m]} }
      \cup { new[n].owner : n \in DOMAIN new \ DOMAIN old }

(* The API server's pods become `new', and `queue' plus the events are     *)
(* what is queued then.                                                    *)
SetPods(new, queue) ==
    /\ pods' = new
    /\ IF Lagging
       THEN UNCHANGED podCache /\ queued' = queue
       ELSE podCache' = new /\ queued' = queue \cup Touched(podCache, new)

WithPod(n, pod) ==
    [m \in DOMAIN pods \cup {n} |-> IF m = n THEN pod ELSE pods[m]]

Without(S) == [m \in DOMAIN pods \ S |-> pods[m]]

(* A Delete request takes a finished pod away at once and a running one    *)
(* after its containers have ended; a pending one either way.              *)
DeletePods(S, queue) ==
    \E now \in SUBSET {n \in S : pods[n].phase = "Pending"} :
       LET gone_now == now \cup {n \in S : pods[n].phase = "Done"}
           left     == Without(gone_now)
       IN  SetPods([n \in DOMAIN left |->
                      IF n \in S THEN [left[n] EXCEPT !.deleting = TRUE]
                                 ELSE left[n]],
                   queue)

(* A change of the custom resource is an event once the cache has seen it. *)
QueueChanged(i, queue) == queued' = queue \cup ({i} \ LaggingCR)

-----------------------------------------------------------------------------
SpecOf(i) == Specs[i][mem[i].gen]
PodOf(i) == GetPodName(i, SpecOf(i), mem[i].step)

Go(i, where) == pc' = [pc EXCEPT ![i] = where]

(* The pass ends with these conditions, and with a requeue or without.     *)
Return(i, conditions, again) ==
    /\ Go(i, "patch")
    /\ mem' = [mem EXCEPT ![i].cond = conditions, ![i].again = again]

(* The one worker of the controller takes the instance from the queue.     *)
Take(i) ==
    /\ i \in queued
    /\ \A j \in Instances : Kind[j] = Kind[i] => pc[j] = "idle"

(* The custom resource no longer exists.                                   *)
SkipGone(i) ==
    /\ Take(i)
    /\ Get(i).gone
    /\ queued' = queued \ {i}
    /\ UNCHANGED <<lockVars, crVars, podVars, passVars, missing, faults>>

(* What the deferred PatchInstance compares the resource with.             *)
Status(r) == <<r.cond, r.observed>>

(* A new instance: the conditions are initialised and nothing else.        *)
Initialize(i) ==
    /\ Take(i)
    /\ ~Get(i).gone
    /\ Get(i).cond = NoConditions
    /\ queued' = queued \ {i}
    /\ Go(i, "patch")
    /\ mem' = [mem EXCEPT ![i].gen = Get(i).observed,
                          ![i].before = Status(Get(i)),
                          ![i].cond = InitialConditions(Kind[i])]
    /\ UNCHANGED <<lockVars, crVars, podVars, missing, faults>>

(* The passes that change the finalizer end with a patch at once.  One of  *)
(* a resource that is gone is refused, and the pass is retried.            *)
TakeForFinalizer(i) ==
    /\ Take(i)
    /\ ~Get(i).gone
    /\ Get(i).cond # NoConditions
    /\ UNCHANGED <<gen, cond, crCache, podVars, passVars, missing, faults>>

(* Mistake: every kind gets the finalizer.                                 *)
AddFinalizerToAll(i) ==
    /\ TakeForFinalizer(i)
    /\ ~Get(i).terminating /\ ~Get(i).finalizer
    /\ finalizer' = finalizer \cup {i}
    /\ observed' = [observed EXCEPT ![i] = Get(i).gen]
    /\ UNCHANGED <<lockVars, terminating, queued>>

AddFinalizer(i) ==
    /\ TakeForFinalizer(i)
    /\ NeedsFinalizer(Kind[i])
    /\ ~Get(i).terminating /\ ~Get(i).finalizer
    /\ IF i \in gone
       THEN UNCHANGED <<finalizer, observed, queued>>
       ELSE /\ finalizer' = finalizer \cup {i}
            /\ observed' = [observed EXCEPT ![i] = Get(i).gen]
            /\ QueueChanged(i, queued \ {i})
    /\ UNCHANGED <<lockVars, terminating>>

(* Mistake: the finalizer stays while the instance owns the lock.          *)
RemoveFinalizerWithoutLock(i) ==
    /\ TakeForFinalizer(i)
    /\ NeedsFinalizer(Kind[i]) /\ Get(i).terminating
    /\ lock # i
    /\ RemoveInstance(i)
    /\ terminating' = terminating \ {i}
    /\ finalizer' = finalizer \ {i}
    /\ QueueChanged(i, queued \ {i})
    /\ UNCHANGED observed

(* Nothing is released here: lock and pods are left to the collector.      *)
RemoveFinalizer(i) ==
    /\ TakeForFinalizer(i)
    /\ NeedsFinalizer(Kind[i]) /\ Get(i).terminating
    /\ IF i \in gone
       THEN UNCHANGED <<lockVars, terminating, finalizer, queued>>
       ELSE /\ RemoveInstance(i)
            /\ terminating' = terminating \ {i}
            /\ finalizer' = finalizer \ {i}
            /\ QueueChanged(i, queued \ {i})
    /\ UNCHANGED observed

(* Any other pass reads the spec and the conditions, and NextAction lists  *)
(* the pods.  (A change of the resource between the two reads is a change  *)
(* right after the second, which looks at the pods only.)                  *)
StartPass(i) ==
    /\ Take(i)
    /\ ~Get(i).gone
    /\ Get(i).cond # NoConditions
    /\ NeedsFinalizer(Kind[i]) => Get(i).finalizer /\ ~Get(i).terminating
    /\ queued' = queued \ {i}
    /\ Go(i, "check")
    /\ \E d \in NextActions(i, Specs[i][Get(i).gen], podCache) :
          mem' = [mem EXCEPT ![i] = [gen |-> Get(i).gen, action |-> d.action,
                                     step |-> d.step, cond |-> Get(i).cond,
                                     before |-> Status(Get(i)),
                                     again |-> FALSE]]
    /\ UNCHANGED <<lockVars, crVars, podVars, missing, faults>>

-----------------------------------------------------------------------------
(* CheckConfigChange lists the pods again; when the first one was created  *)
(* from another spec it deletes them all and requeues.                     *)
CheckConfigChange(i) ==
    /\ pc[i] = "check"
    /\ TRUE \in ConfigChanged(i, SpecOf(i), podCache)
    /\ DeletePods(Listed(i, podCache) \cap DOMAIN pods, queued)
    /\ Return(i, mem[i].cond, TRUE)
    /\ UNCHANGED <<lockVars, crVars, missing, faults>>

(* One of the Delete requests fails: the pass ends with an error.          *)
CheckConfigChangeFails(i) ==
    /\ pc[i] = "check"
    /\ Fault("podDelete")
    /\ TRUE \in ConfigChanged(i, SpecOf(i), podCache)
    /\ LET targets == Listed(i, podCache) \cap DOMAIN pods
       IN  \E S \in SUBSET targets : S # targets /\ DeletePods(S, queued)
    /\ Return(i, mem[i].cond, TRUE)
    /\ UNCHANGED <<lockVars, crVars, missing>>

(* Nothing changed: the switch over the action.                            *)
Dispatch(i) ==
    /\ pc[i] = "check"
    /\ FALSE \in ConfigChanged(i, SpecOf(i), podCache)
    /\ \/ /\ mem[i].action \in {"CheckPending", "Wait"}
          /\ Return(i, mem[i].cond, TRUE)
       \/ /\ mem[i].action = "EndTesting"
          /\ Go(i, "end")
          /\ UNCHANGED mem
       \/ /\ mem[i].action \in {"CreateFirstPod", "CreateNextPod"}
          /\ Go(i, "acquire")
          /\ UNCHANGED mem
    /\ UNCHANGED <<lockVars, crVars, podVars, queued, missing, faults>>

-----------------------------------------------------------------------------
(* Mistake: an instance that was refused the lock is not requeued.         *)
AfterAcquireWithoutRequeue(i) ==
    \/ stage'[i] = "create" /\ UNCHANGED passVars
    \/ stage'[i] \in {"held", "parallel"} /\ Go(i, "prepare") /\ UNCHANGED mem
    \/ stage'[i] = "out" /\ Return(i, mem[i].cond, FALSE)

(* What follows a step of AcquireLock.                                     *)
AfterAcquire(i) ==
    \/ stage'[i] = "create" /\ UNCHANGED passVars
    \/ stage'[i] \in {"held", "parallel"} /\ Go(i, "prepare") /\ UNCHANGED mem
    \/ stage'[i] = "out" /\ Return(i, mem[i].cond, TRUE)

Acquire(i) ==
    /\ pc[i] = "acquire"
    /\ AcquireLock(i, GetParallel(SpecOf(i), mem[i].step)) \/ CreateLock(i)
    /\ AfterAcquire(i)
    /\ UNCHANGED <<crVars, podVars, queued, missing, faults>>

AcquireFails(i) ==
    /\ pc[i] = "acquire"
    /\ Fault("lockCreate")
    /\ CreateLockFails(i)
    /\ AfterAcquire(i)
    /\ UNCHANGED <<crVars, podVars, queued, missing>>

-----------------------------------------------------------------------------
(* ValidateInputs, the PVC, the ConfigMaps, the network attachments and    *)
(* the image, up to the call of CreatePod.                                 *)
Needed(i) ==
    {"inputs", "pvc", "image"}
      \cup (IF NeedsConfigMaps(Kind[i]) THEN {"config"} ELSE {})
      \cup (IF NeedsNetworkAttachments(Kind[i]) THEN {"network"} ELSE {})

ConditionOf(r) ==
    CASE r = "inputs"  -> {"InputReady"}
      [] r = "config"  -> {"ServiceConfigReady"}
      [] r = "network" -> {"NetworkAttachmentsReady"}
      [] OTHER         -> {}

Before(k) == {Requirements[m] : m \in 1 .. k - 1}

(* The conditions when the requirements up to the k-th were met.           *)
MetBefore(i, k) ==
    Mark(mem[i].cond, UNION {ConditionOf(r) : r \in Before(k) \cap Needed(i)},
         "True")

Prepare(i) ==
    /\ pc[i] = "prepare"
    /\ mem[i].step <= MaxStep
    /\ Needed(i) \cap missing[i] = {}
    /\ Go(i, "create")
    /\ mem' = [mem EXCEPT ![i].cond = MetBefore(i, Len(Requirements) + 1)]
    /\ UNCHANGED <<lockVars, crVars, podVars, queued, missing, faults>>

(* Mistake: a missing prerequisite is recorded but not waited for.         *)
StopAtWithoutRequeue(i, k) ==
    /\ Requirements[k] \in Needed(i)
    /\ Before(k) \cap Needed(i) \cap missing[i] = {}
    /\ Return(i, Mark(MetBefore(i, k), ConditionOf(Requirements[k]), "False"),
              FALSE)

(* The pass ends at the k-th requirement; the lock is kept.                *)
StopAt(i, k) ==
    /\ Requirements[k] \in Needed(i)
    /\ Before(k) \cap Needed(i) \cap missing[i] = {}
    /\ Return(i, Mark(MetBefore(i, k), ConditionOf(Requirements[k]), "False"),
              TRUE)

PrepareStops(i) ==
    /\ pc[i] = "prepare"
    /\ \E k \in DOMAIN Requirements :
          Requirements[k] \in missing[i] /\ StopAt(i, k)
    /\ UNCHANGED <<lockVars, crVars, podVars, queued, missing, faults>>

(* A request made on the way fails.                                        *)
PrepareFails(i) ==
    /\ pc[i] = "prepare"
    /\ Fault("prepare")
    /\ \E k \in DOMAIN Requirements : StopAt(i, k)
    /\ UNCHANGED <<lockVars, crVars, podVars, queued, missing>>

-----------------------------------------------------------------------------
NewPod(i) ==
    [ owner    |-> i,
      step     |-> mem[i].step,
      hash     |-> CalculateConfigHash(i, SpecOf(i)),
      phase    |-> "Pending",
      deleting |-> FALSE ]

(* CreatePod: a pod of that name in the cache counts as created, even one  *)
(* that is being deleted; the API server refuses a name that is in use.    *)
CreatePod(i) ==
    /\ pc[i] = "create"
    /\ \/ /\ PodOf(i) \in DOMAIN podCache
          /\ Go(i, "verify")
          /\ UNCHANGED <<podVars, queued>>
       \/ /\ PodOf(i) \notin DOMAIN podCache \cup DOMAIN pods
          /\ SetPods(WithPod(PodOf(i), NewPod(i)), queued)
          /\ Go(i, "verify")
       \/ /\ PodOf(i) \in DOMAIN pods \ DOMAIN podCache
          /\ Go(i, "fail")
          /\ UNCHANGED <<podVars, queued>>
    /\ UNCHANGED <<lockVars, crVars, mem, missing, faults>>

CreatePodFails(i) ==
    /\ pc[i] = "create"
    /\ Fault("podCreate")
    /\ PodOf(i) \notin DOMAIN podCache
    /\ Go(i, "fail")
    /\ UNCHANGED <<lockVars, crVars, podVars, mem, queued, missing>>

(* The pod is created but the answer is lost, which is an error as well.   *)
CreatePodReplyLost(i) ==
    /\ pc[i] = "create"
    /\ Fault("podCreateReply")
    /\ PodOf(i) \notin DOMAIN podCache \cup DOMAIN pods
    /\ SetPods(WithPod(PodOf(i), NewPod(i)), queued)
    /\ Go(i, "fail")
    /\ UNCHANGED <<lockVars, crVars, mem, missing>>

(* VerifyNetworkAttachments and the end of a complete pass.  The network   *)
(* status appears on a pod while it is pending.                            *)
Verify(i) ==
    /\ pc[i] = "verify"
    /\ LET checked == /\ NeedsNetworkAttachments(Kind[i])
                      /\ PodOf(i) \in DOMAIN podCache
           up      == Mark(mem[i].cond, {"NetworkAttachmentsReady"}, "True")
           down    == Mark(mem[i].cond, {"NetworkAttachmentsReady"}, "False")
       IN  \/ ~checked /\ Return(i, ReadyWhenAllTrue(mem[i].cond), FALSE)
           \/ checked /\ Return(i, ReadyWhenAllTrue(up), FALSE)
           \/ /\ checked /\ i \in Networked
              /\ podCache[PodOf(i)].phase = "Pending"
              /\ Return(i, down, TRUE)
    /\ UNCHANGED <<lockVars, crVars, podVars, queued, missing, faults>>

-----------------------------------------------------------------------------
(* What follows a step of ReleaseLock, which a pass calls when the testing *)
(* has ended and when CreatePod failed.                                    *)
AfterRelease(i) ==
    \/ stage'[i] \in {"delete", "confirm"} /\ UNCHANGED passVars
    \/ stage'[i] = "out" /\ Return(i, mem[i].cond, TRUE)
    \/ /\ stage'[i] = "released" /\ pc[i] = "end"
       /\ Return(i, ReadyWhenAllTrue(Mark(mem[i].cond, {"DeploymentReady"},
                                          "True")), FALSE)
    \/ /\ stage'[i] = "released" /\ pc[i] = "fail"
       /\ Return(i, Mark(mem[i].cond, {"DeploymentReady"}, "False"), TRUE)

(* Mistake: the lock is deleted whoever owns it, and not polled for.       *)
ReleaseUnread(i) ==
    /\ pc[i] \in {"end", "fail"}
    /\ lock' = NoOwner
    /\ MoveTo(i, "released")
    /\ UNCHANGED <<lockCache, gone>>
    /\ AfterRelease(i)
    /\ UNCHANGED <<crVars, podVars, queued, missing, faults>>

Release(i) ==
    /\ pc[i] \in {"end", "fail"}
    /\ \/ ReleaseLock(i)
       \/ DeleteLock(i)
       \/ ConfirmRelease(i)
       \/ GiveUpRelease(i)
    /\ AfterRelease(i)
    /\ UNCHANGED <<crVars, podVars, queued, missing, faults>>

ReleaseFails(i) ==
    /\ pc[i] \in {"end", "fail"}
    /\ Fault("lockDelete")
    /\ DeleteLockFails(i)
    /\ AfterRelease(i)
    /\ UNCHANGED <<crVars, podVars, queued, missing>>

-----------------------------------------------------------------------------
(* The worker is free again.                                               *)
EndPass(i) ==
    /\ LeaveLock(i) \/ (stage[i] = "out" /\ UNCHANGED lockVars)
    /\ Go(i, "idle")
    /\ mem' = [mem EXCEPT ![i] = NoPass]

(* The status that the pass ends with.                                     *)
NewStatus(i) == <<Deferred(mem[i].cond), mem[i].gen>>

(* A merge patch: of the conditions and observedGeneration, what differs   *)
(* from what the pass has read is written, the conditions as a whole.      *)
WriteStatus(i) ==
    /\ cond' = IF NewStatus(i)[1] = mem[i].before[1]
               THEN cond ELSE [cond EXCEPT ![i] = NewStatus(i)[1]]
    /\ observed' = IF NewStatus(i)[2] = mem[i].before[2]
                   THEN observed ELSE [observed EXCEPT ![i] = NewStatus(i)[2]]

(* The new status is an event right away.                                  *)
StatusEvent(i) == i \notin LaggingCR /\ <<cond', observed'>> # <<cond, observed>>

(* Mistake: the whole status is written, changed or not.                   *)
PatchUnchanged(i) ==
    /\ pc[i] = "patch"
    /\ i \notin gone
    /\ EndPass(i)
    /\ cond' = [cond EXCEPT ![i] = NewStatus(i)[1]]
    /\ observed' = [observed EXCEPT ![i] = NewStatus(i)[2]]
    /\ queued' = IF mem[i].again \/ StatusEvent(i)
                 THEN queued \cup {i} ELSE queued
    /\ UNCHANGED <<gen, terminating, finalizer, crCache, podVars, missing, faults>>

(* Mistake: the requeue that the pass asked for is dropped.                *)
PatchWithoutRequeue(i) ==
    /\ pc[i] = "patch"
    /\ i \notin gone
    /\ EndPass(i)
    /\ WriteStatus(i)
    /\ queued' = IF StatusEvent(i)
                 THEN queued \cup {i} ELSE queued
    /\ UNCHANGED <<gen, terminating, finalizer, crCache, podVars, missing, faults>>

(* The deferred PatchInstance; a status that changed is an event.          *)
Patch(i) ==
    /\ pc[i] = "patch"
    /\ i \notin gone
    /\ EndPass(i)
    /\ WriteStatus(i)
    /\ queued' = IF mem[i].again \/ StatusEvent(i)
                 THEN queued \cup {i} ELSE queued
    /\ UNCHANGED <<gen, terminating, finalizer, crCache, podVars, missing, faults>>

(* There is no resource to patch any more, which is an error.              *)
PatchGone(i) ==
    /\ pc[i] = "patch"
    /\ i \in gone
    /\ EndPass(i)
    /\ queued' = IF mem[i].again \/ NewStatus(i) # mem[i].before
                 THEN queued \cup {i} ELSE queued
    /\ UNCHANGED <<crVars, podVars, missing, faults>>

PatchFails(i) ==
    /\ pc[i] = "patch"
    /\ Fault("patch")
    /\ NewStatus(i) # mem[i].before
    /\ EndPass(i)
    /\ queued' = queued \cup {i}
    /\ UNCHANGED <<crVars, podVars, missing>>

-----------------------------------------------------------------------------
(* The watches.                                                            *)
DeliverCR(i) ==
    /\ i \in LaggingCR
    /\ crCache[i] # Resource(i)
    /\ crCache' = [crCache EXCEPT ![i] = Resource(i)]
    /\ queued' = queued \cup {i}
    /\ UNCHANGED <<lockVars, resourceVars, podVars, passVars, missing, faults>>

DeliverLock ==
    /\ SyncLock
    /\ queued' = queued \cup ({lockCache, lockCache'} \ {NoOwner})
    /\ UNCHANGED <<crVars, podVars, passVars, missing, faults>>

DeliverPods ==
    /\ podCache # pods
    /\ podCache' = pods
    /\ queued' = queued \cup Touched(podCache, pods)
    /\ UNCHANGED <<lockVars, crVars, pods, passVars, missing, faults>>

(* The garbage collector.                                                  *)
CollectGoneLock ==
    /\ CollectLock
    /\ UNCHANGED <<crVars, podVars, passVars, queued, missing, faults>>

CollectPod(n) ==
    /\ n \in DOMAIN pods
    /\ pods[n].owner \in gone /\ ~pods[n].deleting
    /\ DeletePods({n}, queued)
    /\ UNCHANGED <<lockVars, crVars, passVars, missing, faults>>

(* The kubelet.                                                            *)
RunPod(n) ==
    /\ n \in DOMAIN pods
    /\ ~pods[n].deleting /\ pods[n].phase # "Done"
    /\ SetPods([pods EXCEPT ![n].phase =
                  IF @ = "Pending" THEN "Running" ELSE "Done"], queued)
    /\ UNCHANGED <<lockVars, crVars, passVars, missing, faults>>

RemovePod(n) ==
    /\ n \in DOMAIN pods
    /\ pods[n].deleting
    /\ SetPods(Without({n}), queued)
    /\ UNCHANGED <<lockVars, crVars, passVars, missing, faults>>

(* The user.                                                               *)
UpdateSpec(i) ==
    /\ i \notin gone \cup terminating
    /\ gen[i] < Len(Specs[i])
    /\ gen' = [gen EXCEPT ![i] = @ + 1]
    /\ QueueChanged(i, queued)
    /\ UNCHANGED <<lockVars, terminating, finalizer, cond, observed, crCache,
                   podVars, passVars, missing, faults>>

DeleteResource(i) ==
    /\ i \in Removable \ (gone \cup terminating)
    /\ QueueChanged(i, queued)
    /\ IF i \in finalizer
       THEN terminating' = terminating \cup {i} /\ UNCHANGED lockVars
       ELSE RemoveInstance(i) /\ UNCHANGED terminating
    /\ UNCHANGED <<gen, finalizer, cond, observed, crCache, podVars, passVars,
                   missing, faults>>

Provide(i) ==
    /\ missing[i] # {}
    /\ missing' = [missing EXCEPT ![i] = {}]
    /\ UNCHANGED <<lockVars, crVars, podVars, passVars, queued, faults>>

DeleteLockByHand ==
    /\ UserDeletesLock
    /\ UNCHANGED <<crVars, podVars, passVars, queued, missing, faults>>

(* The operator restarts: memory and caches are lost, the caches are       *)
(* listed anew and every instance is queued.                               *)
Restart ==
    /\ Fault("restart")
    /\ RestartLock
    /\ pc' = [i \in Instances |-> "idle"]
    /\ mem' = [i \in Instances |-> NoPass]
    /\ podCache' = pods
    /\ crCache' = [i \in Instances |-> IF i \in LaggingCR THEN Resource(i)
                                                           ELSE crCache[i]]
    /\ queued' = Instances \ gone
    /\ UNCHANGED <<resourceVars, pods, missing>>

-----------------------------------------------------------------------------
Pick(i) ==
    \/ SkipGone(i)
    \/ Initialize(i)
    \/ AddFinalizer(i)
    \/ RemoveFinalizer(i)
    \/ StartPass(i)

Work(i) ==
    \/ CheckConfigChange(i)
    \/ Dispatch(i)
    \/ Acquire(i)
    \/ Prepare(i)
    \/ PrepareStops(i)
    \/ CreatePod(i)
    \/ Verify(i)
    \/ Release(i)
    \/ Patch(i)
    \/ PatchGone(i)

Fails(i) ==
    \/ CheckConfigChangeFails(i)
    \/ AcquireFails(i)
    \/ PrepareFails(i)
    \/ CreatePodFails(i)
    \/ CreatePodReplyLost(i)
    \/ ReleaseFails(i)
    \/ PatchFails(i)

User(i) ==
    \/ UpdateSpec(i)
    \/ DeleteResource(i)
    \/ Provide(i)

Next ==
    \/ \E i \in Instances : Pick(i) \/ Work(i) \/ Fails(i) \/ User(i) \/ DeliverCR(i)
    \/ \E n \in DOMAIN pods : CollectPod(n) \/ RunPod(n) \/ RemovePod(n)
    \/ DeliverLock
    \/ DeliverPods
    \/ CollectGoneLock
    \/ DeleteLockByHand
    \/ Restart

Spec == Init /\ [][Next]_vars

(* A pass that was started goes on; the queue of a controller is served in *)
(* order, so an instance that keeps being queued is taken; watches deliver,*)
(* the collector collects, pods run and end, the user provides what is     *)
(* missing.                                                                *)
PodNames == {Name[i] : i \in Instances} \X (-1 .. MaxStep)

Fairness ==
    /\ \A i \in Instances : /\ WF_vars(Work(i))
                            /\ SF_vars(Pick(i))
                            /\ WF_vars(Provide(i))
                            /\ WF_vars(DeliverCR(i))
    /\ \A n \in PodNames : /\ WF_vars(CollectPod(n))
                           /\ WF_vars(RunPod(n))
                           /\ WF_vars(RemovePod(n))
    /\ WF_vars(DeliverLock)
    /\ WF_vars(DeliverPods)
    /\ WF_vars(CollectGoneLock)

FairSpec == Spec /\ Fairness

-----------------------------------------------------------------------------
PodType ==
    [ owner : Instances, step : 0 .. MaxStep,
      hash : UNION {{CalculateConfigHash(i, Specs[i][g]) :
                       g \in DOMAIN Specs[i]} : i \in Instances},
      phase : Phases, deleting : BOOLEAN ]

TypeOK ==
    /\ LockTypeOK
    /\ \A i \in Instances : gen[i] \in DOMAIN Specs[i]
                          /\ observed[i] \in 0 .. gen[i]
                          /\ cond[i] \in AllConditions
                          /\ pc[i] \in PCs
    /\ finalizer \subseteq Finalized
    /\ terminating \subseteq finalizer
    /\ queued \subseteq Instances
    /\ \A view \in {pods, podCache} :
          /\ DOMAIN view \subseteq PodNames
          /\ \A n \in DOMAIN view : view[n] \in PodType

SpecOfPod(n) == pods[n].hash[2]

Serial(n) == ~GetParallel(SpecOfPod(n), pods[n].step)

Active(n) == ~pods[n].deleting /\ pods[n].phase # "Done"

(* The lock guards the pods: a pod of a serial test that is pending or     *)
(* running belongs to the owner of the lock, from the AcquireLock before   *)
(* its creation (common_controller.go:239,248) to its end.  So serial pods *)
(* of two instances never run at the same time.                            *)
SerialPodsOwnLock ==
    \A n \in DOMAIN pods :
       Active(n) /\ Serial(n) /\ pods[n].owner \notin gone => lock = pods[n].owner

(* Workflow steps run one after the other: when a pod is created, the pods *)
(* of its instance, other than those being deleted, are the pods of the    *)
(* earlier steps of the same spec, and all of them are done (NextAction,   *)
(* common.go:204, and CheckConfigChange, common.go:1029).                  *)
StepsInOrder ==
    [][ \A n \in DOMAIN pods' \ DOMAIN pods :
          LET new     == pods'[n]
              earlier == {m \in DOMAIN pods : /\ pods[m].owner = new.owner
                                              /\ ~pods[m].deleting}
          IN  /\ {pods[m].step : m \in earlier} = 0 .. new.step - 1
              /\ \A m \in earlier : /\ pods[m].phase = "Done"
                                    /\ pods[m].hash = new.hash ]_vars

(* Every pod that the spec of generation g asks for exists and is done.    *)
Tested(i, g) ==
    \A s \in Steps(Specs[i][g]) : \E n \in DOMAIN pods :
       /\ pods[n].owner = i
       /\ pods[n].hash = CalculateConfigHash(i, Specs[i][g])
       /\ pods[n].step = s
       /\ pods[n].phase = "Done"

(* What DeploymentReady says.                                              *)
Says(i, status) ==
    "DeploymentReady" \in DOMAIN cond[i] /\ cond[i]["DeploymentReady"] = status

(* DeploymentReady becomes True only when every test pod of the spec the   *)
(* pass has read (its observedGeneration) is done.                         *)
DeploymentReadyEarned ==
    [][ \A i \in Instances :
          ~Says(i, "True") /\ Says(i, "True")'
            => Tested(i, observed'[i]) ]_vars

(* A result is not taken back: when every test pod of the present spec is  *)
(* done and DeploymentReady says so, it goes on saying so, although passes *)
(* may compute the status they write from an older one (the patch replaces *)
(* the list of conditions as a whole, common_controller.go:137).           *)
ResultKept ==
    [][ \A i \in Instances :
          Says(i, "True") /\ Tested(i, gen[i]) /\ gen'[i] = gen[i]
            => Says(i, "True")' ]_vars

(* The lock actions of the passes are steps of the lock protocol: what is  *)
(* proved of module Lock holds here.                                       *)
ImplementsLock == LockSpec

(* Testing comes to an end: from some time on an instance that was not     *)
(* deleted is tested with its last spec, says so, and is not in the way of *)
(* others.                                                                 *)
Finished(i) ==
    /\ Tested(i, gen[i])
    /\ Says(i, "True")
    /\ lock # i

EventuallyFinished == \A i \in Instances : <>[](i \in gone \/ Finished(i))

(* Nothing is left that could wake a controller up.                        *)
Quiet ==
    /\ queued = {}
    /\ \A i \in Instances : pc[i] = "idle"
    /\ lockCache = lock /\ podCache = pods
    /\ \A i \in Instances : Get(i) = Resource(i)
    /\ \A n \in DOMAIN pods : pods[n].phase = "Done" /\ ~pods[n].deleting

(* No wake-up is lost: a pass that returns without a requeue (after it     *)
(* initialised the conditions, created a pod, or found one that is being   *)
(* deleted, common.go:166) is followed by an event as long as there is     *)
(* something left to do.                                                   *)
NoLostWakeup ==
    Quiet => \A i \in Instances \ gone : Finished(i)

(* A deleted instance leaves nothing behind, although its finalizer does   *)
(* no cleaning: in the end its pods and its lock are gone.                 *)
GoneIsCleaned ==
    \A i \in Instances :
       i \in gone ~> [](lock # i /\ \A n \in DOMAIN pods : pods[n].owner # i)
=============================================================================
