# Verification of the test-operator in TLA+

The test-operator is a Kubernetes operator that runs OpenStack test frameworks. Each of its
four custom resources (Tempest, Tobiko, HorizonTest, AnsibleTest) asks for one test pod, or
for a workflow of test pods that run one after the other. This directory holds TLA+ modules
that model its control logic, TLC configurations that check them on small instances, and
theorems checked by TLAPS. `PROJECT.json` lists components, runs, mutants, hazards, findings
and theorems, and maps every definition to the source lines it stands for.

## 1. Inventory

| Component | State | Operations | Where |
|---|---|---|---|
| `test-operator-lock` | one ConfigMap per namespace, whose data names the UID of its owner; the informer cache of it | GetLockInfo, AcquireLock, ReleaseLock | internal/controller/common.go |
| CommonReconcile | status conditions, observedGeneration, finalizer; what a pass has in memory | one pass: Get, initialise, finalizer, NextAction, CheckConfigChange, switch, prerequisites, CreatePod, VerifyNetworkAttachments, deferred patch | internal/controller/common_controller.go |
| Test pods | pods labelled with instance name and step, annotated with the hash of the spec | GetLastPod, NextAction, isLastPodIndex, GetPodName, CreatePod, CheckConfigChange | internal/controller/common.go |
| The four controllers | none of their own | a TestResourceConfig each: what the kind needs, its conditions, its watches, its ConfigMaps and pod | internal/controller/*_controller.go |
| Prerequisites | Secrets, ConfigMaps, PVCs, NetworkAttachmentDefinitions, the OpenStackVersion | Validate..., Ensure..., GetContainerImage | internal/controller/common.go |
| MergeSections | none | overrides fields of the spec by those of a workflow step | internal/controller/common.go |
| Shared clouds ConfigMap | one ConfigMap for all instances | EnsureCloudsConfigMapExists | internal/controller/common.go |
| Admission webhooks | none | defaulting, validation on create, update, delete | api/v1beta1/*_webhook.go |
| Pod builders | none | volumes, mounts, environment of a pod | internal/util, internal/tempest, ... |
| Manager process | one cached client, one work queue and one worker for each controller | start, restart | cmd/main.go |

How they interact. All four controllers share one process, one client and one informer cache.
Reads come from the cache, writes go to the API server, and the two are not synchronised: a
read after a write may not show it. An instance is reconciled when its resource changes, when a
pod or ConfigMap it owns changes *in the cache*, when a pass asks for a requeue or fails, and at
start. Passes of one kind follow each other (MaxConcurrentReconciles is 1); passes of different
kinds interleave at every read and request. What connects instances is the lock, and the pod
names and labels when two resources share a name.

What is hard: the lock is a read-then-write protocol on a stale cache; the passes read the pods
twice and act on the first answer; the resource itself is read from a cache, and the status
computed from it replaces the one at the API server; a pod that was created is not visible yet when the status
event of the same pass starts the next; the Delete of the lock has no precondition; every
request can fail, succeed with its answer lost, or be the last thing before a restart; the
resource can be changed or deleted in the middle of a pass; and only a pass that ends with a
requeue, an error or an event is ever followed by another. On the way to a pod, a workflow step
is laid over the spec by reflection, field by field and Go type by Go type; the same conditions
decide on volumes and on mounts in separate places; volumes are named after the user's objects;
ConfigMaps are named by step and overwritten
when the spec changes; options travel as texts in variables and files, and lists of records as
parallel variables that must stay aligned; the inputs a pod mounts are looked for once, before it
is created, and can be gone when it starts; the volume for its logs may be in use on another
node; and one ConfigMap, owned by the first instance, serves all. `PROJECT.json` lists each of
these under `hazards` at the line where it bites.

What makes it correct: the lock is a mutex and a serial pod runs only for its owner; the steps
of a workflow run in order, once, for the current spec; DeploymentReady is earned; nothing that
is waiting is forgotten; testing ends for everybody; a result, once said, is not taken back; a
deleted instance leaves nothing behind. A container reads of every option what its step gives,
and what the spec gives for the rest; its pod mounts the objects they name and has the rights they
give and no others, is one the API server accepts whatever the user calls these objects, finds when it starts
the configuration that was written for it, and does not share its logs with another; and an input
that is missing is reported.

## 2. Modules

| Module | Models | State |
|---|---|---|
| `Resources` | the kinds and their TestResourceConfig | constants only |
| `Mutex` | abstract: a mutual exclusion lock whose holder may vanish | `holder`, `inside` |
| `Lock` | AcquireLock, ReleaseLock, the lock's cache, collector, restart | `lock`, `lockCache`, `stage`, `gone` |
| `LockProofs` | theorems about `Lock` | |
| `ReconcileProofs` | theorems about the passes: they implement `Lock`, types | |
| `PodProofs` | theorems about the test pods and the lock | |
| `WorkflowProofs` | theorems about the order of steps and DeploymentReady | |
| `WakeProofs` | theorems about wake-ups, results that are kept, and caches that lag | |
| `Pods` | the decisions taken from a list of pods | operators over a list `view` |
| `Conditions` | status conditions and the deferred Mirror | operators |
| `Reconcile` | CommonReconcile, composed with `Lock`, the pods, kubelet, collector, user | everything above and `gen`, `terminating`, `finalizer`, `cond`, `observed`, `crCache`, `pods`, `podCache`, `queued`, `pc`, `mem`, `missing`, `faults` |
| `Claims` | what docs and comments say and the code does not do | |
| `Merge` | the fields of specs and steps, MergeSections | operators |
| `Admission` | the webhooks: defaults and validation | operators |
| `Environment` | how options become variables, files, lists and words, and what a container reads | operators |
| `PodSpec` | images, inputs, ConfigMaps, volumes, mounts and rights of the pods; what the API server and the kubelet ask of them; the names that users give are constants | operators |
| `Build` | from a manifest to a running pod: the user, the building part of CommonReconcile, the clouds ConfigMap, the kubelet | `wanted`, `crs`, `updated`, `gone`, `store`, `clouds`, `cloudsCache`, `lacking`, `withdrawn`, `inputReady`, `pods`, `failures`, `pc`, `mem` |
| `BuildProofs` | theorems about `Build`: types, claims, ConfigMaps; lemmas about manifests and the merge | |
| `ManifestProofs` | theorems about the pods of every manifest: they are accepted, and they carry what is meant | |
| `OptionProofs` | theorem about what containers read, for every manifest, with lemmas about lists of records in variables | |
| `MCLock`, `MCReconcile`, `MCBuild` | constants for TLC | |

**Lock.** `lock` is the owner field of the ConfigMap at the API server (`NoOwner`: no ConfigMap),
`lockCache` the same in the cache. `stage[i]` is where the AcquireLock or ReleaseLock of instance
`i` stands. Each cached read is an action (`AcquireLock`, `ReleaseLock`, `ConfirmRelease`,
`GiveUpRelease`) and each request is one (`CreateLock`, `DeleteLock`), with its failures
(`CreateLockFails`, `DeleteLockFails`: the request may have been carried out). The environment is
the watch (`SyncLock`, which may show a deletion before the next creation), the removal of custom
resources, the garbage collector, a restart and, if `Admitted` says so, a user who deletes the
ConfigMap (`"userDelete"`; with `"overlap"` at any time, otherwise only while nobody acts on the
effect of the last time, `Strays = {}`) and a cache that lags for longer than the 100 s ReleaseLock
polls (`"longLag"`). Time is not modelled, so the ten polls are not counted: `GiveUpRelease` may
follow any poll that still finds a lock, and a poll may be repeated any number of times; what is
claimed of the lock holds however many there are. A Get that fails with another error than NotFound,
or a ConfigMap without the owner field (common.go:529), ends AcquireLock or ReleaseLock (583) with
an error before anything was written; that has no action of its own.

**Reconcile.** A pass is cut at every read of the cache and at every request. `Pick` takes an
instance from the queue when the worker of its kind is free: `SkipGone`, `Initialize`,
`AddFinalizer`, `RemoveFinalizer` and `StartPass` are the first part of CommonReconcile up to
NextAction. `CheckConfigChange` and `Dispatch` are the second list of the pods and the switch;
`Acquire`, `Prepare`/`PrepareStops` (the prerequisites in the order of the code), `CreatePod`,
`Verify`, `Release` and `Patch` (the deferred function) follow. `Fails` are the error paths.
A requeue after some time is an entry in the queue: time is not modelled, so a pass may come
early or late. Whatever changes in the cache queues its owner (`Touched`, `DeliverLock`,
`DeliverCR`). The resource is read through `Get`: for the instances in `LaggingCR` from
`crCache`, which may be behind in spec, status, finalizer and deletion. A pass remembers the
status it has read (`mem.before`) and patches what differs from it, the list of conditions as a
whole and without a resourceVersion (`WriteStatus`), so a pass that read an old status may undo
conditions it never saw. A patch of a resource that is gone fails (`PatchGone`).

**Build.** The complement of `Reconcile`: what is one requirement there is spelled out here, and
the lock, stale pod reads and conditions are left out, as for instances that run in parallel. A
custom resource is the number of one of the manifests its user may write. A manifest gives every
field of the spec a value (zero or given) and every field of a step one of three (omitted, zero,
given), which is all that MergeSections, the webhooks and the pod builders tell apart, besides the
length of names. `StartPass` reads the resource and decides on the step, `ValidateInputs`,
`EnsureLogsPVCExists`, `EnsureCloudsConfigMapExists`/`CreateClouds`, `generateServiceConfigMaps`
(or its failure after any prefix of the writes) and `BuildPod` follow in the order of
CommonReconcile, and the spec may change between any two. `store` records from which spec and step
each ConfigMap was last written. `lacking` holds the Secrets, ConfigMaps and keys of the user that
are missing; `Provide` and `Withdraw` change it at any moment. A pod starts when all it mounts or
takes its environment from is present and, if it was scheduled to another node (`apart`), when
nobody holds its claim. A pod in debug mode may be kept alive for good.

**PodSpec.** `BuildTestPod` is the pod: image, networks, placement, resources, security context, the
lists of volumes and mounts in the order in which GetVolumes and GetVolumeMounts of each kind make
them. A volume has a name and a source, a mount the name of a volume and a path. Where the code names a
volume after an object of the user, so does the model: `OpenstackName` has the names of the openstack
ConfigMap and Secret of each instance, `ExtraConfigmaps` the entries (ConfigMap and path) of the lists
of its spec and of its steps, `ExtraMounts` its extra volumes and mounts; `NotLabels` are names that a
ConfigMap may have and a volume may not (more than 63 characters, or dots). `Accepted` is what the API
server asks: distinct names of volumes, all of them labels, distinct paths, no mount without a volume.

**Environment.** One operator for each function that writes options (`setTempestConfigVars`,
`PrepareTobikoEnvVars`, ...) and for each helper of common.go they use. A variable or file is
named by the option it carries; its text is the value, a placeholder, "true"/"false", or the path
of a file. Lists of plugins, images and packages are sequences of tokens with commas in between,
as SetDictEnvVar writes them. `Reads` and `ReadEntries` are the other end, the container, which is
not part of this repository; an option that is in no variable, file, list or word is read as empty.
`ReadsWhatIsMeant` compares what is read with the manifest, for all options that are meant for the
test. Those that are part of the pod (`PodOptions`) are compared with the pod itself by `PodsAsMeant`;
Parallel and StorageClass are neither: the first is about the lock and the claim, the second about the claim.

Abstractions of `Build`, `PodSpec`, `Environment`, `Merge` and `Admission`:
- the fields of TempestRun and TempestconfRun stand beside those of the spec (`RunParallel` and
  `ConfDebug` are the Parallel and Debug there);
- lists have two or three entries, with all attributes or with the required one only; variables
  with a constant value are left out;
- the names of the openstack ConfigMap and secret and of the compute key of AnsibleTest are
  given: the resource definitions fill them in when they are left out (`FilledIn`);
- a Secret or ConfigMap of the user is there or not; the keys clouds.yaml and secure.yaml, which
  ValidateInputs asks for, are missing together with it, the key of an SSH key or a kubeconfig,
  for which nobody asks, may be missing alone;
- the names in `OpenstackName`, `ExtraConfigmaps` and `ExtraMounts` are those of all manifests of an
  instance, so an update may add or drop a list but not rename; an object is identified by the field that
  names it and, in a list, by its own name, so two fields that name one object count as two objects;
- paths of mounts are abridged; which of the ExtraMounts are meant for a pod (Propagate, in
  lib-common) is not modelled: all of them are;
- what is copied from the spec as it is (resources, tolerations, node selector, networks, SELinux
  level) is given or not, and taken to be valid;
- of the name of an instance the length matters; names with dots, which no container can have, are
  left out;
- InputReady is set when the inputs are validated; that it is written with the patch at the end
  of the pass, and not at all after a panic, matters only until the next pass;
- a ConfigMap's content is the spec and step it comes from; `Environment` says what that is;
- pods and claims are read as they are; only the clouds ConfigMap has a cache.

Abstractions of `Reconcile`:
- a spec is its workflow and its Parallel field; everything else in it matters only through the
  hash, which is taken to be injective;
- Running and Unknown pods are one phase, Succeeded and Failed are another, as in NextAction;
- the five prerequisites are met, missing or fail; `Build` has what they contain;
- conditions have a type and a status, and no reason, severity or message;
- the pods of the cache follow the API server in one jump (`DeliverPods`), or at once when
  `Lagging` is FALSE; so does the resource in `crCache` (`DeliverCR`, `LaggingCR`);
- AcquireLock's look at the lock and the one EnsureConfigMaps takes right before it creates
  the ConfigMap are one read: a lock of somebody else that appears in between makes
  SetControllerReference fail, and the call ends as when `CreateLock` finds a lock;
- AddFinalizer is one action without a failing patch: the pass would only be repeated;
- pods of `debug` tests, which never end, are excluded where termination is claimed.

## 3. Runs

| Run | Instance | Shows |
|---|---|---|
| `lock` | 3 instances, one with finalizer | the lock protocol is a mutex (`HeldIsOwned`, `OnlyOwnerReleases`, `ImplementsMutex`) in the ordinary environment, and the invariant its proof rests on (`CacheIsTruthful`) |
| `lock_by_hand` | the same, and the lock is deleted by hand, again once nobody acts on the last time | the harm does not add up: one instance at a time takes itself for an owner it is not (`OneStrayAtMost`) |
| `serial` | Tempest with a two-step workflow that is replaced by a plain spec at any time, AnsibleTest; 2 faults | `SerialPodsOwnLock`, `StepsInOrder`, `DeploymentReadyEarned`, `NoLostWakeup`, and the passes implement `Lock` (`ImplementsLock`) |
| `live` | Tempest whose input is missing at first and that becomes parallel, AnsibleTest; 1 fault, lost answers included | `EventuallyFinished` |
| `mixed` | two Tempests on one worker whose steps differ in Parallel, HorizonTest; no faults | `SerialPodsOwnLock`, `EventuallyFinished`, `EventuallyReady` (which a lost status patch would break, see section 5) |
| `delete` | Tempest deleted at any time, the lock deleted by hand at any time, a lock cache that lags for longer than ReleaseLock polls, AnsibleTest | `GoneIsCleaned`, `EventuallyFinished` |
| `lag` | Tempest with two steps, caches of pods and resource behind, deleted at any time; 1 fault, lost answers included | `NoLostWakeup`, `StepsInOrder`, `DeploymentReadyEarned`, results are not taken back (`ResultKept`), `EventuallyFinished`, `GoneIsCleaned` |
| `build` | Tempest, Tobiko, AnsibleTest and HorizonTest one by one, each with up to ten manifests, and a Tobiko with a HorizonTest; a Tempest, a Tobiko and an AnsibleTest whose user gives names that clash; 1 update, 1 failure; some deleted, some with inputs that are missing or withdrawn | containers read what manifests mean (`ReadsWhatIsMeant`), pods carry what they mean (`PodsAsMeant`), pods are accepted (`PodsAccepted`), claims are not shared by running pods (`LogsNotShared`), pods find their own configuration (`RunsItsOwnConfig`), all tests are run (`EventuallyTested`), missing inputs are reported (`MissingInputsReported`) |
| `two_pods` | lagging pod cache | refutes "only one test pod ... at the same time" |
| `foreign_release` | AnsibleTest deleted in the middle of its pass | refutes "Lock can be only released by the instance that created it" |
| `skipped_step` | plain spec becomes a workflow, lagging pod cache | refutes "The associated pods will be recreated" |
| `network` | network attachments come up late | refutes "prerequisite checks should be run on each reconcile" |

Bounds. `MaxFaults` limits faults (one or two: the error paths end the pass, so a longer
sequence of faults repeats the states of a shorter one); `MaxStep` limits the step index of a
pod (workflows have at most two steps, and no pass of the passing runs goes beyond them);
`Specs` gives each instance at most two specs, one after the other. `lag` has one fault because
two lagging caches and a deletion multiply its interleavings already; the runs `serial` and
`live` have the longer sequences and the second instance. Two instances of different
kinds are enough for every interleaving of two passes, a third (`mixed`) shares a worker. The
run `lock` has three instances because the lock must be able to change hands between two while
a third still believes an older cache; the theorems remove that bound.

In `build`, manifests have all fields alike (all given, all zero, all omitted), which is enough
because MergeSections, environment, volumes and mounts treat each field by itself, plus the
mixtures that matter: debug mode off in workflows, one SSH key of the two, a step that overrides
before one that inherits, two steps on one claim. Names have 50 characters, the longest a Tempest
can have (with step names of 7 the pod name has 62, the longest that is admitted), except for a
Tempest of 51 and a HorizonTest of
64. `MaxUpdated` lets one spec change once, at any moment; `MaxFailures` lets one pass fail at
any of its writes. At most one object of the user is missing at a time, and each object in
`Withdrawable` is withdrawn once: a pod or a pass is stopped by any one of them, and the objects
in `MCLacking` and `MCWithdrawable` are of every sort (looked for in each step, in one step, not
at all; a whole object, a key). Of the names that users give, `MCBuild` has each way to clash: one
name for the openstack ConfigMap and Secret (which harms a Tempest, but not a Tobiko), a ConfigMap
listed twice, one that is mounted anyway, the name of a volume of the operator, one that is no label,
and a path that is taken. Kinds that share nothing are looked at one by one (`Populations`); Tobiko and
HorizonTest share the clouds ConfigMap and are looked at together.

Fairness. `Work` is weakly fair: a pass that was started runs to its end unless the operator
restarts. `Pick` is strongly fair: the work queue is first in, first out and has one worker for
each kind, so an instance that is queued again and again is taken, although the worker may be
busy in between. Watches, collector and kubelet are weakly fair, and the user provides what is
missing. Faults, restarts, updates and deletions are not fair. In `Build` the passes of each instance, the
kubelet, the watch and the collector are weakly fair; failures are bounded instead. That a pod in
debug mode ends (`KubeletWithoutDebug`) and that the user provides what is missing is not assumed.
`EventuallyTested` says what an instance may wait for then: an object that is missing (`Blocked`),
a pod that is rejected (`Rejected`) or kept alive (`KeptAlive`), the clouds ConfigMap
(`CloudsAtRisk`). Deadlock is not checked in the
runs of MCReconcile and MCBuild, because the system really comes to rest; that it rests only when its work
is done is `NoLostWakeup` and `EventuallyFinished`.

## 4. Proofs

All theorems are for any set of instances, kinds, names, specs, manifests and bounds that satisfy
the named assumptions of the modules; those assumptions only say what the constants are. What a
theorem needs beyond them is in its `ASSUME`, and is explained here.

### The lock (`LockProofs`)

| Theorem | Says |
|---|---|
| `LockTypes` | `[]LockTypeOK`, in every environment |
| `LockExclusion` | `[]HeldIsOwned` |
| `LockCacheTruthful` | `[]CacheIsTruthful` |
| `LockRelease` | `OnlyOwnerReleases` |
| `LockImplementsMutex` | `ImplementsMutex` |
| `LockHarmIsBounded` | `[]OneStrayAtMost`, although the lock is deleted by hand |

The first holds in every environment. The last excludes only a cache that outlasts ReleaseLock's
polling and a deletion by hand before the effect of the last one is over; the others assume that
nothing extraordinary is admitted (`Admitted = {}`). All but the first speak of behaviours up to the
first removal of a resource without a finalizer (`Orderly`): beyond it a Delete request may take the
lock from its owner, which is what `foreign_release` shows.

The argument. `HeldIsOwned` alone is not inductive: AcquireLock and ReleaseLock believe the cache,
so one must know that the cache does not tell an instance that it owns a lock that is not its own.
That is `CacheIsTruthful`, and it holds because ReleaseLock, after its Delete request, polls until
the cache has forgotten the lock: exactly the instances in `confirm` may see a stale lock of their
own. It needs `GoneAreOut`, a conjunct of the invariant in `LockProofs`: a Tempest is removed only
between its passes, so no pass of it is under way when the collector takes the lock from it. The
conjunction of the four is inductive (`OwnershipStep`); the action property and the refinement
follow from it.

`LockHarmIsBounded` is inductive with the types and `GoneAreOut`. A deletion by hand makes a stray
of the owner, who still believes the cache or has been let through already. The Delete request of a
stray, which has no precondition, can make the next owner one, but the first then polls, and so no
longer takes itself for the owner: strays follow one another and are never two. Without the polling,
or with a cache that outlasts it, they are.

### The passes (`ReconcileProofs`)

`ReconcileImplementsLock` is `Spec => ImplementsLock` without any assumption: whatever lags,
fails, restarts or is deleted, the passes of CommonReconcile use the lock as `Lock` says. So the
results on the lock carry over: `ReconcileExclusion` (`[]HeldIsOwned`) and
`ReconcileImplementsMutex`. The invariant is `PassInv`: the place of a pass determines the stages
its lock operation can be in (`PassFollowsLock`), and a resource of a kind with a finalizer is
there while a pass of it is under way, which has to be known of the cached resource too, because
the pass that takes the finalizer off decides on what the cache shows (`CachedFinalizerHolds`).

`ReconcileTypes` is `[]TypeOK`. `TypeOK` says nothing of what a pass remembers or of what the
caches show, and is not inductive without it; `TypeInv` says it, for instance that the generation
in hand is not newer than the one of the resource, so that its spec exists.

### The test pods (`PodProofs`)

- `SerialPodsGuarded`: `[](Orderly => SerialPodsOwnLock)`, a serial pod that is pending or running
  belongs to the owner of the lock;
- `SerialPodsAlwaysGuarded`: `[]SerialPodsOwnLock`, when only resources with a finalizer are
  deleted (`Removable \subseteq Finalized`: then the behaviour is always `Orderly`);
- `OneSerialPodAtATime`: `[]OneSerialPod`, of all serial pods at most one is pending or running.

They assume `Admitted = {}` as above; a pod cache that does not lag (`~Lagging`) and no lost answer
to CreatePod, because an AlreadyExists answer makes the code release the lock under the running
pod, which is what `two_pods` shows; and `NamesDiffer`, that no two resources share a name, because pods are
found by the name of the instance, which is unique only within a kind (common.go:1008).

The invariant. `PodInv`: only the last pod of an instance is active, a pass on its way to
CreatePod or to the end of the testing has no active pod (`NothingRuns`), and the step it will
create is beyond the existing ones (`StepIsNew`); it carries NextAction's decision across the rest of the
pass. `GuardInv`: only a step that may run in parallel passed AcquireLock without the lock, a pass
that gives the lock back after a failed CreatePod leaves no active pod (`FailedAlone`), and the
property itself.

### Workflows and DeploymentReady (`WorkflowProofs`)

- `WorkflowInOrder`: `StepsInOrder`, for workflows of any length. `OrderInv`: all pods of an instance
  are of one spec, no step is skipped among them, and what NextAction found holds until the pass
  acts on it, for the spec that CheckConfigChange has compared with the pods. A Delete of
  CheckConfigChange that fails may leave a step without the ones before it; then the pods are
  `Outdated`: no pass will read their spec again. That needs that a generation once read is not
  followed by an older one (`LeastRead`) and that no pod is newer than what passes read (`PodsAreOlder`);
- `ReadyOnlyWhenTested`: `DeploymentReadyEarned`. `EarnedInv`: the status a pass compares with is
  the current one (`BeforeIsCurrent`, hence `LaggingCR = {}`), and a pass that is about to say
  True for the first time has found all pods done.

Both exclude a lagging pod cache (`skipped_step` shows why) and assume `LeftoversAreOld`: no Delete of
CheckConfigChange fails, or no resource is given a spec again that it had before (see the
observations below); the first speaks of resources whose removal waits for the finalizer.

### Wake-ups and results (`WakeProofs`)

- `NoWakeupIsLost`: `[]NoLostWakeup`, for custom resources that may lag (any `LaggingCR`). The
  property speaks of rest, so the invariant has to say for each place of a pass who will call the
  instance again. `ShapeInv`: pods carry the names and steps their spec asks for, so a pass that
  finds a pod of the name it wants to create has found one that will still cause an event.
  `WakeInv`: an instance that is not queued, has no pass and is shown as it is waits for a pod
  that is not done or is being deleted, or has nothing left to do (`IdleIsAttended`); so does a
  pass behind CreatePod (`VerifyIsAttended`) and one that will neither be repeated nor change the
  status (`EndIsAttended`). That nothing is written means that the result was there needs
  `ReadInv`: a pass always has conditions to mark (`HasConditions`), and, unless an event is
  queued, what it has read is what the next one would read (`ReadIsCached`, `CacheIsBehind`). It
  rests on `OrderInv`;
- `ResultIsKept`: `ResultKept`. `KeptInv`: a pass behind a failed CreatePod, or one that is about to take
  the result back, has an instance of which no pod runs and no spec is tested
  (`FailsIncomplete`, `RevokedIncomplete`); a pod that is being deleted is not done (`DeletedNotDone`).

Both assume `~Lagging` and `LeftoversAreOld`; the second also that the custom resources do not lag and that
no answer to CreatePod is lost. Section 5 says what goes wrong without the latter three.

### Caches that lag (`WakeProofs`, second half)

`WorkflowInOrderDespiteLag`, `ReadyOnlyWhenTestedDespiteLag`, `ResultIsKeptDespiteLag` and
`NoWakeupIsLostDespiteLag` state `StepsInOrder`, `DeploymentReadyEarned`, `ResultKept` and
`[]NoLostWakeup` for any `Lagging`, `LaggingCR`, faults (lost answers to CreatePod included),
instances and workflows, when no spec is changed (`OneSpec`) and names differ; the first again for
resources whose removal waits for the finalizer. The same four are checked by the run `lag`.
Without `OneSpec` all four are false: under a lagging cache by the behaviour of `skipped_step`,
which ends untested, says True and is not called again, and `ResultKept` by the ones of section 5.
The invariants:
- `LagInv`: the pods of an instance, and what the cache shows of them, are consecutive steps of the
  spec, all done but the last (`InOrder`), and the cache shows less than there is but nothing that is
  not so (`Contains`). A decision of NextAction was shown by the cache (`DecidedInOrder`): if it is
  late, the pod it wants exists and the API server refuses the name;
- `SaidInv`: whoever says True (the status, the cache of it, or a pass) has seen the tests done in the
  cache (`SaidIsSeen`), and observedGeneration only grows;
- `AgainInv`: a pass that runs when there is a result finds it again or writes nothing
  (`FindsAgain`), because what it read was left by the deferred function (`Settled`), and was not
  the empty list of a new resource (`HasRead`);
- `ExpectInv`: who is not called has a pod that the cache does not show as done (`Expecting`), or nothing
  left to do. The event that ends the wait is the one that changes the cache (`PodsWatched`), so the
  argument is about the cache and not about the pods. A pass that stops behind CreatePod has really
  created a pod: one that was in the cache when the pass looked for the last pod is not what it
  asks for, and one that came later came with an event (`CreatesNew`).

### From the manifest to the pod (`BuildProofs`, `ManifestProofs`, `OptionProofs`)

- `BuildTypes`: `[]TypeOK`;
- `ClaimsNotShared`: `[]LogsNotShared`, from `AloneInv`: of an instance only the last pod is not
  done, none while a pass is on its way to the next;
- `PodsRunTheirOwnConfig`: `RunsItsOwnConfig`, from `ConfigInv`: what a pass has written is as it wrote it
  when it builds the pod (`PassHasWritten`) and until the pod starts (`WrittenForPods`). Passes of other
  steps and specs write the same names, so it rests on `AloneInv`: no pass is on its way while a
  pod is pending, and CheckConfigChange deletes the pods of an older spec;
- `PodsAreAccepted`: `[]PodsAccepted`. Volumes and mounts are concatenations of pieces that the
  spec switches on and off, some with names and paths of the user; each piece has distinct names
  (`Separate`), those of two pieces do not meet, and the mounts of each piece have their volumes, whatever is
  switched on, unless the names or paths of the user clash (`NamesClash`, `MountsClash`). The container
  name is short enough because a name is validated when the resource is created and cannot change
  (`NamesValidated`);
- `PodsCarryWhatIsMeant`: `[]PodsAsMeant`. The lists of a kind have the objects that its fields
  name, each mounted, and no others of the user (`KindListsRight`), and so have, with the common
  ones, the extra ones and those that AnsibleTest adds again, the lists of the pod
  (`PodListsRight`); what is added again is what the merge has already (`StepExtrasMerged`), and
  what the resource definitions fill in is given after the merge, too (`FilledInAfterMerge`);
- `OptionsArrive`: `[]ReadsWhatIsMeant`. A pass builds from a manifest and a step it has
  (`ManifestInv`); MergeSections gives every option what is meant unless it is a known deviation
  (`MergedIsMeant` of `BuildProofs`); and each kind delivers every option for the test of the
  merged spec (`Delivered`), a key of Tobiko without the other (`LoneKey`) excepted: by a
  variable, a file, words of PYTEST_ADDOPTS, or a list. For lists it is shown that SetDictEnvVar
  and the pieces between the commas are inverse to each other (`ListsReadBack`).

All but `BuildTypes` assume `NamesDiffer`. The run `build` has a few manifests with all fields alike; the
theorems cover every combination of given, zero and omitted fields, in steps of any number.

### Only model-checked

- liveness: `EventuallyFinished`, `EventuallyReady`, `EventuallyTested`, `GoneIsCleaned`,
  `MissingInputsReported`: leads-to properties under fairness are out of the prover's
  reach;
- lists of more than three entries: that needs induction over the list.

## 5. Findings

Four disagreements between code and documentation or comments have a run that refutes the claim
(`findings` in `PROJECT.json`):
1. `two_pods`: an AlreadyExists answer to CreatePod releases the lock under the running pod.
2. `foreign_release`: the Delete request of ReleaseLock can remove the lock of another instance.
3. `skipped_step`: NextAction's decision from the old pods is applied to the new spec.
4. `network`: attachments that come up after the creating pass are never noticed.

Observations without a run of their own:
- `parallel: true` on a workflow makes its steps skip the lock; they still run one after the
  other, unlike what docs/source/crds.rst:102 and 135 say;
- the branch of CommonReconcile that sets DeploymentReady to False with "Deployment is running"
  (common_controller.go:362) is dead, because CreatePod always returns an empty result;
- Ready and DeploymentReady stay True, with the new observedGeneration, from the update of a
  spec until its new pods are done;
- a pass that reads an old status writes its list of conditions over the newer one. The result
  survives (`ResultKept`), but other conditions may not: when a pod runs to its end before the
  cache shows the status that the creating pass wrote, InputReady and its like go back to Unknown
  and the instance does not become Ready;
- a failed status patch after the creation of the pod leaves InputReady and its like Unknown,
  and the instance never becomes Ready;
- the pods of an instance are found by the label instanceName alone (common.go:1008): resources
  of two kinds with one name see each other's pods and delete them because the hash differs;
- the clouds ConfigMap is owned by the instance that created it: when that is deleted, the
  ConfigMap is collected, and a pod of another instance that has not started yet waits forever,
  because nobody creates the ConfigMap anew while a pod is pending (`CloudsAtRisk` in `Build`).
  It is also built from the openstack ConfigMap of the first instance for all of them, and
  EnsureCloudsConfigMapExists panics when that has no clouds (common.go:804);
- MergeSections never merges CommonOpenstackConfig of a step, takes "" for omitted, and lets an
  omitted Debug of an AnsibleTest step and the default of BackoffLimit override the spec
  (`Deviates` in `Build`);
- ExtraConfigmapsMounts of an AnsibleTest step are added twice, and the API server rejects the
  pod; so it does for a Tempest whose name has more than 50 characters, although the webhook
  admits 62, and for a HorizonTest without an image, because the manager deployment sets
  RELATED_IMAGE_HORIZONTEST_... and GetContainerImage asks for RELATED_IMAGE_TEST_HORIZONTEST_...
  (`KnownRejection` in `Build`);
- volumes are named after the openstack ConfigMap and Secret and after each ConfigMap of
  ExtraConfigmapsMounts (util/volumes.go:61, 77 and 225), and nobody validates these names: when
  the ConfigMap and the Secret have one name (in a Tempest or AnsibleTest), when a ConfigMap is
  listed twice, for two keys say, is also the openstack one, or is called like a volume of the
  operator, or when the name of an object has dots or more than 63 characters, the API server
  rejects every pod (`NamesClash`, `MountsClash`);
- Tobiko mounts its keys only when both are given (tobiko_controller.go:131): one alone is written to its
  ConfigMap and does not reach the test (`LoneKey`); only a log message says so;
- Tobiko and HorizonTest name an openstack ConfigMap, which is validated, but mount the shared one that was
  derived from the ConfigMap of whoever created it (`Carries`);
- ValidateUpdate validates nothing, so what ValidateCreate refuses can be had by an update; debug
  mode and a workflow may go together in an AnsibleTest; ExtraImages in a step do not need
  privileged mode; the name of a HorizonTest is not validated;
- in debug mode a pod is kept alive after a failure; the webhook refuses debug mode with a workflow
  for Tempest and Tobiko, but not for AnsibleTest, where the next step then waits (`KeptAlive`);
- ValidateInputs does not look for the SSH keys of AnsibleTest, for ExtraConfigmapsMounts, or for
  the keys in the SSH key and kubeconfig Secrets, and a pod that is pending is never looked at
  again: such an instance waits with InputReady True (`Unchecked`, `WaitsUnnoticed` in `Build`);
- of a HorizonTest, ImageUrl, ProjectName, User, Password, FlavorName, LogsDirectoryName and
  HorizonTestDir are documented options that the code does not use (horizontest_controller.go:169
  to 186 has constants), and nobody uses BackoffLimit (`UnusedOptions` in `Build`);
- the volume horizontest-config refers to a ConfigMap nobody creates; it is not mounted.

Found while proving:
- CheckConfigChange deletes pod after pod and stops at the first Delete that fails. When the spec
  is changed and then changed back, a later step may be left without the earlier ones, with the
  right hash, and NextAction goes on from there: with three steps out of order, with two to
  DeploymentReady True at once, and an instance that is not tested may rest without a wake-up. So
  `WorkflowInOrder`, `ReadyOnlyWhenTested`, `NoWakeupIsLost` and `ResultIsKept` allow that fault
  only when no spec comes back (`LeftoversAreOld`);
- when the spec was updated and the answer to the CreatePod of the new spec is lost, the patch at
  the end of that pass can come after the pod is done and another status was written, and says
  DeploymentReady False over it: `ResultIsKept` excludes that fault;
- when the cache of the resource lags, the spec is updated and a request of the next pass fails
  (CreatePod, or one of the prerequisites), the following pass, which read the old status, writes its
  DeploymentReady True back although the pods of the new spec are not done: `ReadyOnlyWhenTested`
  needs `LaggingCR = {}`. With an updated spec a pass that read an old status takes a result back,
  too, so `ResultIsKept` needs it as well. All of this needs a spec that changes: with a single one
  results are kept under any lag and with lost answers (`ResultIsKeptDespiteLag`, run `lag`);
- what docs/source/guide.rst:234 says of serial tests holds when the pod cache keeps up
  (`OneSerialPodAtATime`); `two_pods` needs one that does not.

## 6. Plan

Modelled: the lock, the passes, pods and conditions under lagging caches; merging, admission,
environment, inputs, ConfigMaps, claims and the shape of the pods. Proved: the safety invariants
of `Lock`, `Reconcile` and `Build`, the refinements, and the action properties; those of `Reconcile` that hold
under lagging caches, also for these. What is left to TLC is listed at the end of section 4.

Not modelled, and why:
- cmd/main.go beyond the shared client, the workers and restarts: flags, TLS and webhook
  certificates, metrics, probes and leader election options are read once and passed on;
- generated deep copies (zz_generated.deepcopy.go), and manifests;
- labels of a pod other than those it is found by, users and groups: constants or derived from names, and no
  code of the operator reads them back;
- webhook warnings, log messages, reasons and messages of conditions: they decide nothing;
- two kinds under one name (common.go:1008) and the clouds ConfigMap after the deletion of its
  owner (common.go:785) are described above and excluded from the properties they would break.
