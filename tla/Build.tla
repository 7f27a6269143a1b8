-------------------------------- MODULE Build --------------------------------
(***************************************************************************)
(* From a custom resource to running test pods: admission, the part of     *)
(* CommonReconcile that prepares what a pod needs and builds it (lines     *)
(* 186 to 345 of common_controller.go), the ConfigMap that instances       *)
(* share, the objects that the user provides, the API server that accepts  *)
(* or rejects the pod, and the kubelet that waits for its volumes and may  *)
(* find one in use on another node.  Module Reconcile treats all this as   *)
(* prerequisites that are met or not; in turn the lock is left out here,   *)
(* as for instances that run in parallel, and pods are read currently.     *)
(***************************************************************************)
EXTENDS Pods, PodSpec, Functions

CONSTANTS
    Populations,  \* which instances there may be together
    Manifests,    \* the specs that a user may write for each instance; the
                  \* state refers to them by their number
    Lacking,      \* objects of the user of which one may be missing at first
    Withdrawable, \* objects the user may take away
    Removable,    \* instances the user may delete
    MaxUpdated,   \* bound: how many instances are updated, once each
    MaxFailures,  \* bound: how many passes fail to write a ConfigMap
    Nobody        \* not an instance: the owner of what nobody owns

(* Names that the custom resource definitions fill in when they are left   *)
(* out; no manifest empties them.                                          *)
FilledIn == CommonOpenstackConfig \cup {"ComputeSSHKeySecretName"}

ASSUME PopulationsAssumption == Populations \subseteq SUBSET Instances
ManifestType(kind) ==
    [ main     : [Fields(kind) -> {"empty", "main"}],
      workflow : Seq([StepFields(kind) -> StepValues]) ]

ASSUME ManifestsAssumption ==
    \A i \in Instances : \A g \in DOMAIN Manifests[i] :
       LET m == Manifests[i][g] IN
       /\ m \in ManifestType(Kind[i])
       /\ \A f \in FilledIn \cap Fields(Kind[i]) : m.main[f] = "main"
       /\ m.workflow # <<>> => Config[Kind[i]].SupportsWorkflow
ASSUME ObjectsAssumption == Lacking \cup Withdrawable \subseteq UserObjects
ASSUME BoundsAssumption == MaxUpdated \in Nat /\ MaxFailures \in Nat
ASSUME NobodyAssumption == Nobody \notin Instances

VARIABLES
    wanted,       \* instances still to be created
    crs,          \* which manifest each custom resource has, 0 if none
    updated,      \* instances whose spec was changed
    gone,         \* instances that were deleted
    store,        \* ConfigMaps and claims of the instances, and what each was
                  \* written from
    clouds,       \* the owner of the shared ConfigMap
    cloudsCache,  \* the same in the cache
    lacking,      \* objects of the user that are missing
    withdrawn,    \* objects that were taken away
    inputReady,   \* the condition InputReady
    pods,         \* the test pods
    failures,     \* how many passes failed to write a ConfigMap
    pc,           \* where the pass of each instance stands
    mem           \* the spec and the step it works on

crVars == <<wanted, crs, updated, gone>>
cloudsVars == <<clouds, cloudsCache>>
inputVars == <<lacking, withdrawn, inputReady>>
passVars == <<failures, pc, mem>>
vars == <<crVars, store, cloudsVars, inputVars, pods, passVars>>

(* The specs of the manifests, as the defaulting webhook leaves them.      *)
Specs ==
    [i \in Instances |->
       [g \in DOMAIN Manifests[i] |-> Default(Kind[i], Manifests[i][g])]]

SpecOf(i, g) == Specs[i][g]

(* What all steps of the specs need and lead to: the inputs, and the pods, *)
(* without and with the certificates mounted (do they pass the API server, *)
(* and what do they wait for).                                             *)
Needed ==
    [i \in Instances |-> [g \in DOMAIN Manifests[i] |->
       [k \in Steps(Specs[i][g]) |-> Inputs(i, StepSpec(Kind[i], Specs[i][g], k))]]]

Built ==
    [i \in Instances |-> [g \in DOMAIN Manifests[i] |->
       [k \in Steps(Specs[i][g]) |-> [mountCerts \in BOOLEAN |->
          LET pod == BuildTestPod(i, Specs[i][g], k, mountCerts)
          IN  [accepted |-> Accepted(i, pod), awaits |-> Awaited(i, k, pod)]]]]]

NoPass == [cr |-> 0, step |-> 0]

Init ==
    /\ wanted \in Populations
    /\ crs = [i \in Instances |-> 0]
    /\ updated = {}
    /\ gone = {}
    /\ store = [c \in {} |-> Nobody]
    /\ clouds = Nobody
    /\ cloudsCache = Nobody
    /\ lacking \in {{}} \cup {{o} : o \in {p \in Lacking : p[1] \in wanted}}
    /\ withdrawn = {}
    /\ inputReady = [i \in Instances |-> "Unknown"]
    /\ pods = [n \in {} |-> Nobody]
    /\ failures = 0
    /\ pc = [i \in Instances |-> "idle"]
    /\ mem = [i \in Instances |-> NoPass]

-----------------------------------------------------------------------------
(* The user, through the webhooks.                                         *)
Create(i) ==
    /\ i \in wanted
    /\ \E g \in DOMAIN Manifests[i] :
          /\ ValidateCreate(i, SpecOf(i, g))
          /\ crs' = [crs EXCEPT ![i] = g]
    /\ wanted' = wanted \ {i}
    /\ UNCHANGED <<updated, gone, store, cloudsVars, inputVars, pods, passVars>>

Exists(i) == crs[i] # 0 /\ i \notin gone

Update(i) ==
    /\ Exists(i)
    /\ i \notin updated
    /\ Cardinality(updated) < MaxUpdated
    /\ \E g \in DOMAIN Manifests[i] \ {crs[i]} : crs' = [crs EXCEPT ![i] = g]
    /\ updated' = updated \cup {i}
    /\ UNCHANGED <<wanted, gone, store, cloudsVars, inputVars, pods, passVars>>

(* The finalizer of a Tempest is removed by a pass of its own.             *)
Delete(i) ==
    /\ Exists(i)
    /\ i \in Removable
    /\ NeedsFinalizer(Kind[i]) => pc[i] = "idle"
    /\ gone' = gone \cup {i}
    /\ UNCHANGED <<wanted, crs, updated, store, cloudsVars, inputVars, pods, passVars>>

(* An object that is missing is created, or one is deleted; each is        *)
(* deleted once at most, and no two are missing at a time.                 *)
Provide(o) ==
    /\ o \in lacking
    /\ lacking' = lacking \ {o}
    /\ UNCHANGED <<crVars, store, cloudsVars, withdrawn, inputReady, pods, passVars>>

Withdraw(o) ==
    /\ lacking = {} /\ o \notin withdrawn
    /\ Exists(o[1])
    /\ lacking' = {o}
    /\ withdrawn' = withdrawn \cup {o}
    /\ UNCHANGED <<crVars, store, cloudsVars, inputReady, pods, passVars>>

-----------------------------------------------------------------------------
(* The pass.                                                               *)
Go(i, where) == pc' = [pc EXCEPT ![i] = where]

(* Mistake: the next pass would go on with the spec of this one.           *)
EndPassKeepingSpec(i) ==
    /\ Go(i, "idle")
    /\ UNCHANGED mem

EndPass(i) ==
    /\ Go(i, "idle")
    /\ mem' = [mem EXCEPT ![i] = NoPass]

SpecInHand(i) == SpecOf(i, mem[i].cr)

(* What a ConfigMap is written from, instead of the values in it.  The     *)
(* hash of a spec is that of its number.                                   *)
Written(i) == <<CalculateConfigHash(i, mem[i].cr), mem[i].step>>

(* Pods of an outdated spec are deleted; a finished one is gone at once.   *)
Recreate(i) ==
    /\ Exists(i)
    /\ pc[i] = "idle"
    /\ TRUE \in ConfigChanged(i, crs[i], pods)
    /\ LET old  == Listed(i, pods)
           done == {n \in old : pods[n].phase = "Done"}
       IN  pods' = [n \in DOMAIN pods \ done |->
                      IF n \in old THEN [pods[n] EXCEPT !.deleting = TRUE]
                                   ELSE pods[n]]
    /\ UNCHANGED <<crVars, store, cloudsVars, inputVars, passVars>>

(* A pass that is to create a pod.                                         *)
StartPass(i) ==
    /\ Exists(i)
    /\ pc[i] = "idle"
    /\ FALSE \in ConfigChanged(i, crs[i], pods)
    /\ \E d \in NextActions(i, SpecOf(i, crs[i]), pods) :
          /\ d.action \in {"CreateFirstPod", "CreateNextPod"}
          /\ mem' = [mem EXCEPT ![i] = [cr |-> crs[i], step |-> d.step]]
    /\ Go(i, "inputs")
    /\ UNCHANGED <<crVars, failures, store, cloudsVars, inputVars, pods>>

(* The condition is set here; the patch at the end of the pass writes it.  *)
ValidateInputs(i) ==
    /\ pc[i] = "inputs"
    /\ LET met == Needed[i][mem[i].cr][mem[i].step] \cap lacking = {}
       IN  /\ inputReady' = [inputReady EXCEPT ![i] = IF met THEN "True" ELSE "False"]
           /\ IF met THEN Go(i, "pvc") /\ UNCHANGED mem ELSE EndPass(i)
    /\ UNCHANGED <<crVars, failures, store, cloudsVars, lacking, withdrawn, pods>>

EnsureLogsPVCExists(i) ==
    /\ pc[i] = "pvc"
    /\ LET c == LogsClaim(i, pvcIndex(i, SpecInHand(i), mem[i].step))
       IN  store' = [d \in DOMAIN store \cup {c} |->
                       IF d \in DOMAIN store THEN store[d] ELSE Written(i)]
    /\ Go(i, IF UsesClouds(i) THEN "clouds" ELSE "config")
    /\ UNCHANGED <<crVars, failures, cloudsVars, inputVars, pods, mem>>

(* EnsureCloudsConfigMapExists: whoever's it is, it is used; when there is *)
(* none in the cache it is created, which fails if there is one after all. *)
EnsureCloudsConfigMapExists(i) ==
    /\ pc[i] = "clouds"
    /\ Go(i, IF cloudsCache # Nobody THEN "config" ELSE "createClouds")
    /\ UNCHANGED <<crVars, failures, store, cloudsVars, inputVars, pods, mem>>

(* It is derived from the ConfigMap of the user: without one, the pass     *)
(* panics.                                                                 *)
CreateClouds(i) ==
    /\ pc[i] = "createClouds"
    /\ IF clouds = Nobody /\ UserObject(i, "OpenStackConfigMap", "main") \notin lacking
       THEN clouds' = i /\ Go(i, "config") /\ UNCHANGED mem
       ELSE UNCHANGED clouds /\ EndPass(i)
    /\ UNCHANGED <<crVars, failures, store, cloudsCache, inputVars, pods>>

(* Mistake: a ConfigMap that exists is left as it is.                      *)
KeepConfigMaps(i, S) ==
    store' = [c \in DOMAIN store \cup S |->
                IF c \in DOMAIN store THEN store[c] ELSE Written(i)]

(* EnsureConfigMaps creates or patches one after the other.                *)
EnsureConfigMaps(i, S) ==
    store' = [c \in DOMAIN store \cup S |->
                IF c \in S THEN Written(i) ELSE store[c]]

generateServiceConfigMaps(i) ==
    /\ pc[i] = "config"
    /\ EnsureConfigMaps(i, Range(ServiceConfigMaps(i, mem[i].step)))
    /\ Go(i, "create")
    /\ UNCHANGED <<crVars, failures, cloudsVars, inputVars, pods, mem>>

(* One of the requests fails, and with it the pass.                        *)
generateServiceConfigMapsFails(i) ==
    /\ pc[i] = "config"
    /\ failures < MaxFailures
    /\ failures' = failures + 1
    /\ LET cms == ServiceConfigMaps(i, mem[i].step)
       IN  \E n \in DOMAIN cms : EnsureConfigMaps(i, {cms[m] : m \in 1 .. n - 1})
    /\ EndPass(i)
    /\ UNCHANGED <<crVars, cloudsVars, inputVars, pods>>

(* A pod that holds the claim for its logs: its containers have not ended. *)
Holds(n, claim) == pods[n].phase = "Running" /\ pods[n].claim = claim

(* A new pod may be scheduled on another node than the one that holds its  *)
(* claim.                                                                  *)
NewPod(i, mountCerts, apart) ==
    [ owner    |-> i,
      step     |-> mem[i].step,
      hash     |-> CalculateConfigHash(i, mem[i].cr),
      phase    |-> "Pending",
      deleting |-> FALSE,
      debug    |-> StepSpec(Kind[i], SpecInHand(i), mem[i].step)["Debug"] # "empty",
      claim    |-> LogsClaim(i, pvcIndex(i, SpecInHand(i), mem[i].step)),
      apart    |-> apart,
      awaits   |-> Built[i][mem[i].cr][mem[i].step][mountCerts].awaits ]

(* BuildPod and CreatePod: the pod exists already (it may be one that is   *)
(* being deleted), or the API server accepts it, or rejects it.            *)
BuildPod(i) ==
    /\ pc[i] = "create"
    /\ LET n    == GetPodName(i, SpecInHand(i), mem[i].step)
           held == \E m \in DOMAIN pods :
                      Holds(m, LogsClaim(i, pvcIndex(i, SpecInHand(i), mem[i].step)))
       IN  \/ /\ n \in DOMAIN pods
              /\ UNCHANGED pods
           \/ /\ n \notin DOMAIN pods
              /\ \E mountCerts \in BOOLEAN, apart \in {FALSE, held} :
                    IF Built[i][mem[i].cr][mem[i].step][mountCerts].accepted
                    THEN pods' = [m \in DOMAIN pods \cup {n} |->
                                    IF m = n THEN NewPod(i, mountCerts, apart)
                                             ELSE pods[m]]
                    ELSE UNCHANGED pods
    /\ EndPass(i)
    /\ UNCHANGED <<crVars, failures, store, cloudsVars, inputVars>>

-----------------------------------------------------------------------------
(* The cache, the garbage collector and the kubelet.                       *)
SyncClouds ==
    /\ cloudsCache # clouds
    /\ cloudsCache' = clouds
    /\ UNCHANGED <<crVars, store, clouds, inputVars, pods, passVars>>

CollectClouds ==
    /\ clouds \in gone
    /\ clouds' = Nobody
    /\ UNCHANGED <<crVars, store, cloudsCache, inputVars, pods, passVars>>

(* The pods and ConfigMaps of an instance that was deleted.                *)
Collect(i) ==
    /\ i \in gone
    /\ \/ \E n \in DOMAIN pods : pods[n].owner = i
       \/ \E c \in DOMAIN store : c[1] = i
    /\ pods' = [n \in {m \in DOMAIN pods : pods[m].owner # i} |-> pods[n]]
    /\ store' = [c \in {d \in DOMAIN store : d[1] # i} |-> store[c]]
    /\ UNCHANGED <<crVars, cloudsVars, inputVars, passVars>>

Present ==
    DOMAIN store \cup (IF clouds = Nobody THEN {} ELSE {CloudsConfigMap})
      \cup (UserObjects \ lacking)

(* The claim is ReadWriteOnce: no two nodes hold it at a time.             *)
StartPod(n) ==
    /\ pods[n].phase = "Pending" /\ ~pods[n].deleting
    /\ pods[n].awaits \subseteq Present
    /\ pods[n].apart => ~\E m \in DOMAIN pods : Holds(m, pods[n].claim)
    /\ pods' = [pods EXCEPT ![n].phase = "Running"]
    /\ UNCHANGED <<crVars, store, cloudsVars, inputVars, passVars>>

EndPod(n) ==
    /\ pods[n].phase = "Running" /\ ~pods[n].deleting
    /\ pods' = [pods EXCEPT ![n].phase = "Done"]
    /\ UNCHANGED <<crVars, store, cloudsVars, inputVars, passVars>>

RemovePod(n) ==
    /\ pods[n].deleting
    /\ pods' = [m \in DOMAIN pods \ {n} |-> pods[m]]
    /\ UNCHANGED <<crVars, store, cloudsVars, inputVars, passVars>>

-----------------------------------------------------------------------------
Pass(i) ==
    \/ Recreate(i)
    \/ StartPass(i)
    \/ ValidateInputs(i)
    \/ EnsureLogsPVCExists(i)
    \/ EnsureCloudsConfigMapExists(i)
    \/ CreateClouds(i)
    \/ generateServiceConfigMaps(i)
    \/ BuildPod(i)

Kubelet(i) ==
    \E n \in DOMAIN pods :
       pods[n].owner = i /\ (StartPod(n) \/ EndPod(n) \/ RemovePod(n))

(* A pod in debug mode is kept alive when something in it fails.           *)
KubeletWithoutDebug(i) ==
    \E n \in DOMAIN pods :
       /\ pods[n].owner = i
       /\ StartPod(n) \/ (EndPod(n) /\ ~pods[n].debug) \/ RemovePod(n)

User(i) == Create(i) \/ Update(i) \/ Delete(i)

Next ==
    \/ \E i \in Instances :
          \/ User(i)
          \/ Pass(i)
          \/ generateServiceConfigMapsFails(i)
          \/ Collect(i)
          \/ Kubelet(i)
    \/ \E o \in Lacking \cup Withdrawable : Provide(o)
    \/ \E o \in Withdrawable : Withdraw(o)
    \/ SyncClouds
    \/ CollectClouds

Spec == Init /\ [][Next]_vars

(* Passes go on and start again, the cache follows, the collector          *)
(* collects, and the kubelet starts what can start.  The user need not     *)
(* provide anything.                                                       *)
Fairness ==
    /\ \A i \in Instances : /\ WF_vars(Pass(i))
                            /\ WF_vars(Collect(i))
                            /\ WF_vars(KubeletWithoutDebug(i))
    /\ WF_vars(SyncClouds)
    /\ WF_vars(CollectClouds)

FairSpec == Spec /\ Fairness

-----------------------------------------------------------------------------
TypeOK ==
    /\ wanted \subseteq Instances /\ updated \subseteq Instances
    /\ gone \subseteq Instances
    /\ \A i \in Instances : /\ crs[i] \in {0} \cup DOMAIN Manifests[i]
                            /\ pc[i] = "idle" <=> mem[i] = NoPass
    /\ {clouds, cloudsCache} \subseteq Instances \cup {Nobody}
    /\ lacking \subseteq Lacking \cup withdrawn
    /\ failures \in 0 .. MaxFailures
    /\ \A n \in DOMAIN pods : /\ n[1] = Name[pods[n].owner]
                              /\ pods[n].phase \in Phases
    /\ \A c \in DOMAIN store : c[1] \in Instances

(* The steps at which the code does not do what its documentation says of  *)
(* a workflow step: it never merges CommonOpenstackConfig, takes an empty  *)
(* string for an omitted one, an omitted boolean of AnsibleTest for false, *)
(* and the default of BackoffLimit for a value.                            *)
Deviates(kind, f, value) ==
    \/ f \in Step[kind].struct
    \/ f \in Step[kind].string /\ value = "empty"
    \/ f \in Step[kind].bool \cup DefaultedFields /\ value = "omitted"

(* What the manifest says of an option for step k: the step, or the spec.  *)
Meant(i, spec, k, f) ==
    IF k < Len(spec.workflow) /\ f \in StepFields(Kind[i])
         /\ spec.workflow[k + 1][f] # "omitted"
    THEN spec.workflow[k + 1][f]
    ELSE spec.main[f]

(* Options that the code does not use, or not for what their documentation *)
(* says (HorizonTestSpec, horizontest_types.go:102, and BackoffLimit).     *)
UnusedOptions == FixedOptions \cup {"HorizonTestDir", "BackoffLimit"}

(* The objects that an option of the given value refers to.                *)
Refers(i, f, value) ==
    IF ~Given(value) THEN {}
    ELSE IF f = "ExtraConfigmapsMounts"
         THEN {UserObject(i, f, n) : n \in Values(ExtraConfigmaps[i][value], "name")}
         ELSE {UserObject(i, f, value)}

(* The options that are part of the pod; those of its claim and of the     *)
(* lock; all others are for the test in the container.                     *)
CopiedOptions ==
    {"NetworkAttachments", "NodeSelector", "Tolerations", "Resources", "SELinuxLevel"}
MountedOptions == ReferringFields \cup {"ExtraConfigmapsMounts"}
PodOptions ==
    CopiedOptions \cup MountedOptions \cup {"ContainerImage", "Privileged", "ExtraMounts"}
OtherOptions == {"StorageClass", "Parallel"}

(* The value of an option at step k is as its documentation says.          *)
Documented(i, spec, k, f) ==
    /\ f \notin UnusedOptions
    /\ k < Len(spec.workflow) /\ f \in StepFields(Kind[i]) =>
          ~Deviates(Kind[i], f, spec.workflow[k + 1][f])

(* A key of Tobiko is given without the other: none is mounted.            *)
LoneKey(i, spec, k, f) ==
    /\ f \in TobikoKeys /\ Given(Meant(i, spec, k, f))
    /\ \E g \in TobikoKeys : ~Given(Meant(i, spec, k, g))

(* An option arrives: switches as on or off; a file of ConfigOverwrite     *)
(* replaces the one of the same name; lists entry by entry.                *)
Arrives(i, spec, k, f) ==
    LET e     == Environment(Kind[i], StepSpec(Kind[i], spec, k))
        meant == Meant(i, spec, k, f)
        read  == Reads(e, f)
    IN  \/ ~Documented(i, spec, k, f)
        \/ LoneKey(i, spec, k, f)
        \/ f \notin DOMAIN e.lists /\ read = meant
        \/ read = "on" /\ Given(meant)
        \/ /\ f \in OverwrittenFiles
           /\ Given(meant) /\ read = Meant(i, spec, k, "ConfigOverwrite")
        \/ f \in DOMAIN e.lists /\ ReadEntries(e.lists[f], f) = Entries(f, meant)

AllArrive ==
    [i \in Instances |-> [g \in DOMAIN Manifests[i] |->
       [k \in Steps(Specs[i][g]) |->
          \A f \in Fields(Kind[i]) \ (PodOptions \cup OtherOptions) :
             Arrives(i, Specs[i][g], k, f)]]]

(* "Each step inherits a configuration" and "you can overwrite values"     *)
(* (docs/source/crds.rst:104): through defaults, merge, environment and    *)
(* files, a container reads of every option for the test what its step     *)
(* says, and else what the spec says, but for the deviations above         *)
(* (MergeSections, common.go:950, SetDictEnvVar, common.go:882, and their  *)
(* callers) and for a key of Tobiko without the other.                     *)
ReadsWhatIsMeant ==
    \A i \in Instances :
       pc[i] = "create" => AllArrive[i][mem[i].cr][mem[i].step]

(* What the pod has of an option: a copy, the objects that are mounted, or *)
(* rights.  Tobiko and HorizonTest mount the shared ConfigMap instead of   *)
(* the one that they name; an image that is not given is a default one.    *)
Carries(i, pod, f, meant) ==
    CASE f \in CopiedOptions -> pod[f] = meant
      [] f \in MountedOptions ->
            IF f = "OpenStackConfigMap" /\ UsesClouds(i)
            THEN CloudsConfigMap \in Sources(pod)
            ELSE {o \in Sources(pod) \cap UserObjects : o[2] = f} = Refers(i, f, meant)
      [] f = "ContainerImage" -> Given(meant) => pod.Image = meant
      [] f = "Privileged" ->
            /\ pod.SecurityContext.AllowPrivilegeEscalation = Given(meant)
            /\ pod.SecurityContext.RunAsNonRoot = ~Given(meant)
            /\ pod.AutomountToken = Given(meant)
      [] f = "ExtraMounts" ->
            Given(meant) => Range(ExtraMounts[i].mounts) \subseteq Range(pod.VolumeMounts)

AllCarried ==
    [i \in Instances |-> [g \in DOMAIN Manifests[i] |->
       [k \in Steps(Specs[i][g]) |->
          \A f \in Fields(Kind[i]) \cap PodOptions, mountCerts \in BOOLEAN :
             \/ ~Documented(i, Specs[i][g], k, f)
             \/ Carries(i, BuildTestPod(i, Specs[i][g], k, mountCerts), f,
                        Meant(i, Specs[i][g], k, f))]]]

(* The same of the options that are part of the pod: whatever updates and  *)
(* steps lead to it, a pod mounts the ConfigMaps and Secrets that its step *)
(* or else its spec names and no others, runs where and with what they     *)
(* say, and has the rights of a privileged one only if they say so         *)
(* (BuildTestPod, util/common.go:77, after MergeSections, common.go:950).  *)
PodsAsMeant ==
    \A i \in Instances :
       pc[i] = "create" => AllCarried[i][mem[i].cr][mem[i].step]

(* What the user names or lists: names become names of volumes             *)
(* (util/volumes.go:61, 77, 205 and 225), paths those of mounts.           *)
UserNames(i) ==
    {OpenstackName[i][f] : f \in IF UsesClouds(i) THEN {"OpenStackConfigSecret"}
                                                 ELSE CommonOpenstackConfig}
UserVolumes(i, merged) ==
    (IF Given(merged["ExtraMounts"]) THEN ExtraMounts[i].volumes ELSE <<>>)
      \o (IF Given(merged["ExtraConfigmapsMounts"])
          THEN ExtraConfigmaps[i][merged["ExtraConfigmapsMounts"]] ELSE <<>>)
UserMounts(i, merged) ==
    (IF Given(merged["ExtraMounts"]) THEN ExtraMounts[i].mounts ELSE <<>>)
      \o (IF Given(merged["ExtraConfigmapsMounts"])
          THEN ExtraConfigmaps[i][merged["ExtraConfigmapsMounts"]] ELSE <<>>)

(* Two of these names are one, or one is a name that the operator uses or  *)
(* that a volume cannot have.                                              *)
NamesClash(i, merged) ==
    LET extra == Values(UserVolumes(i, merged), "name") IN
    \/ /\ ~UsesClouds(i)
       /\ OpenstackName[i]["OpenStackConfigMap"] = OpenstackName[i]["OpenStackConfigSecret"]
    \/ ~Distinct(UserVolumes(i, merged), "name")
    \/ extra \cap UserNames(i) # {}
    \/ (extra \cup UserNames(i)) \cap (OperatorNames[Kind[i]] \cup NotLabels) # {}

(* Two paths are one, or one is a path that the operator uses; or a mount  *)
(* of ExtraMounts names no volume of the user.                             *)
MountsClash(i, merged) ==
    LET mounts == UserMounts(i, merged) IN
    \/ ~Distinct(mounts, "path")
    \/ Values(mounts, "path") \cap OperatorPaths[Kind[i]] # {}
    \/ ~(Values(mounts, "name") \subseteq
            Values(UserVolumes(i, merged), "name") \cup UserNames(i))

(* What is known to make the API server reject a pod: names or paths of    *)
(* the user that clash, a step of an AnsibleTest with                      *)
(* ExtraConfigmapsMounts, which are added twice (ansibletest/volumes.go:45)*)
(* a Tempest whose container name, with its suffix, is too long            *)
(* (tempest/pod.go:45), and a HorizonTest, whose name is not validated and *)
(* whose default image is not found.                                       *)
KnownRejection(i, spec, k) ==
    \/ NamesClash(i, StepSpec(Kind[i], spec, k))
    \/ MountsClash(i, StepSpec(Kind[i], spec, k))
    \/ StepExtras(i, spec, k)
    \/ Kind[i] = "Tempest" /\ NameLength[i] > DNS1123LabelMaxLength - 13
    \/ Kind[i] = "HorizonTest" /\ \/ NameLength[i] > DNS1123LabelMaxLength
                                  \/ ~Given(spec.main["ContainerImage"])

(* Every other pod that passes build, from whatever manifests, by whatever *)
(* updates, is one the API server accepts: no volume or mount path twice,  *)
(* no mount without its volume, an image, names that fit.                  *)
PodsAccepted ==
    \A i \in Instances : pc[i] = "create" =>
       \A certs \in BOOLEAN :
          \/ Built[i][mem[i].cr][mem[i].step][certs].accepted
          \/ KnownRejection(i, SpecInHand(i), mem[i].step)

(* Two pods run on one claim for logs only while one of them is being      *)
(* deleted: steps that share it do not overlap, and those that might have  *)
(* a claim each (pvcIndex, common_controller.go:204).                      *)
LogsNotShared ==
    \A m, n \in DOMAIN pods :
       m # n /\ Holds(m, pods[m].claim) /\ Holds(n, pods[m].claim) =>
         pods[m].deleting \/ pods[n].deleting

(* A pod that starts finds in its ConfigMaps what was written for its own  *)
(* step from the spec it was built from, although ConfigMaps are named by  *)
(* instance and step only and are overwritten when the spec changes.       *)
RunsItsOwnConfig ==
    [][ \A n \in DOMAIN pods \cap DOMAIN pods' :
          pods[n].phase = "Pending" /\ pods'[n].phase = "Running" =>
            \A c \in pods[n].awaits
                      \cap Range(ServiceConfigMaps(pods[n].owner, pods[n].step)) :
               store[c] = <<pods[n].hash, pods[n].step>> ]_vars

Tested(i) ==
    \A k \in Steps(SpecOf(i, crs[i])) : \E n \in DOMAIN pods :
       /\ pods[n].owner = i /\ pods[n].step = k
       /\ pods[n].hash = CalculateConfigHash(i, crs[i])
       /\ pods[n].phase = "Done" /\ ~pods[n].deleting

(* Somebody who may have owned the shared ConfigMap was deleted: it is     *)
(* collected, and nobody creates it anew for a pod that waits for it.      *)
CloudsAtRisk(i) == UsesClouds(i) /\ \E j \in gone : UsesClouds(j)

(* Something that a step of i needs is missing, whether it is looked for   *)
(* (ValidateInputs) or only mounted.                                       *)
Blocked(i) ==
    \E k \in Steps(SpecOf(i, crs[i])) :
       lacking \cap (Needed[i][crs[i]][k] \cup Built[i][crs[i]][k][FALSE].awaits) # {}

Rejected(i) ==
    \E k \in Steps(SpecOf(i, crs[i])) : KnownRejection(i, SpecOf(i, crs[i]), k)

(* A pod in debug mode is kept alive.  In a workflow that happens only     *)
(* where nobody forbids it: to an AnsibleTest, or by an update.            *)
KeptAlive(i) ==
    /\ \E n \in DOMAIN pods : /\ pods[n].owner = i /\ pods[n].debug
                              /\ pods[n].phase = "Running"
    /\ \/ SpecOf(i, crs[i]).workflow = <<>>
       \/ Kind[i] = "AnsibleTest"
       \/ i \in updated

(* Everything a pod waits for is there in the end, ConfigMaps and claim:   *)
(* an instance that was created and not deleted is tested with its last    *)
(* spec, unless the user has not provided what it needs, one of its pods   *)
(* is rejected for a known reason, it is in debug mode, or the shared      *)
(* ConfigMap is at risk.                                                   *)
EventuallyTested ==
    \A i \in Instances :
       <>[](Exists(i) => \/ Tested(i)
                         \/ Blocked(i)
                         \/ Rejected(i)
                         \/ KeptAlive(i)
                         \/ CloudsAtRisk(i))

(* Objects that nobody looks for before the pod is created: the SSH keys   *)
(* of AnsibleTest, extra ConfigMaps, keys within a Secret.                 *)
Unchecked(o) ==
    \/ o[2] \in { "ComputeSSHKeySecretName", "WorkloadSSHKeySecretName",
                  "ExtraConfigmapsMounts" }
    \/ Len(o) = 4

(* A pod of i waits for such an object, or for one that was taken away     *)
(* after it had been looked for.                                           *)
WaitsUnnoticed(i) ==
    \E n \in DOMAIN pods :
       /\ pods[n].owner = i /\ pods[n].phase = "Pending"
       /\ \E o \in pods[n].awaits \cap lacking : o \in withdrawn \/ Unchecked(o)

(* The user is told: as long as an object that a step of i needs is not    *)
(* provided, InputReady ends up False, unless the step is never reached or *)
(* the object is not looked for (ValidateInputs, common_controller.go:270, *)
(* which runs for a step with the merged spec, before its pod is created). *)
MissingInputsReported ==
    \A i \in Instances :
       <>[](Exists(i) /\ Blocked(i) =>
              \/ inputReady[i] = "False"
              \/ WaitsUnnoticed(i)
              \/ Tested(i) \/ Rejected(i) \/ KeptAlive(i))
=============================================================================
