----------------------------- MODULE BuildProofs -----------------------------
(***************************************************************************)
(* Proofs about the way from a custom resource to running pods, for any    *)
(* instances, manifests and objects of the user: pods that start find the  *)
(* ConfigMaps that were written for them, no two pods share a claim, and a *)
(* pass builds the pod of one manifest and of a step that it has.          *)
(***************************************************************************)
EXTENDS Build, TLAPS

(* No two instances have one name, of whatever kinds they are.             *)
NamesDiffer == \A i, j \in Instances : Name[i] = Name[j] => i = j

(* The pods of an instance that are not being deleted.                     *)
OwnPods(i) == {n \in DOMAIN pods : pods[n].owner = i /\ ~pods[n].deleting}

-----------------------------------------------------------------------------
Places == {"idle", "inputs", "pvc", "clouds", "createClouds", "config", "create"}

ManifestNumbers == {0} \cup UNION {DOMAIN Manifests[i] : i \in Instances}

(* A pod has the fields NewPod gives it.                                   *)
PodShape(pod) ==
    /\ pod = [ owner |-> pod.owner, step |-> pod.step, hash |-> pod.hash,
               phase |-> pod.phase, deleting |-> pod.deleting,
               debug |-> pod.debug, claim |-> pod.claim, apart |-> pod.apart,
               awaits |-> pod.awaits ]
    /\ pod.owner \in Instances /\ pod.step \in Nat /\ pod.phase \in Phases
    /\ pod.deleting \in BOOLEAN
    /\ pod.claim[1] = pod.owner

PodsShaped ==
    \A n \in DOMAIN pods : PodShape(pods[n]) /\ n[1] = Name[pods[n].owner]

PassesShaped ==
    /\ pc \in [Instances -> Places]
    /\ mem \in [Instances -> [cr : ManifestNumbers, step : Nat]]
    /\ \A i \in Instances : pc[i] = "idle" <=> mem[i] = NoPass

(* Among the pods of an instance only the one with the highest step is     *)
(* pending or running,                                                     *)
OnlyLastIsActive ==
    \A i \in Instances : \A m, n \in OwnPods(i) :
       pods[n].phase # "Done" /\ m # n
         => pods[m].phase = "Done" /\ pods[m].step < pods[n].step

(* and none is while a pass is on its way to the next.                     *)
PassIsAlone ==
    \A i \in Instances : pc[i] # "idle" =>
       \A n \in OwnPods(i) : pods[n].phase = "Done" /\ pods[n].step < mem[i].step

AloneInv ==
    /\ PodsShaped
    /\ PassesShaped
    /\ OnlyLastIsActive
    /\ PassIsAlone

(* What a pass has written is there as it has written it, when it builds   *)
(* the pod,                                                                *)
PassHasWritten ==
    \A i \in Instances : pc[i] = "create" =>
       \A c \in Range(ServiceConfigMaps(i, mem[i].step)) \cap DOMAIN store :
          store[c] = Written(i)

(* and until the pod starts.                                               *)
WrittenForPods ==
    \A n \in DOMAIN pods : pods[n].phase = "Pending" /\ ~pods[n].deleting =>
       \A c \in Range(ServiceConfigMaps(pods[n].owner, pods[n].step)) \cap DOMAIN store :
          store[c] = <<pods[n].hash, pods[n].step>>

ConfigInv == PassHasWritten /\ WrittenForPods

-----------------------------------------------------------------------------
(* What a step does to the pods: they grow older, or one is built.         *)
Age ==
    /\ DOMAIN pods' \subseteq DOMAIN pods
    /\ \A n \in DOMAIN pods' :
          /\ pods'[n].owner = pods[n].owner /\ pods'[n].step = pods[n].step
          /\ pods'[n].hash = pods[n].hash /\ pods'[n].claim = pods[n].claim
          /\ pods[n].deleting => pods'[n].deleting
          /\ pods[n].phase = "Done" => pods'[n].phase = "Done"
          /\ pods'[n].phase = "Pending" => pods[n].phase = "Pending"
          /\ PodShape(pods'[n])

NameOf(i) == GetPodName(i, SpecInHand(i), mem[i].step)

Builds(i) ==
    /\ pc[i] = "create" /\ EndPass(i) /\ UNCHANGED store
    /\ NameOf(i) \notin DOMAIN pods
    /\ DOMAIN pods' = DOMAIN pods \cup {NameOf(i)}
    /\ \A n \in DOMAIN pods : pods'[n] = pods[n]
    /\ LET new == pods'[NameOf(i)] IN
       /\ PodShape(new) /\ new.owner = i /\ new.step = mem[i].step
       /\ new.hash = CalculateConfigHash(i, mem[i].cr)

(* A pod whose phase changes, or that is being deleted.                    *)
LEMMA ChangedPod ==
  ASSUME NEW pod, PodShape(pod), NEW new,
         \/ \E p \in Phases : new = [pod EXCEPT !.phase = p]
         \/ new = [pod EXCEPT !.deleting = TRUE]
  PROVE  /\ PodShape(new) /\ new.owner = pod.owner /\ new.step = pod.step
         /\ new.hash = pod.hash /\ new.claim = pod.claim
         /\ pod.deleting => new.deleting
         /\ \A p : new = [pod EXCEPT !.phase = p] => new.phase = p
         /\ new = [pod EXCEPT !.deleting = TRUE] => new.phase = pod.phase
<1> DEFINE Type ==
      [ owner : Instances, step : Nat, hash : {pod.hash}, phase : Phases,
        deleting : BOOLEAN, debug : {pod.debug}, claim : {pod.claim},
        apart : {pod.apart}, awaits : {pod.awaits} ]
<1>1. pod \in Type /\ pod.claim[1] = pod.owner
  BY DEF PodShape
<1>2. /\ new \in Type /\ new.owner = pod.owner /\ new.step = pod.step
      /\ new.hash = pod.hash /\ new.claim = pod.claim
      /\ pod.deleting => new.deleting
      /\ \A p : new = [pod EXCEPT !.phase = p] => new.phase = p
      /\ new = [pod EXCEPT !.deleting = TRUE] => new.phase = pod.phase
  BY <1>1
<1>3. PodShape(new)
  BY <1>1, <1>2 DEF PodShape
<1> HIDE DEF Type
<1> QED
  BY <1>2, <1>3

LEMMA PodsStep ==
  ASSUME PodsShaped, PassesShaped, [Next]_vars
  PROVE  Age \/ \E i \in Instances : Builds(i)
<1> USE DEF PodsShaped
<1>1. ASSUME UNCHANGED pods PROVE Age
  BY <1>1 DEF Age
<1>2. ASSUME NEW n \in DOMAIN pods, StartPod(n) \/ EndPod(n) PROVE Age
  <2>1. PICK p \in {"Running", "Done"} :
          pods' = [pods EXCEPT ![n] = [pods[n] EXCEPT !.phase = p]]
    BY <1>2 DEF StartPod, EndPod
  <2>2. PodShape(pods[n]) /\ p \in Phases /\ pods[n].phase # "Done"
    BY <1>2 DEF StartPod, EndPod, Phases
  <2>3. DOMAIN pods' = DOMAIN pods /\ \A m \in DOMAIN pods \ {n} : pods'[m] = pods[m]
    BY <2>1
  <2>4. pods'[n] = [pods[n] EXCEPT !.phase = p]
    BY <2>1
  <2>5. /\ PodShape(pods'[n]) /\ pods'[n].phase \in {"Running", "Done"}
        /\ pods'[n].deleting = pods[n].deleting /\ pods'[n].owner = pods[n].owner
        /\ pods'[n].step = pods[n].step /\ pods'[n].hash = pods[n].hash
        /\ pods'[n].claim = pods[n].claim
    BY <2>2, <2>4, ChangedPod
  <2> QED
    BY <2>2, <2>3, <2>5 DEF Age
<1>3. ASSUME NEW n \in DOMAIN pods, RemovePod(n) PROVE Age
  BY <1>3 DEF RemovePod, Age
<1>4. ASSUME NEW i \in Instances, Collect(i) PROVE Age
  BY <1>4 DEF Collect, Age
<1>5. ASSUME NEW i \in Instances, Recreate(i) PROVE Age
  <2>1. PICK D, S : pods' = [n \in DOMAIN pods \ D |->
                               IF n \in S THEN [pods[n] EXCEPT !.deleting = TRUE]
                                          ELSE pods[n]]
    BY <1>5 DEF Recreate
  <2>2. \A n \in DOMAIN pods' : PodShape(pods[n]) /\ n \in DOMAIN pods
                                /\ pods'[n] \in {pods[n], [pods[n] EXCEPT !.deleting = TRUE]}
    BY <2>1
  <2>3. \A n \in DOMAIN pods' :
          /\ PodShape(pods'[n]) /\ pods'[n].phase = pods[n].phase
          /\ pods[n].deleting => pods'[n].deleting
          /\ pods'[n].owner = pods[n].owner /\ pods'[n].step = pods[n].step
          /\ pods'[n].hash = pods[n].hash /\ pods'[n].claim = pods[n].claim
    BY <2>2, ChangedPod
  <2> QED
    BY <2>2, <2>3 DEF Age
<1>6. ASSUME NEW i \in Instances, BuildPod(i), ~UNCHANGED pods PROVE Builds(i)
  <2>1. /\ pc[i] = "create" /\ EndPass(i) /\ UNCHANGED store
        /\ NameOf(i) \notin DOMAIN pods
    BY <1>6, ZenonT(40) DEF BuildPod, NameOf
  <2>2. PICK certs \in BOOLEAN, apart \in BOOLEAN :
          pods' = [m \in DOMAIN pods \cup {NameOf(i)} |->
                     IF m = NameOf(i) THEN NewPod(i, certs, apart) ELSE pods[m]]
    BY <1>6 DEF BuildPod, NameOf
  <2>3. /\ PodShape(NewPod(i, certs, apart))
        /\ NewPod(i, certs, apart).owner = i
        /\ NewPod(i, certs, apart).step = mem[i].step
        /\ NewPod(i, certs, apart).hash = CalculateConfigHash(i, mem[i].cr)
    <3>1. mem[i].step \in Nat
      BY DEF PassesShaped
    <3>2. \A k : LogsClaim(i, k)[1] = i
      BY DEF LogsClaim
    <3> QED
      BY <3>1, <3>2 DEF NewPod, PodShape, Phases
  <2> QED
    BY <2>1, <2>2, <2>3 DEF Builds
<1>7. ASSUME NEW i \in Instances, Pass(i) PROVE Age \/ Builds(i)
  <2>1. UNCHANGED pods \/ Recreate(i) \/ BuildPod(i)
    BY <1>7 DEF Pass, StartPass, ValidateInputs, EnsureLogsPVCExists,
                EnsureCloudsConfigMapExists, CreateClouds, generateServiceConfigMaps
  <2> QED
    BY <1>1, <1>5, <1>6, <2>1
<1>8. ASSUME NEW i \in Instances, User(i) \/ generateServiceConfigMapsFails(i)
      PROVE  UNCHANGED pods
  BY <1>8 DEF User, Create, Update, Delete, generateServiceConfigMapsFails
<1>9. ASSUME NEW o, Provide(o) \/ Withdraw(o) PROVE UNCHANGED pods
  BY <1>9 DEF Provide, Withdraw
<1>10. CASE SyncClouds \/ CollectClouds \/ UNCHANGED vars
  BY <1>1, <1>10 DEF SyncClouds, CollectClouds, vars
<1> QED
  BY <1>1, <1>2, <1>3, <1>4, <1>7, <1>8, <1>9, <1>10 DEF Next, Kubelet

-----------------------------------------------------------------------------
(* What a step does to a pass: it ends it, starts it, or moves it on.      *)
Proceeds(j) ==
    /\ mem'[j] = mem[j]
    /\ pc'[j] = "idle" <=> pc[j] = "idle"
    /\ pc'[j] = "create" => pc[j] = "create" \/ generateServiceConfigMaps(j)

Ends(j) == pc'[j] = "idle" /\ mem'[j] = NoPass

LEMMA PassStep ==
  ASSUME PassesShaped, [Next]_vars
  PROVE  /\ pc' \in [Instances -> Places]
         /\ \/ mem' \in [Instances -> [cr : ManifestNumbers, step : Nat]]
            \/ \E i \in Instances : StartPass(i)
         /\ \A j \in Instances : Ends(j) \/ StartPass(j) \/ Proceeds(j)
<1> USE DEF PassesShaped
<1> DEFINE Goal ==
      /\ pc' \in [Instances -> Places]
      /\ \/ mem' \in [Instances -> [cr : ManifestNumbers, step : Nat]]
         \/ \E i \in Instances : StartPass(i)
      /\ \A j \in Instances : Ends(j) \/ StartPass(j) \/ Proceeds(j)
<1>1. ASSUME UNCHANGED <<pc, mem>> PROVE Goal
  BY <1>1 DEF Proceeds
<1>2. ASSUME NEW i \in Instances, EndPass(i) PROVE Goal
  <2>1. NoPass \in [cr : ManifestNumbers, step : Nat]
    BY DEF NoPass, ManifestNumbers
  <2> QED
    BY <1>2, <2>1 DEF EndPass, Go, Ends, Proceeds, Places
<1>3. ASSUME NEW i \in Instances, NEW p \in Places \ {"idle"}, Go(i, p), UNCHANGED mem,
             pc[i] # "idle", p = "create" => generateServiceConfigMaps(i)
      PROVE  Goal
  BY <1>3 DEF Go, Proceeds
<1>4. ASSUME NEW i \in Instances, StartPass(i) PROVE Goal
  <2>1. pc' \in [Instances -> Places] /\ \A j \in Instances \ {i} : pc'[j] = pc[j] /\ mem'[j] = mem[j]
    BY <1>4 DEF StartPass, Go, Places
  <2> QED
    BY <1>4, <2>1 DEF Proceeds
<1>5. ASSUME NEW i \in Instances, Pass(i), ~StartPass(i), ~Recreate(i) PROVE Goal
  <2>1. CASE ValidateInputs(i)
    BY <1>2, <1>3, <2>1 DEF ValidateInputs, Places
  <2>2. CASE EnsureLogsPVCExists(i)
    <3>1. PICK p \in {"clouds", "config"} : Go(i, p)
      BY <2>2 DEF EnsureLogsPVCExists
    <3> QED
      BY <1>3, <2>2, <3>1 DEF EnsureLogsPVCExists, Places
  <2>3. CASE EnsureCloudsConfigMapExists(i)
    <3>1. PICK p \in {"createClouds", "config"} : Go(i, p)
      BY <2>3 DEF EnsureCloudsConfigMapExists
    <3> QED
      BY <1>3, <2>3, <3>1 DEF EnsureCloudsConfigMapExists, Places
  <2>4. CASE CreateClouds(i)
    BY <1>2, <1>3, <2>4 DEF CreateClouds, Places
  <2>5. CASE generateServiceConfigMaps(i)
    BY <1>3, <2>5, SMTT(40) DEF generateServiceConfigMaps, Places
  <2>6. CASE BuildPod(i)
    BY <1>2, <2>6 DEF BuildPod
  <2> QED
    BY <1>5, <2>1, <2>2, <2>3, <2>4, <2>5, <2>6 DEF Pass
<1>6. ASSUME NEW i \in Instances, User(i) \/ Collect(i) \/ Kubelet(i) \/ Recreate(i)
      PROVE  UNCHANGED <<pc, mem>>
  BY <1>6 DEF User, Create, Update, Delete, Collect, Kubelet, StartPod, EndPod,
              RemovePod, Recreate, passVars
<1>7. ASSUME NEW i \in Instances, generateServiceConfigMapsFails(i) PROVE Goal
  BY <1>2, <1>7 DEF generateServiceConfigMapsFails
<1>8. ASSUME NEW o, Provide(o) \/ Withdraw(o) PROVE UNCHANGED <<pc, mem>>
  BY <1>8 DEF Provide, Withdraw, passVars
<1>9. ASSUME SyncClouds \/ CollectClouds \/ UNCHANGED vars PROVE UNCHANGED <<pc, mem>>
  BY <1>9 DEF SyncClouds, CollectClouds, vars, passVars
<1> HIDE DEF Goal
<1>10. Goal
  BY <1>1, <1>4, <1>5, <1>6, <1>7, <1>8, <1>9 DEF Next
<1> QED
  BY <1>10 DEF Goal

(* What StartPass remembers, from pods of whatever instances.              *)
LEMMA StartShaped ==
  ASSUME PodsShaped, PassesShaped, crs \in [Instances -> ManifestNumbers],
         NEW i \in Instances, StartPass(i)
  PROVE  /\ UNCHANGED <<pods, store>> /\ pc'[i] = "inputs"
         /\ mem' \in [Instances -> [cr : ManifestNumbers, step : Nat]]
         /\ mem'[i].cr = crs[i] /\ mem'[i] # NoPass
<1> USE DEF PodsShaped, PassesShaped
<1>1. PICK d \in NextActions(i, SpecOf(i, crs[i]), pods) :
        /\ d.action \in {"CreateFirstPod", "CreateNextPod"}
        /\ mem' = [mem EXCEPT ![i] = [cr |-> crs[i], step |-> d.step]]
  BY DEF StartPass
<1>2. d.step \in Nat
  <2>1. CASE d = Decision("CreateFirstPod", 0)
    BY <2>1 DEF Decision
  <2>2. ASSUME NEW n \in LastPods(i, pods),
               d = AfterPod(pods[n], WorkflowLength(SpecOf(i, crs[i])))
        PROVE  d.step \in Nat
    <3>1. pods[n].step \in Nat /\ pods[n].phase \in Phases
      BY <2>2 DEF LastPods, Listed, PodShape
    <3>2. isLastPodIndex(pods[n].step, WorkflowLength(SpecOf(i, crs[i]))) \in BOOLEAN
      BY DEF isLastPodIndex
    <3> QED
      BY <2>2, <3>1, <3>2 DEF AfterPod, Decision, Phases
  <2> QED
    BY <1>1, <2>1, <2>2 DEF NextActions
<1>3. mem'[i].cr = crs[i] /\ crs[i] # 0 /\ NoPass.cr = 0
  BY <1>1 DEF StartPass, Exists, NoPass
<1>4. mem' \in [Instances -> [cr : ManifestNumbers, step : Nat]]
  BY <1>1, <1>2
<1>5. UNCHANGED <<pods, store>> /\ pc'[i] = "inputs"
  BY DEF StartPass, Go
<1> QED
  BY <1>3, <1>4, <1>5

(* What StartPass finds, when the pods it lists are those of the instance: *)
(* nothing runs, and the step is a new one.                                *)
LEMMA PassStarted ==
  ASSUME NamesDiffer, AloneInv, crs \in [Instances -> ManifestNumbers],
         NEW i \in Instances, StartPass(i)
  PROVE  \A n \in OwnPods(i) : pods[n].phase = "Done" /\ pods[n].step < mem'[i].step
<1> USE DEF AloneInv, PodsShaped, PassesShaped
<1>1. PICK d \in NextActions(i, SpecOf(i, crs[i]), pods) :
        /\ d.action \in {"CreateFirstPod", "CreateNextPod"}
        /\ mem' = [mem EXCEPT ![i] = [cr |-> crs[i], step |-> d.step]]
  BY DEF StartPass
<1>2. Listed(i, pods) = OwnPods(i)
  BY DEF NamesDiffer, Listed, OwnPods, PodShape
<1>3. d.step \in Nat /\ \A n \in OwnPods(i) : pods[n].phase = "Done" /\ pods[n].step < d.step
  <2>1. CASE OwnPods(i) = {}
    BY <1>1, <1>2, <2>1 DEF NextActions, Decision
  <2>2. CASE OwnPods(i) # {}
    <3>1. PICK n \in LastPods(i, pods) :
            d = AfterPod(pods[n], WorkflowLength(SpecOf(i, crs[i])))
      BY <1>1, <1>2, <2>2 DEF NextActions
    <3>2. n \in OwnPods(i) /\ \A m \in OwnPods(i) : pods[m].step <= pods[n].step
      BY <1>2, <3>1 DEF LastPods
    <3>3. \A m \in OwnPods(i) : pods[m].step \in Nat /\ pods[m].phase \in Phases
      BY DEF OwnPods, PodShape
    <3>4. isLastPodIndex(pods[n].step, WorkflowLength(SpecOf(i, crs[i]))) \in BOOLEAN
      BY DEF isLastPodIndex
    <3>5. pods[n].phase = "Done" /\ d.step = pods[n].step + 1
      BY <1>1, <3>1, <3>2, <3>3, <3>4 DEF AfterPod, Decision, Phases
    <3>6. \A m \in OwnPods(i) : pods[m].phase = "Done"
      <4> SUFFICES ASSUME NEW m \in OwnPods(i), pods[m].phase # "Done" PROVE FALSE
        OBVIOUS
      <4>1. pods[n].step < pods[m].step
        BY <3>2, <3>5 DEF OnlyLastIsActive
      <4> QED
        BY <3>2, <3>3, <4>1
    <3> QED
      BY <3>2, <3>3, <3>5, <3>6
  <2> QED
    BY <2>1, <2>2
<1>4. mem'[i].step = d.step
  BY <1>1
<1> QED
  BY <1>3, <1>4

-----------------------------------------------------------------------------
(* The rest of the type invariant.                                         *)
UserInv ==
    /\ wanted \subseteq Instances /\ updated \subseteq Instances
    /\ gone \subseteq Instances
    /\ crs \in [Instances -> ManifestNumbers]
    /\ \A i \in Instances : crs[i] \in {0} \cup DOMAIN Manifests[i]
    /\ {clouds, cloudsCache} \subseteq Instances \cup {Nobody}
    /\ lacking \subseteq Lacking \cup withdrawn
    /\ failures \in 0 .. MaxFailures
    /\ \A c \in DOMAIN store : c[1] \in Instances

(* What ends up in the store is of an instance.                            *)
LEMMA ConfigMapsOfInstance ==
  ASSUME NEW i \in Instances, NEW k, NEW c \in Range(ServiceConfigMaps(i, k))
  PROVE  \E x \in {"custom-data", "env-vars", "config", "private-key", "public-key"} :
            c = <<i, x, k>>
<1>1. PICK n \in DOMAIN Infixes(Kind[i]) : c = OwnConfigMap(i, Infixes(Kind[i])[n], k)
  BY DEF Range, ServiceConfigMaps
<1>2. Infixes(Kind[i])[n] \in {"custom-data", "env-vars", "config", "private-key", "public-key"}
  BY <1>1 DEF Infixes, TempestConfigMaps, TobikoConfigMaps
<1> QED
  BY <1>1, <1>2 DEF OwnConfigMap

(* What a step does to the store: it takes away, or a pass of one instance *)
(* adds its claim for the logs or writes ConfigMaps of its step.           *)
Kept(c) == c \in DOMAIN store /\ store'[c] = store[c]

StoreStep(i) ==
    /\ pc[i] \in {"pvc", "config"} /\ UNCHANGED pods
    /\ \A c \in DOMAIN store' :
          \/ Kept(c)
          \/ \E k : c = <<i, "logs", k>>
          \/ /\ pc[i] = "config" /\ c \in Range(ServiceConfigMaps(i, mem[i].step))
             /\ store'[c] = Written(i)

LEMMA StoreSteps ==
  ASSUME [Next]_vars
  PROVE  (\A c \in DOMAIN store' : Kept(c)) \/ \E i \in Instances : StoreStep(i)
<1>1. ASSUME UNCHANGED store PROVE \A c \in DOMAIN store' : Kept(c)
  BY <1>1 DEF Kept
<1>2. ASSUME NEW i \in Instances, EnsureLogsPVCExists(i) PROVE StoreStep(i)
  BY <1>2 DEF EnsureLogsPVCExists, StoreStep, Kept, LogsClaim
<1>3. ASSUME NEW i \in Instances, NEW S \in SUBSET Range(ServiceConfigMaps(i, mem[i].step)),
             EnsureConfigMaps(i, S), pc[i] = "config", UNCHANGED pods
      PROVE  StoreStep(i)
  BY <1>3 DEF EnsureConfigMaps, StoreStep, Kept
<1>4. ASSUME NEW i \in Instances, generateServiceConfigMaps(i) PROVE StoreStep(i)
  BY <1>3, <1>4 DEF generateServiceConfigMaps
<1>5. ASSUME NEW i \in Instances, generateServiceConfigMapsFails(i) PROVE StoreStep(i)
  <2> DEFINE cms == ServiceConfigMaps(i, mem[i].step)
  <2>1. PICK n \in DOMAIN cms : EnsureConfigMaps(i, {cms[m] : m \in 1 .. n - 1})
    BY <1>5 DEF generateServiceConfigMapsFails
  <2>2. PICK l \in Nat : DOMAIN cms = 1 .. l
    <3>1. DOMAIN cms = DOMAIN Infixes(Kind[i])
      BY DEF ServiceConfigMaps
    <3>2. Infixes(Kind[i]) \in {TempestConfigMaps, TobikoConfigMaps, <<>>}
      BY DEF Infixes
    <3>3. /\ DOMAIN TempestConfigMaps = 1 .. 2 /\ DOMAIN TobikoConfigMaps = 1 .. 3
          /\ DOMAIN <<>> = 1 .. 0
      BY DEF TempestConfigMaps, TobikoConfigMaps
    <3> QED
      BY <3>1, <3>2, <3>3
  <2>3. {cms[m] : m \in 1 .. n - 1} \subseteq Range(cms)
    BY <2>1, <2>2 DEF Range
  <2> QED
    BY <1>3, <1>5, <2>1, <2>3 DEF generateServiceConfigMapsFails
<1>6. ASSUME NEW i \in Instances, Collect(i) PROVE \A c \in DOMAIN store' : Kept(c)
  BY <1>6, SMTT(40) DEF Collect, Kept
<1>7. ASSUME NEW i \in Instances, Pass(i), ~EnsureLogsPVCExists(i),
             ~generateServiceConfigMaps(i)
      PROVE  UNCHANGED store
  BY <1>7 DEF Pass, Recreate, StartPass, ValidateInputs, CreateClouds,
              EnsureCloudsConfigMapExists, BuildPod
<1>8. ASSUME NEW i \in Instances, User(i) \/ Kubelet(i) PROVE UNCHANGED store
  BY <1>8 DEF User, Create, Update, Delete, Kubelet, StartPod, EndPod, RemovePod
<1>9. ASSUME NEW o, Provide(o) \/ Withdraw(o) PROVE UNCHANGED store
  BY <1>9 DEF Provide, Withdraw
<1>10. ASSUME SyncClouds \/ CollectClouds \/ UNCHANGED vars PROVE UNCHANGED store
  BY <1>10 DEF SyncClouds, CollectClouds, vars
<1> QED
  BY <1>1, <1>2, <1>4, <1>5, <1>6, <1>7, <1>8, <1>9, <1>10 DEF Next

LEMMA UserInvStep ==
  ASSUME UserInv, [Next]_vars
  PROVE  UserInv'
<1> USE DEF UserInv
<1>1. \A c \in DOMAIN store' : c[1] \in Instances
  <2>1. \A i \in Instances : \A k, c : c = <<i, "logs", k>> => c[1] = i
    OBVIOUS
  <2>2. \A i \in Instances : \A k : \A c \in Range(ServiceConfigMaps(i, k)) : c[1] = i
    BY ConfigMapsOfInstance
  <2> QED
    BY <2>1, <2>2, StoreSteps DEF StoreStep, Kept
<1> DEFINE Others == <<crVars, cloudsVars, lacking, withdrawn, failures>>
           Goal == /\ wanted' \subseteq Instances /\ updated' \subseteq Instances
                   /\ gone' \subseteq Instances
                   /\ crs' \in [Instances -> ManifestNumbers]
                   /\ \A i \in Instances : crs'[i] \in {0} \cup DOMAIN Manifests[i]
                   /\ {clouds', cloudsCache'} \subseteq Instances \cup {Nobody}
                   /\ lacking' \subseteq Lacking \cup withdrawn'
                   /\ failures' \in 0 .. MaxFailures
<1>2. ASSUME UNCHANGED Others PROVE Goal
  BY <1>2 DEF crVars, cloudsVars
<1>3. ASSUME NEW i \in Instances, User(i) PROVE Goal
  BY <1>3, SMTT(40) DEF User, Create, Update, Delete, Exists, cloudsVars, inputVars,
              passVars, ManifestNumbers
<1>4. ASSUME NEW i \in Instances, Pass(i) PROVE Goal
  <2>1. CASE CreateClouds(i)
    BY <2>1 DEF CreateClouds, crVars, inputVars
  <2> QED
    BY <1>2, <1>4, <2>1 DEF Pass, Recreate, StartPass, ValidateInputs,
       EnsureLogsPVCExists, EnsureCloudsConfigMapExists, generateServiceConfigMaps,
       BuildPod, crVars, cloudsVars, inputVars, passVars
<1>5. ASSUME NEW i \in Instances, generateServiceConfigMapsFails(i) PROVE Goal
  BY <1>5, BoundsAssumption DEF generateServiceConfigMapsFails, crVars, cloudsVars, inputVars
<1>6. ASSUME NEW i \in Instances, Collect(i) \/ Kubelet(i) PROVE Goal
  BY <1>2, <1>6 DEF Collect, Kubelet, StartPod, EndPod, RemovePod, inputVars, passVars
<1>7. ASSUME NEW o, Provide(o) \/ Withdraw(o) PROVE Goal
  BY <1>7 DEF Provide, Withdraw, crVars, cloudsVars, passVars
<1>8. ASSUME SyncClouds \/ CollectClouds \/ UNCHANGED vars PROVE Goal
  BY <1>8 DEF SyncClouds, CollectClouds, vars, crVars, cloudsVars, inputVars, passVars
<1> HIDE DEF Goal
<1>9. Goal
  BY <1>3, <1>4, <1>5, <1>6, <1>7, <1>8 DEF Next
<1> QED
  BY <1>1, <1>9 DEF Goal

-----------------------------------------------------------------------------
(* Types and shapes are kept.                                              *)
LEMMA ShapesStep ==
  ASSUME UserInv, PodsShaped, PassesShaped, [Next]_vars
  PROVE  PodsShaped' /\ PassesShaped'
<1>1. PodsShaped'
  <2>1. CASE Age
    BY <2>1 DEF Age, PodsShaped
  <2>2. ASSUME NEW i \in Instances, Builds(i) PROVE PodsShaped'
    <3>1. NameOf(i)[1] = Name[i]
      BY DEF NameOf, GetPodName
    <3> QED
      BY <2>2, <3>1 DEF Builds, PodsShaped
  <2> QED
    BY <2>1, <2>2, PodsStep
<1>2. pc' \in [Instances -> Places]
      /\ mem' \in [Instances -> [cr : ManifestNumbers, step : Nat]]
  BY PassStep, StartShaped DEF UserInv
<1>3. \A j \in Instances : pc'[j] = "idle" <=> mem'[j] = NoPass
  <2> SUFFICES ASSUME NEW j \in Instances PROVE pc'[j] = "idle" <=> mem'[j] = NoPass
    OBVIOUS
  <2>1. CASE StartPass(j)
    BY <2>1, StartShaped DEF UserInv
  <2> QED
    BY <2>1, PassStep DEF Ends, Proceeds, PassesShaped
<1> QED
  BY <1>1, <1>2, <1>3 DEF PassesShaped

LEMMA ShapesHold == Spec => [](UserInv /\ PodsShaped /\ PassesShaped)
<1>1. Init => UserInv /\ PodsShaped /\ PassesShaped
  <2> SUFFICES ASSUME Init PROVE UserInv /\ PodsShaped /\ PassesShaped
    OBVIOUS
  <2>1. UserInv
    BY PopulationsAssumption, BoundsAssumption DEF Init, UserInv, ManifestNumbers
  <2>2. NoPass \in [cr : ManifestNumbers, step : Nat]
    BY DEF NoPass, ManifestNumbers
  <2>3. PodsShaped /\ PassesShaped
    BY <2>2 DEF Init, PodsShaped, PassesShaped, Places
  <2> QED
    BY <2>1, <2>3
<1>2. UserInv /\ PodsShaped /\ PassesShaped /\ [Next]_vars
        => (UserInv /\ PodsShaped /\ PassesShaped)'
  BY UserInvStep, ShapesStep
<1> QED
  BY <1>1, <1>2, PTL DEF Spec

(* The type invariant, for any instances, manifests and objects of the     *)
(* user.                                                                   *)
THEOREM BuildTypes == Spec => []TypeOK
<1>1. UserInv /\ PodsShaped /\ PassesShaped => TypeOK
  BY DEF UserInv, PodsShaped, PodShape, PassesShaped, TypeOK
<1> QED
  BY <1>1, ShapesHold, PTL

-----------------------------------------------------------------------------
(* A pod is built only when those before it are done,                      *)
LEMMA LastIsActiveStep ==
  ASSUME NamesDiffer, UserInv, AloneInv, [Next]_vars
  PROVE  OnlyLastIsActive'
<1> USE DEF AloneInv
<1> SUFFICES ASSUME NEW j \in Instances, NEW m \in OwnPods(j)', NEW n \in OwnPods(j)',
                    pods'[n].phase # "Done", m # n
             PROVE  pods'[m].phase = "Done" /\ pods'[m].step < pods'[n].step
  BY DEF OnlyLastIsActive
<1>1. CASE Age
  <2>1. m \in OwnPods(j) /\ n \in OwnPods(j) /\ pods[n].phase # "Done"
    BY <1>1 DEF Age, OwnPods
  <2>2. pods[m].phase = "Done" /\ pods[m].step < pods[n].step
    BY <2>1 DEF OnlyLastIsActive
  <2> QED
    BY <1>1, <2>2 DEF Age, OwnPods
<1>2. ASSUME NEW i \in Instances, Builds(i)
      PROVE  pods'[m].phase = "Done" /\ pods'[m].step < pods'[n].step
  <2>1. \A k \in OwnPods(j)' : k = NameOf(i) \/ (k \in OwnPods(j) /\ pods'[k] = pods[k])
    BY <1>2 DEF Builds, OwnPods
  <2>2. NameOf(i) \in OwnPods(j)' => j = i
    BY <1>2 DEF Builds, OwnPods
  <2>3. \A k \in OwnPods(i) : pods[k].phase = "Done" /\ pods[k].step < mem[i].step
    BY <1>2 DEF Builds, PassIsAlone
  <2>4. CASE n = NameOf(i)
    BY <1>2, <2>1, <2>2, <2>3, <2>4 DEF Builds
  <2>5. CASE n # NameOf(i)
    <3>1. n \in OwnPods(j) /\ pods'[n] = pods[n] /\ j # i
      BY <2>1, <2>3, <2>5
    <3>2. m \in OwnPods(j) /\ pods'[m] = pods[m]
      BY <2>1, <2>2, <3>1
    <3> QED
      BY <3>1, <3>2 DEF OnlyLastIsActive
  <2> QED
    BY <2>4, <2>5
<1> QED
  BY <1>1, <1>2, PodsStep

(* and while a pass is under way nothing of its instance runs.             *)
LEMMA PassIsAloneStep ==
  ASSUME NamesDiffer, UserInv, AloneInv, [Next]_vars
  PROVE  PassIsAlone'
<1> USE DEF AloneInv
<1> SUFFICES ASSUME NEW j \in Instances, pc'[j] # "idle", NEW n \in OwnPods(j)'
             PROVE  pods'[n].phase = "Done" /\ pods'[n].step < mem'[j].step
  BY DEF PassIsAlone
<1>1. CASE StartPass(j)
  BY <1>1, StartShaped, PassStarted DEF OwnPods, UserInv
<1>2. CASE Proceeds(j)
  <2>1. /\ mem'[j] = mem[j]
        /\ \A k \in OwnPods(j) : pods[k].phase = "Done" /\ pods[k].step < mem[j].step
    BY <1>2 DEF Proceeds, PassIsAlone
  <2>2. CASE Age
    BY <2>1, <2>2 DEF Age, OwnPods
  <2>3. ASSUME NEW i \in Instances, Builds(i)
        PROVE  n \in OwnPods(j) /\ pods'[n] = pods[n]
    <3>1. i # j
      BY <2>3 DEF Builds, EndPass, Go, PassesShaped
    <3> QED
      BY <2>3, <3>1 DEF Builds, OwnPods
  <2> QED
    BY <2>1, <2>2, <2>3, PodsStep
<1> QED
  BY <1>1, <1>2, PassStep DEF Ends

LEMMA BuildInvHolds ==
  ASSUME NamesDiffer
  PROVE  Spec => [](UserInv /\ AloneInv)
<1>1. Init => OnlyLastIsActive /\ PassIsAlone
  BY DEF Init, OnlyLastIsActive, PassIsAlone, OwnPods
<1>2. UserInv /\ AloneInv /\ [Next]_vars => (OnlyLastIsActive /\ PassIsAlone)'
  BY LastIsActiveStep, PassIsAloneStep
<1> QED
  BY <1>1, <1>2, ShapesHold, PTL DEF Spec, AloneInv

(* No claim for logs has two pods that both go on: pods that hold it       *)
(* belong to one instance, and of those only the last runs, unless it is   *)
(* being deleted.                                                          *)
THEOREM ClaimsNotShared ==
  ASSUME NamesDiffer
  PROVE  Spec => []LogsNotShared
<1>1. ASSUME AloneInv PROVE LogsNotShared
  <2> SUFFICES ASSUME NEW m \in DOMAIN pods, NEW n \in DOMAIN pods, m # n,
                      Holds(m, pods[m].claim), Holds(n, pods[m].claim),
                      ~pods[m].deleting, ~pods[n].deleting
               PROVE  FALSE
    BY DEF LogsNotShared
  <2>1. /\ pods[m].owner = pods[n].owner /\ pods[m].owner \in Instances
        /\ pods[m].phase = "Running" /\ pods[n].phase = "Running"
    BY <1>1 DEF AloneInv, PodsShaped, PodShape, Holds
  <2>2. m \in OwnPods(pods[m].owner) /\ n \in OwnPods(pods[m].owner)
    BY <2>1 DEF OwnPods
  <2> QED
    BY <1>1, <2>1, <2>2 DEF AloneInv, OnlyLastIsActive
<1> QED
  BY <1>1, BuildInvHolds, PTL

-----------------------------------------------------------------------------
LEMMA OnlyStartPodStarts ==
  ASSUME PodsShaped, PassesShaped, [Next]_vars, NEW n \in DOMAIN pods \cap DOMAIN pods',
         pods[n].phase = "Pending", pods'[n].phase = "Running"
  PROVE  StartPod(n)
<1>1. ASSUME UNCHANGED pods PROVE FALSE
  BY <1>1
<1>2. ASSUME NEW m \in DOMAIN pods, StartPod(m) \/ EndPod(m) PROVE StartPod(n)
  <2>1. m = n
    BY <1>2 DEF StartPod, EndPod
  <2>2. ~EndPod(n)
    BY DEF EndPod
  <2> QED
    BY <1>2, <2>1, <2>2
<1>3. ASSUME NEW m \in DOMAIN pods, RemovePod(m) PROVE FALSE
  BY <1>3 DEF RemovePod
<1>4. ASSUME NEW i \in Instances, Collect(i) PROVE FALSE
  BY <1>4 DEF Collect
<1>5. ASSUME NEW i \in Instances, Recreate(i) PROVE FALSE
  <2>1. pods'[n] = pods[n] \/ pods'[n] = [pods[n] EXCEPT !.deleting = TRUE]
    BY <1>5, SMTT(40) DEF Recreate
  <2> QED
    BY <2>1, ChangedPod DEF PodsShaped
<1>6. ASSUME NEW i \in Instances, BuildPod(i) PROVE FALSE
  BY <1>6 DEF BuildPod
<1>7. ASSUME NEW i \in Instances, Pass(i) PROVE FALSE
  <2>1. UNCHANGED pods \/ Recreate(i) \/ BuildPod(i)
    BY <1>7 DEF Pass, StartPass, ValidateInputs, EnsureLogsPVCExists,
                EnsureCloudsConfigMapExists, CreateClouds, generateServiceConfigMaps
  <2> QED
    BY <1>1, <1>5, <1>6, <2>1
<1>8. ASSUME NEW i \in Instances, User(i) \/ generateServiceConfigMapsFails(i)
      PROVE  UNCHANGED pods
  BY <1>8 DEF User, Create, Update, Delete, generateServiceConfigMapsFails
<1>9. ASSUME NEW o, Provide(o) \/ Withdraw(o) PROVE UNCHANGED pods
  BY <1>9 DEF Provide, Withdraw
<1>10. ASSUME SyncClouds \/ CollectClouds \/ UNCHANGED vars PROVE UNCHANGED pods
  BY <1>10 DEF SyncClouds, CollectClouds, vars
<1> QED
  BY <1>1, <1>2, <1>3, <1>4, <1>7, <1>8, <1>9, <1>10 DEF Next, Kubelet

(* ConfigMaps of a step are overwritten only by a pass of the instance,    *)
(* and so not while a pod waits to be built or to start.                   *)
LEMMA ConfigInvStep ==
  ASSUME NamesDiffer, UserInv, AloneInv, ConfigInv, [Next]_vars
  PROVE  ConfigInv'
<1> USE DEF AloneInv, ConfigInv
<1>1. ASSUME NEW j \in Instances, NEW k, NEW c \in Range(ServiceConfigMaps(j, k)),
             c \in DOMAIN store', ~Kept(c)
      PROVE  pc[j] = "config" /\ UNCHANGED pods
  <2>1. PICK i \in Instances : StoreStep(i)
    BY <1>1, StoreSteps
  <2>2. PICK x \in {"custom-data", "env-vars", "config", "private-key", "public-key"} :
          c = <<j, x, k>>
    BY <1>1, ConfigMapsOfInstance
  <2>3. \A l : c # <<i, "logs", l>>
    BY <2>2
  <2>4. pc[i] = "config" /\ c \in Range(ServiceConfigMaps(i, mem[i].step)) /\ UNCHANGED pods
    BY <1>1, <2>1, <2>3 DEF StoreStep
  <2>5. c[1] = i
    BY <2>4, ConfigMapsOfInstance
  <2> QED
    BY <2>2, <2>4, <2>5
<1>2. PassHasWritten'
  <2> SUFFICES ASSUME NEW j \in Instances, pc'[j] = "create",
                      NEW c \in Range(ServiceConfigMaps(j, mem'[j].step)), c \in DOMAIN store'
               PROVE  store'[c] = Written(j)'
    BY DEF PassHasWritten, ServiceConfigMaps, OwnConfigMap, Infixes, Range
  <2>1. Proceeds(j)
    BY PassStep, StartShaped DEF Ends, UserInv
  <2>2. mem'[j] = mem[j] /\ Written(j)' = Written(j)
    BY <2>1 DEF Proceeds, Written, CalculateConfigHash
  <2>3. CASE generateServiceConfigMaps(j)
    BY <2>2, <2>3 DEF generateServiceConfigMaps, EnsureConfigMaps
  <2>4. CASE pc[j] = "create"
    <3>1. Kept(c)
      BY <1>1, <2>4
    <3> QED
      BY <2>2, <2>4, <3>1 DEF PassHasWritten, Kept
  <2> QED
    BY <2>1, <2>3, <2>4 DEF Proceeds
<1>3. WrittenForPods'
  <2> SUFFICES ASSUME NEW n \in DOMAIN pods', pods'[n].phase = "Pending", ~pods'[n].deleting,
                      NEW c \in Range(ServiceConfigMaps(pods'[n].owner, pods'[n].step)),
                      c \in DOMAIN store'
               PROVE  store'[c] = <<pods'[n].hash, pods'[n].step>>
    BY DEF WrittenForPods, ServiceConfigMaps, OwnConfigMap, Infixes, Range
  <2>1. CASE Age
    <3>1. /\ n \in DOMAIN pods /\ pods[n].phase = "Pending" /\ ~pods[n].deleting
          /\ pods'[n].owner = pods[n].owner /\ pods'[n].step = pods[n].step
          /\ pods'[n].hash = pods[n].hash
      BY <2>1 DEF Age
    <3>2. pods[n].owner \in Instances /\ n \in OwnPods(pods[n].owner)
      BY <3>1 DEF PodsShaped, PodShape, OwnPods
    <3>3. pc[pods[n].owner] = "idle"
      BY <3>1, <3>2 DEF PassIsAlone
    <3>4. Kept(c)
      BY <1>1, <3>1, <3>2, <3>3
    <3> QED
      BY <3>1, <3>4 DEF WrittenForPods, Kept
  <2>2. ASSUME NEW i \in Instances, Builds(i)
        PROVE  store'[c] = <<pods'[n].hash, pods'[n].step>>
    <3>1. CASE n = NameOf(i)
      BY <2>2, <3>1 DEF Builds, PassHasWritten, Written
    <3>2. CASE n # NameOf(i)
      BY <2>2, <3>2 DEF Builds, WrittenForPods
    <3> QED
      BY <3>1, <3>2
  <2> QED
    BY <2>1, <2>2, PodsStep
<1> QED
  BY <1>2, <1>3

(* A pod that starts finds in its ConfigMaps what was written for its own  *)
(* step from the spec it was built from, whatever is updated, deleted,     *)
(* withdrawn or fails to be written in between.                            *)
THEOREM PodsRunTheirOwnConfig ==
  ASSUME NamesDiffer
  PROVE  Spec => RunsItsOwnConfig
<1>1. Init => ConfigInv
  BY DEF Init, ConfigInv, PassHasWritten, WrittenForPods
<1>2. UserInv /\ AloneInv /\ ConfigInv /\ [Next]_vars => ConfigInv'
  BY ConfigInvStep
<1>3. ASSUME AloneInv, ConfigInv, [Next]_vars, NEW n \in DOMAIN pods \cap DOMAIN pods',
             pods[n].phase = "Pending", pods'[n].phase = "Running",
             NEW c \in pods[n].awaits
                        \cap Range(ServiceConfigMaps(pods[n].owner, pods[n].step))
      PROVE  store[c] = <<pods[n].hash, pods[n].step>>
  <2>1. ~pods[n].deleting /\ pods[n].awaits \subseteq Present
    <3>1. StartPod(n)
      BY <1>3, OnlyStartPodStarts DEF AloneInv
    <3> QED
      BY <3>1 DEF StartPod
  <2>2. c \in Present /\ pods[n].owner \in Instances
    BY <1>3, <2>1 DEF AloneInv, PodsShaped, PodShape
  <2>3. PICK x \in {"custom-data", "env-vars", "config", "private-key", "public-key"} :
          c = <<pods[n].owner, x, pods[n].step>>
    BY <1>3, <2>2, ConfigMapsOfInstance
  <2>4. c \notin UserObjects
    BY <2>3 DEF UserObjects, UserObject, KeyIn, ReferringFields
  <2>5. c # CloudsConfigMap
    BY <2>3 DEF CloudsConfigMap
  <2>6. c \in DOMAIN store
    BY <2>2, <2>4, <2>5 DEF Present
  <2> QED
    BY <1>3, <2>1, <2>6 DEF ConfigInv, WrittenForPods
<1>4. AloneInv /\ ConfigInv /\ [Next]_vars
        => [\A n \in DOMAIN pods \cap DOMAIN pods' :
              pods[n].phase = "Pending" /\ pods'[n].phase = "Running" =>
                \A c \in pods[n].awaits
                          \cap Range(ServiceConfigMaps(pods[n].owner, pods[n].step)) :
                   store[c] = <<pods[n].hash, pods[n].step>>]_vars
  BY <1>3
<1> QED
  BY <1>1, <1>2, <1>4, BuildInvHolds, PTL DEF Spec, RunsItsOwnConfig

-----------------------------------------------------------------------------
(* Defaults change values, never the workflow.                             *)
LEMMA DefaultedSpec ==
  ASSUME NEW i \in Instances, NEW g \in DOMAIN Manifests[i]
  PROVE  /\ SpecOf(i, g) \in ManifestType(Kind[i])
         /\ SpecOf(i, g).workflow = Manifests[i][g].workflow
         /\ \A f \in FilledIn \cap Fields(Kind[i]) : SpecOf(i, g).main[f] = "main"
         /\ Kind[i] = "Tempest" => SpecOf(i, g).main["ContainerImage"] = "main"
<1> DEFINE m == Manifests[i][g]
           noConf == \A f \in TempestconfRunSpec : m.main[f] = "empty"
           main == [f \in DOMAIN m.main |->
                      IF \/ f = "ContainerImage" /\ m.main[f] = "empty"
                         \/ f = "Create" /\ noConf
                      THEN "main" ELSE m.main[f]]
<1>1. /\ m \in ManifestType(Kind[i])
      /\ \A f \in FilledIn \cap Fields(Kind[i]) : m.main[f] = "main"
  BY ManifestsAssumption
<1>2. SpecOf(i, g) = IF Kind[i] # "Tempest" THEN m ELSE [m EXCEPT !.main = main]
  BY DEF SpecOf, Specs, Default
<1>3. CASE Kind[i] # "Tempest"
  BY <1>1, <1>2, <1>3
<1>4. CASE Kind[i] = "Tempest"
  <2>1. m.main \in [Fields(Kind[i]) -> {"empty", "main"}]
    BY <1>1 DEF ManifestType
  <2>2. main \in [Fields(Kind[i]) -> {"empty", "main"}]
    BY <2>1
  <2>3. \A f \in FilledIn \cap Fields(Kind[i]) : main[f] = "main"
    BY <1>1, <2>1
  <2>4. main["ContainerImage"] = "main"
    <3>1. "ContainerImage" \in Fields("Tempest")
      BY DEF Fields, StepFields, Step, WorkflowTempestSpec
    <3> QED
      BY <1>4, <2>1, <3>1
  <2> HIDE DEF main
  <2>5. SpecOf(i, g) = [m EXCEPT !.main = main]
    BY <1>2, <1>4
  <2> QED
    BY <1>1, <2>2, <2>3, <2>4, <2>5 DEF ManifestType
<1> QED
  BY <1>3, <1>4

(* Every pod was built for a step of a manifest, those of an instance for  *)
(* steps of one, and a pass goes on with that one.                         *)
PodsOfManifests ==
    \A n \in DOMAIN pods : \E g \in DOMAIN Manifests[pods[n].owner] :
       /\ pods[n].hash = CalculateConfigHash(pods[n].owner, g)
       /\ pods[n].step \in Steps(SpecOf(pods[n].owner, g))

SameManifest ==
    \A i \in Instances : \A m, n \in OwnPods(i) : pods[m].hash = pods[n].hash

PassesOfManifests ==
    \A i \in Instances : pc[i] # "idle" =>
       /\ mem[i].cr \in DOMAIN Manifests[i]
       /\ mem[i].step \in Steps(SpecInHand(i))
       /\ \A n \in OwnPods(i) : pods[n].hash = CalculateConfigHash(i, mem[i].cr)

ManifestInv == PodsOfManifests /\ SameManifest /\ PassesOfManifests

LEMMA StartOfManifest ==
  ASSUME NamesDiffer, UserInv, AloneInv, ManifestInv, NEW i \in Instances, StartPass(i)
  PROVE  /\ mem'[i].cr \in DOMAIN Manifests[i]
         /\ mem'[i].step \in Steps(SpecOf(i, mem'[i].cr))
         /\ \A n \in OwnPods(i) : pods[n].hash = CalculateConfigHash(i, mem'[i].cr)
<1> USE DEF AloneInv, PodsShaped, PassesShaped, ManifestInv
<1> DEFINE spec == SpecOf(i, crs[i])
<1>1. PICK d \in NextActions(i, spec, pods) :
        /\ d.action \in {"CreateFirstPod", "CreateNextPod"}
        /\ mem' = [mem EXCEPT ![i] = [cr |-> crs[i], step |-> d.step]]
  BY DEF StartPass
<1>2. mem'[i].cr = crs[i] /\ mem'[i].step = d.step
  BY <1>1
<1>3. crs[i] \in DOMAIN Manifests[i]
  BY DEF StartPass, Exists, UserInv
<1>4. WorkflowLength(spec) \in Nat
  BY <1>3, DefaultedSpec DEF ManifestType, WorkflowLength
<1>5. Listed(i, pods) = OwnPods(i)
  BY DEF NamesDiffer, Listed, OwnPods, PodShape
<1>6. CASE OwnPods(i) = {}
  <2>1. d.step = 0
    BY <1>1, <1>5, <1>6 DEF NextActions, Decision
  <2>2. 0 \in Steps(spec)
    BY <1>4 DEF Steps
  <2> QED
    BY <1>2, <1>3, <1>6, <2>1, <2>2
<1>7. CASE OwnPods(i) # {}
  <2>1. \A n \in OwnPods(i) : pods[n].hash = CalculateConfigHash(i, crs[i])
    <3>1. FALSE \in ConfigChanged(i, crs[i], pods)
      BY DEF StartPass
    <3>2. PICK m \in OwnPods(i) : pods[m].hash = CalculateConfigHash(i, crs[i])
      BY <1>5, <1>7, <3>1 DEF ConfigChanged
    <3> QED
      BY <3>2 DEF SameManifest
  <2>2. PICK n \in LastPods(i, pods) : d = AfterPod(pods[n], WorkflowLength(spec))
    BY <1>1, <1>5, <1>7 DEF NextActions
  <2>3. n \in OwnPods(i)
    BY <1>5, <2>2 DEF LastPods
  <2>4. pods[n].step \in Steps(spec)
    <3>1. PICK g \in DOMAIN Manifests[i] : /\ pods[n].hash = CalculateConfigHash(i, g)
                                           /\ pods[n].step \in Steps(SpecOf(i, g))
      BY <2>3 DEF PodsOfManifests, OwnPods
    <3>2. g = crs[i]
      BY <2>1, <2>3, <3>1 DEF CalculateConfigHash
    <3> QED
      BY <3>1, <3>2
  <2>5. pods[n].phase \in Phases /\ pods[n].step \in Nat
    BY <2>3 DEF OwnPods, PodShape
  <2>6. isLastPodIndex(pods[n].step, WorkflowLength(spec)) \in BOOLEAN
    BY DEF isLastPodIndex
  <2>7. /\ ~isLastPodIndex(pods[n].step, WorkflowLength(spec))
        /\ d.step = pods[n].step + 1
    BY <1>1, <2>2, <2>5, <2>6 DEF AfterPod, Decision, Phases
  <2>8. d.step \in Steps(spec)
    BY <1>4, <2>4, <2>5, <2>7 DEF Steps, isLastPodIndex
  <2> QED
    BY <1>2, <1>3, <2>1, <2>8
<1> QED
  BY <1>6, <1>7

LEMMA ManifestInvStep ==
  ASSUME NamesDiffer, UserInv, AloneInv, ManifestInv, [Next]_vars
  PROVE  ManifestInv'
<1> USE DEF AloneInv, ManifestInv
<1>1. CASE Age
  <2>1. PodsOfManifests'
    BY <1>1 DEF Age, PodsOfManifests, CalculateConfigHash, Steps, WorkflowLength, SpecOf
  <2>2. \A j \in Instances : \A n \in OwnPods(j)' : n \in OwnPods(j) /\ pods'[n].hash = pods[n].hash
    BY <1>1 DEF Age, OwnPods
  <2>3. SameManifest'
    BY <2>2 DEF SameManifest
  <2>4. PassesOfManifests'
    <3> SUFFICES ASSUME NEW j \in Instances, pc'[j] # "idle"
                 PROVE  /\ mem'[j].cr \in DOMAIN Manifests[j]
                        /\ mem'[j].step \in Steps(SpecOf(j, mem'[j].cr))
                        /\ \A n \in OwnPods(j)' :
                             pods'[n].hash = CalculateConfigHash(j, mem'[j].cr)
      BY DEF PassesOfManifests, SpecInHand, CalculateConfigHash, Steps,
             WorkflowLength, SpecOf
    <3>1. CASE StartPass(j)
      BY <2>2, <3>1, StartOfManifest
    <3>2. CASE Proceeds(j)
      BY <2>2, <3>2 DEF Proceeds, PassesOfManifests, SpecInHand
    <3> QED
      BY <3>1, <3>2, PassStep DEF Ends
  <2> QED
    BY <2>1, <2>3, <2>4
<1>2. ASSUME NEW i \in Instances, Builds(i) PROVE ManifestInv'
  <2>1. /\ pc[i] = "create" /\ mem[i].cr \in DOMAIN Manifests[i]
        /\ mem[i].step \in Steps(SpecOf(i, mem[i].cr))
        /\ \A n \in OwnPods(i) : pods[n].hash = CalculateConfigHash(i, mem[i].cr)
    BY <1>2 DEF Builds, PassesOfManifests, SpecInHand
  <2>2. PodsOfManifests'
    <3>1. \A n \in DOMAIN pods' : \E g \in DOMAIN Manifests[pods'[n].owner] :
            /\ pods'[n].hash = CalculateConfigHash(pods'[n].owner, g)
            /\ pods'[n].step \in Steps(SpecOf(pods'[n].owner, g))
      BY <1>2, <2>1 DEF Builds, PodsOfManifests
    <3> QED
      BY <3>1 DEF PodsOfManifests, CalculateConfigHash, Steps, WorkflowLength, SpecOf
  <2>3. /\ \A n \in OwnPods(i)' : pods'[n].hash = CalculateConfigHash(i, mem[i].cr)
        /\ \A j \in Instances \ {i} : \A n \in OwnPods(j)' :
              n \in OwnPods(j) /\ pods'[n].hash = pods[n].hash
    BY <1>2, <2>1 DEF Builds, OwnPods
  <2>4. SameManifest'
    BY <2>3 DEF SameManifest
  <2>5. PassesOfManifests'
    <3>1. /\ pc'[i] = "idle"
          /\ \A j \in Instances \ {i} : pc'[j] = pc[j] /\ mem'[j] = mem[j]
      BY <1>2 DEF Builds, EndPass, Go, PassesShaped
    <3> SUFFICES ASSUME NEW j \in Instances, pc'[j] # "idle"
                 PROVE  /\ mem'[j].cr \in DOMAIN Manifests[j]
                        /\ mem'[j].step \in Steps(SpecOf(j, mem'[j].cr))
                        /\ \A n \in OwnPods(j)' :
                             pods'[n].hash = CalculateConfigHash(j, mem'[j].cr)
      BY DEF PassesOfManifests, SpecInHand, CalculateConfigHash, Steps,
             WorkflowLength, SpecOf
    <3>2. j # i /\ pc[j] # "idle" /\ mem'[j] = mem[j]
      BY <3>1
    <3> QED
      BY <2>3, <3>2 DEF PassesOfManifests, SpecInHand
  <2> QED
    BY <2>2, <2>4, <2>5
<1> QED
  BY <1>1, <1>2, PodsStep

LEMMA ManifestInvHolds ==
  ASSUME NamesDiffer
  PROVE  Spec => [](UserInv /\ AloneInv /\ ManifestInv)
<1>1. Init => ManifestInv
  BY DEF Init, ManifestInv, PodsOfManifests, SameManifest, PassesOfManifests, OwnPods
<1>2. UserInv /\ AloneInv /\ ManifestInv /\ [Next]_vars => ManifestInv'
  BY ManifestInvStep
<1> QED
  BY <1>1, <1>2, BuildInvHolds, PTL DEF Spec

-----------------------------------------------------------------------------
(* The spec a pod is built from has a value for every field.               *)
LEMMA MergedSpec ==
  ASSUME NEW i \in Instances, NEW g \in DOMAIN Manifests[i],
         NEW k \in Steps(SpecOf(i, g))
  PROVE  StepSpec(Kind[i], SpecOf(i, g), k) \in [Fields(Kind[i]) -> SpecValues]
<1> DEFINE spec == SpecOf(i, g)
<1>1. /\ spec.main \in [Fields(Kind[i]) -> {"empty", "main"}]
      /\ spec.workflow \in Seq([StepFields(Kind[i]) -> StepValues])
  BY DefaultedSpec DEF ManifestType
<1>2. CASE Config[Kind[i]].SupportsWorkflow /\ k < Len(spec.workflow)
  <2>1. k \in Nat
    BY DEF Steps
  <2>2. spec.workflow[k + 1] \in [StepFields(Kind[i]) -> StepValues]
    BY <1>1, <1>2, <2>1
  <2>3. StepSpec(Kind[i], spec, k) =
          MergeSections(Kind[i], spec.main, spec.workflow[k + 1])
    BY <1>2 DEF StepSpec
  <2>4. \A f \in Fields(Kind[i]) : StepSpec(Kind[i], spec, k)[f] \in SpecValues
    <3> SUFFICES ASSUME NEW f \in Fields(Kind[i])
                 PROVE  StepSpec(Kind[i], spec, k)[f] \in SpecValues
      OBVIOUS
    <3>1. spec.main[f] \in SpecValues
      BY <1>1 DEF SpecValues
    <3>2. f \in StepFields(Kind[i]) => Zero(spec.workflow[k + 1][f]) \in SpecValues
      BY <2>2 DEF StepValues, SpecValues, Zero
    <3> QED
      BY <2>3, <3>1, <3>2 DEF MergeSections, Fields
  <2> QED
    BY <2>3, <2>4 DEF MergeSections
<1>3. CASE ~(Config[Kind[i]].SupportsWorkflow /\ k < Len(spec.workflow))
  BY <1>1, <1>3 DEF StepSpec, SpecValues
<1> QED
  BY <1>2, <1>3

(* No field of a spec alone is one of its steps.                           *)
LEMMA FieldsApart ==
  ASSUME NEW kind \in Kinds PROVE SpecOnlyFields[kind] \cap StepFields(kind) = {}
<1> USE DEF StepFields, SpecOnlyFields, Step
<1>1. CASE kind = "Tempest"
  BY <1>1 DEF WorkflowTempestSpec, TempestSpec, CommonOptions, WorkflowCommonOptions,
     WorkflowTempestRunSpec, WorkflowTempestconfRunSpec, TempestRunSpec,
     TempestconfRunSpec, CommonOpenstackConfig
<1>2. CASE kind = "Tobiko"
  BY <1>2 DEF TobikoWorkflowSpec, TobikoSpec, CommonOptions, WorkflowCommonOptions,
     CommonOpenstackConfig
<1>3. CASE kind = "HorizonTest"
  BY <1>3 DEF NoStep
<1>4. CASE kind = "AnsibleTest"
  BY <1>4 DEF AnsibleTestWorkflowSpec, AnsibleTestSpec, CommonOptions,
     WorkflowCommonOptions, CommonOpenstackConfig
<1> QED
  BY <1>1, <1>2, <1>3, <1>4 DEF Kinds

(* MergeSections gives an option what the manifest says of it, but for the *)
(* deviations that are known.                                              *)
LEMMA MergedIsMeant ==
  ASSUME NEW i \in Instances, NEW g \in DOMAIN Manifests[i],
         NEW k \in Steps(SpecOf(i, g)), NEW f \in Fields(Kind[i]),
         ~( /\ k < Len(SpecOf(i, g).workflow) /\ f \in StepFields(Kind[i])
            /\ Deviates(Kind[i], f, SpecOf(i, g).workflow[k + 1][f]) )
  PROVE  StepSpec(Kind[i], SpecOf(i, g), k)[f] = Meant(i, SpecOf(i, g), k, f)
<1> DEFINE spec == SpecOf(i, g)
           value == spec.workflow[k + 1][f]
<1>1. /\ spec.workflow \in Seq([StepFields(Kind[i]) -> StepValues])
      /\ spec.workflow # <<>> => Config[Kind[i]].SupportsWorkflow
  <2>1. spec \in ManifestType(Kind[i]) /\ spec.workflow = Manifests[i][g].workflow
    BY DefaultedSpec
  <2>2. Manifests[i][g].workflow # <<>> => Config[Kind[i]].SupportsWorkflow
    BY ManifestsAssumption
  <2> QED
    BY <2>1, <2>2 DEF ManifestType
<1>2. k \in Nat
  BY DEF Steps
<1>3. CASE k < Len(spec.workflow)
  <2>1. Config[Kind[i]].SupportsWorkflow
    BY <1>1, <1>2, <1>3
  <2>2. StepSpec(Kind[i], spec, k) =
          MergeSections(Kind[i], spec.main, spec.workflow[k + 1])
    BY <1>3, <2>1 DEF StepSpec
  <2>3. CASE f \notin StepFields(Kind[i])
    <3>1. f \in SpecOnlyFields[Kind[i]]
      BY <2>3 DEF Fields
    <3> QED
      BY <2>2, <2>3, <3>1 DEF MergeSections, Meant
  <2>4. CASE f \in StepFields(Kind[i])
    <3>1. f \notin SpecOnlyFields[Kind[i]]
      BY <2>4, FieldsApart, KindAssumption
    <3>2. value \in StepValues
      BY <1>1, <1>2, <1>3, <2>4
    <3>3. /\ f \notin Step[Kind[i]].struct
          /\ f \in Step[Kind[i]].string => value # "empty"
          /\ f \in Step[Kind[i]].bool \cup DefaultedFields => value # "omitted"
      BY <1>3, <2>4 DEF Deviates
    <3>4. \/ f \in Step[Kind[i]].nil \/ f \in Step[Kind[i]].string
          \/ f \in Step[Kind[i]].bool
      BY <2>4, <3>3 DEF StepFields
    <3>5. Stored(f, value) = value
      BY <3>3 DEF Stored
    <3>6. IsEmpty(Kind[i], f, value) <=> value = "omitted"
      BY <3>2, <3>3, <3>4 DEF IsEmpty, StepValues
    <3>7. StepSpec(Kind[i], spec, k)[f] = IF value = "omitted" THEN spec.main[f] ELSE value
      BY <2>2, <3>1, <3>3, <3>5, <3>6 DEF MergeSections, Zero
    <3> QED
      BY <1>3, <2>4, <3>7 DEF Meant
  <2> QED
    BY <2>3, <2>4
<1>4. CASE ~(k < Len(spec.workflow))
  BY <1>4 DEF StepSpec, Meant
<1> QED
  BY <1>3, <1>4
=============================================================================
