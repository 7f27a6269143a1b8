------------------------------- MODULE PodSpec -------------------------------
(***************************************************************************)
(* The pod that a pass builds for step k of the spec of instance i (the    *)
(* functions Pod, GetVolumes and GetVolumeMounts of each kind, and         *)
(* internal/util): its image, its volumes and mounts, the ConfigMaps its   *)
(* environment comes from; and what the API server asks of such a pod.     *)
(* Volumes that carry an object of the user are named after it, so these   *)
(* names are parameters.                                                   *)
(***************************************************************************)
EXTENDS Admission, Environment, FiniteSets

CONSTANTS
    ConfiguredImages,  \* kinds for which test-operator-config names an image
    OpenstackName,     \* names of the ConfigMap and of the Secret that the
                       \* spec of each instance has in CommonOpenstackConfig
    ExtraConfigmaps,   \* what ExtraConfigmapsMounts of the spec and of a step
                       \* of each instance list, when they are given
    ExtraMounts,       \* volumes and mounts of ExtraMounts, when it is given
    NotLabels          \* names that an object may have, but no volume: of
                       \* more than 63 characters, or with dots

Mount(name, path) == [name |-> name, path |-> path]
Mounts == [name : STRING, path : STRING]

(* The volumes that the operator gives a name of its own, and the paths at *)
(* which it mounts volumes.  Paths are abridged.                           *)
CommonNames ==
    { "test-operator-logs", "test-operator-ephemeral-workdir",
      "test-operator-ephemeral-temporary", "ca-certs" }
CommonPaths ==
    { "/etc/clouds.yaml", "~/clouds.yaml", "secure.yaml", "external_files",
      "workdir", "/tmp", "tls-ca-bundle.pem", "ca-bundle.trust.crt" }

OperatorNames ==
    [ Tempest     |-> CommonNames \cup {"config-data", "ssh-key"},
      Tobiko      |-> CommonNames \cup { "tobiko-config", "tobiko-private-key",
                         "tobiko-public-key", "kubeconfig",
                         "test-operator-clouds-config" },
      HorizonTest |-> CommonNames \cup { "horizontest-config", "kubeconfig",
                                         "test-operator-clouds-config" },
      AnsibleTest |-> CommonNames \cup {"compute-ssh-secret", "workload-ssh-secret"} ]

OperatorPaths ==
    [ Tempest     |-> CommonPaths \cup {"/etc/test_operator", "id_ecdsa"},
      Tobiko      |-> CommonPaths \cup { "tobiko.conf", "id_ecdsa", "id_ecdsa.pub",
                                         ".kube/config" },
      HorizonTest |-> CommonPaths \cup {".kube/config"},
      AnsibleTest |-> CommonPaths \cup {".ssh/compute_id", "test_keypair.key"} ]

ASSUME ConfiguredImagesAssumption == ConfiguredImages \subseteq Kinds
ASSUME OpenstackNameAssumption ==
    OpenstackName \in [Instances -> [CommonOpenstackConfig -> STRING]]
ASSUME ExtraConfigmapsAssumption ==
    ExtraConfigmaps \in [Instances -> [{"main", "step"} -> Seq(Mounts) \ {<<>>}]]
ASSUME ExtraMountsAssumption ==
    ExtraMounts \in
       [Instances -> [volumes : Seq([name : STRING]), mounts : Seq(Mounts)]]
ASSUME NotLabelsAssumption ==
    \A kind \in Kinds : OperatorNames[kind] \cap NotLabels = {}

(* The kinds whose RELATED_IMAGE_TEST_<KIND>_IMAGE_URL_DEFAULT the manager *)
(* deployment sets (the one of HorizonTest has another name there).        *)
RelatedImages == {"Tempest", "Tobiko", "AnsibleTest"}

GetContainerImage(i, merged) ==
    CASE Given(merged["ContainerImage"])  -> merged["ContainerImage"]
      [] Kind[i] \in ConfiguredImages /\ ~Given(merged["ContainerImage"]) ->
            "configured"
      [] OTHER -> IF Kind[i] \in RelatedImages THEN "related" ELSE "empty"

ContainerNameLength(i) ==
    NameLength[i] + (IF Kind[i] = "Tempest" THEN 13 ELSE 0) \* "-tests-runner"

-----------------------------------------------------------------------------
(* What the operator creates for pods: ConfigMaps of a step, the claims    *)
(* for the logs, the shared ConfigMap.                                     *)
OwnConfigMap(i, infix, k) == <<i, infix, k>>
LogsClaim(i, index) == <<i, "logs", index>>
CloudsConfigMap == <<"test-operator-clouds-config">>

(* The Secrets and ConfigMaps of the user that fields of a spec name, and  *)
(* the one key that a volume takes from the Secret of an SSH key or of a   *)
(* kubeconfig.  ExtraConfigmapsMounts names several, each by its own name. *)
ReferringFields ==
    { "OpenStackConfigMap", "OpenStackConfigSecret", "SSHKeySecretName",
      "KubeconfigSecretName", "ComputeSSHKeySecretName",
      "WorkloadSSHKeySecretName" }
UserObject(i, f, value) == <<i, f, value>>
KeyIn(i, f, value) == <<i, f, value, "key">>

UserObjects ==
    {UserObject(i, f, v) : i \in Instances, f \in ReferringFields,
                           v \in {"main", "step"}}
      \cup {KeyIn(i, f, v) : i \in Instances, v \in {"main", "step"},
                             f \in {"SSHKeySecretName", "KubeconfigSecretName"}}
      \cup UNION {{UserObject(i, "ExtraConfigmapsMounts", ExtraConfigmaps[i][v][n].name) :
                     n \in DOMAIN ExtraConfigmaps[i][v]} :
                  i \in Instances, v \in {"main", "step"}}

(* Empty directories, and volumes described in the spec, are there.        *)
Elsewhere == <<"elsewhere">>

(* What ValidateInputs looks for: ConfigMap and Secret with clouds.yaml    *)
(* and secure.yaml, and one more Secret, of which no key is asked.         *)
InputFields ==
    [ Tempest     |-> CommonOpenstackConfig \cup {"SSHKeySecretName"},
      Tobiko      |-> CommonOpenstackConfig \cup {"KubeconfigSecretName"},
      HorizonTest |-> CommonOpenstackConfig \cup {"KubeconfigSecretName"},
      AnsibleTest |-> CommonOpenstackConfig ]

(* Mistake: only the OpenStack configuration is looked for.                *)
OpenstackInputs(i, merged) ==
    {UserObject(i, f, merged[f]) : f \in CommonOpenstackConfig}

Inputs(i, merged) ==
    {UserObject(i, f, merged[f]) :
       f \in {g \in InputFields[Kind[i]] : Given(merged[g])}}

(* One claim for all steps, or one for each when they are parallel.        *)
pvcIndex(i, spec, k) ==
    IF /\ Config[Kind[i]].HasParallel
       /\ Given(StepSpec(Kind[i], spec, k)["Parallel"])
       /\ Config[Kind[i]].SupportsWorkflow
       /\ k < Len(spec.workflow)
    THEN k
    ELSE 0

(* The ConfigMaps of a kind, in the order they are written.                *)
TempestConfigMaps == <<"custom-data", "env-vars">>
TobikoConfigMaps == <<"config", "private-key", "public-key">>

Infixes(kind) ==
    CASE kind = "Tempest" -> TempestConfigMaps
      [] kind = "Tobiko"  -> TobikoConfigMaps
      [] OTHER            -> <<>>

(* Mistake: every step writes the ConfigMaps of the first.                 *)
ConfigMapsOfFirstStep(i, k) ==
    [n \in DOMAIN Infixes(Kind[i]) |-> OwnConfigMap(i, Infixes(Kind[i])[n], 0)]

(* What generateServiceConfigMaps writes for a step.                       *)
ServiceConfigMaps(i, k) ==
    [n \in DOMAIN Infixes(Kind[i]) |-> OwnConfigMap(i, Infixes(Kind[i])[n], k)]

(* The kinds whose generateServiceConfigMaps needs the shared ConfigMap.   *)
UsesClouds(i) == Kind[i] \in {"Tobiko", "HorizonTest"}

-----------------------------------------------------------------------------
Volume(name, source) == [name |-> name, source |-> source]
When(condition, s) == IF condition THEN s ELSE <<>>

(* Mistake: the object that the spec names, whatever the step says.        *)
NamedBySpec(i, merged, f) == UserObject(i, f, "main")

(* The object that a field names.                                          *)
Named(i, merged, f) == UserObject(i, f, merged[f])

(* The volumes of these two carry the name of the object.                  *)
CreateOpenstackConfigMapVolume(i, merged) ==
    Volume(OpenstackName[i]["OpenStackConfigMap"], Named(i, merged, "OpenStackConfigMap"))
CreateOpenstackConfigSecretVolume(i, merged) ==
    Volume(OpenstackName[i]["OpenStackConfigSecret"],
           Named(i, merged, "OpenStackConfigSecret"))

(* What ExtraMounts and ExtraConfigmapsMounts add, entry by entry.         *)
AppendExtraMountsVolumes(i, value) ==
    When(Given(value), [n \in DOMAIN ExtraMounts[i].volumes |->
                          Volume(ExtraMounts[i].volumes[n].name, Elsewhere)])

AppendExtraConfigmapsVolumes(i, value) ==
    When(Given(value),
         [n \in DOMAIN ExtraConfigmaps[i][value] |->
            LET name == ExtraConfigmaps[i][value][n].name
            IN  Volume(name, UserObject(i, "ExtraConfigmapsMounts", name))])

AppendExtraMountsVolumeMounts(i, value) == When(Given(value), ExtraMounts[i].mounts)

AppendExtraConfigmapsVolumeMounts(i, value) ==
    When(Given(value), ExtraConfigmaps[i][value])

(* Mistake: the volumes of the extra ConfigMaps are forgotten.             *)
OnlyExtraMounts(i, merged) == AppendExtraMountsVolumes(i, merged["ExtraMounts"])

ExtraVolumes(i, merged) ==
    AppendExtraMountsVolumes(i, merged["ExtraMounts"])
      \o AppendExtraConfigmapsVolumes(i, merged["ExtraConfigmapsMounts"])

ExtraVolumeMounts(i, merged) ==
    AppendExtraMountsVolumeMounts(i, merged["ExtraMounts"])
      \o AppendExtraConfigmapsVolumeMounts(i, merged["ExtraConfigmapsMounts"])

(* AnsibleTest reads the ones of the step again, from the step.            *)
StepExtras(i, spec, k) ==
    /\ Kind[i] = "AnsibleTest" /\ spec.workflow # <<>>
    /\ Given(spec.workflow[k + 1]["ExtraConfigmapsMounts"])

(* The volumes that depend on the kind.                                    *)
TempestVolumes(i, merged, k) ==
    << Volume("config-data", OwnConfigMap(i, "custom-data", k)),
       CreateOpenstackConfigMapVolume(i, merged) >>
      \o When(Given(merged["SSHKeySecretName"]),
              <<Volume("ssh-key", Named(i, merged, "SSHKeySecretName"))>>)

TobikoVolumes(i, merged, k) ==
    << Volume("tobiko-config", OwnConfigMap(i, "config", k)),
       Volume("test-operator-clouds-config", CloudsConfigMap) >>
      \o When(mountKeys(merged),
              << Volume("tobiko-private-key", OwnConfigMap(i, "private-key", k)),
                 Volume("tobiko-public-key", OwnConfigMap(i, "public-key", k)) >>)
      \o When(Given(merged["KubeconfigSecretName"]),
              <<Volume("kubeconfig", Named(i, merged, "KubeconfigSecretName"))>>)

HorizonTestVolumes(i, merged) ==
    << Volume("horizontest-config", OwnConfigMap(i, "horizontest", 0)),
       Volume("test-operator-clouds-config", CloudsConfigMap) >>
      \o When(Given(merged["KubeconfigSecretName"]),
              <<Volume("kubeconfig", Named(i, merged, "KubeconfigSecretName"))>>)

AnsibleTestVolumes(i, merged) ==
    << CreateOpenstackConfigMapVolume(i, merged),
       Volume("compute-ssh-secret", Named(i, merged, "ComputeSSHKeySecretName")) >>
      \o When(Given(merged["WorkloadSSHKeySecretName"]),
              <<Volume("workload-ssh-secret",
                       Named(i, merged, "WorkloadSSHKeySecretName"))>>)

KindVolumes(i, merged, k) ==
    CASE Kind[i] = "Tempest"     -> TempestVolumes(i, merged, k)
      [] Kind[i] = "Tobiko"      -> TobikoVolumes(i, merged, k)
      [] Kind[i] = "HorizonTest" -> HorizonTestVolumes(i, merged)
      [] Kind[i] = "AnsibleTest" -> AnsibleTestVolumes(i, merged)

GetVolumes(i, spec, k, mountCerts) ==
    LET merged == StepSpec(Kind[i], spec, k) IN
    KindVolumes(i, merged, k)
      \o << CreateOpenstackConfigSecretVolume(i, merged),
            Volume("test-operator-logs", LogsClaim(i, pvcIndex(i, spec, k))),
            Volume("test-operator-ephemeral-workdir", Elsewhere),
            Volume("test-operator-ephemeral-temporary", Elsewhere) >>
      \o When(mountCerts, <<Volume("ca-certs", Elsewhere)>>)
      \o ExtraVolumes(i, merged)
      \o When(StepExtras(i, spec, k), AppendExtraConfigmapsVolumes(i, "step"))

(* clouds.yaml is mounted twice.                                           *)
CloudsMounts(name) == << Mount(name, "/etc/clouds.yaml"), Mount(name, "~/clouds.yaml") >>

TempestMounts(i, merged) ==
    <<Mount("config-data", "/etc/test_operator")>>
      \o CloudsMounts(OpenstackName[i]["OpenStackConfigMap"])
      \o When(Given(merged["SSHKeySecretName"]), <<Mount("ssh-key", "id_ecdsa")>>)

TobikoMounts(merged) ==
    <<Mount("tobiko-config", "tobiko.conf")>>
      \o CloudsMounts("test-operator-clouds-config")
      \o When(mountKeys(merged), << Mount("tobiko-private-key", "id_ecdsa"),
                                    Mount("tobiko-public-key", "id_ecdsa.pub") >>)
      \o When(Given(merged["KubeconfigSecretName"]),
              <<Mount("kubeconfig", ".kube/config")>>)

HorizonTestMounts(merged) ==
    CloudsMounts("test-operator-clouds-config")
      \o When(Given(merged["KubeconfigSecretName"]),
              <<Mount("kubeconfig", ".kube/config")>>)

AnsibleTestMounts(i, merged) ==
    CloudsMounts(OpenstackName[i]["OpenStackConfigMap"])
      \o <<Mount("compute-ssh-secret", ".ssh/compute_id")>>
      \o When(Given(merged["WorkloadSSHKeySecretName"]),
              <<Mount("workload-ssh-secret", "test_keypair.key")>>)

KindMounts(i, merged) ==
    CASE Kind[i] = "Tempest"     -> TempestMounts(i, merged)
      [] Kind[i] = "Tobiko"      -> TobikoMounts(merged)
      [] Kind[i] = "HorizonTest" -> HorizonTestMounts(merged)
      [] Kind[i] = "AnsibleTest" -> AnsibleTestMounts(i, merged)

GetVolumeMounts(i, spec, k, mountCerts) ==
    LET merged == StepSpec(Kind[i], spec, k) IN
    KindMounts(i, merged)
      \o << Mount(OpenstackName[i]["OpenStackConfigSecret"], "secure.yaml"),
            Mount("test-operator-logs", "external_files"),
            Mount("test-operator-ephemeral-workdir", "workdir"),
            Mount("test-operator-ephemeral-temporary", "/tmp") >>
      \o When(mountCerts, <<Mount("ca-certs", "tls-ca-bundle.pem")>>)
      \o When(mountCerts /\ Kind[i] # "Tempest",
              <<Mount("ca-certs", "ca-bundle.trust.crt")>>)
      \o ExtraVolumeMounts(i, merged)
      \o When(StepExtras(i, spec, k), AppendExtraConfigmapsVolumeMounts(i, "step"))

-----------------------------------------------------------------------------
(* What a container may do: a privileged one needs sudo.                   *)
GetSecurityContext(privileged) ==
    [ ReadOnlyRootFilesystem   |-> ~privileged,
      RunAsNonRoot             |-> ~privileged,
      AllowPrivilegeEscalation |-> privileged,
      AddCapabilities          |-> privileged,
      DropAll                  |-> ~privileged ]

BuildTestPod(i, spec, k, mountCerts) ==
    LET merged == StepSpec(Kind[i], spec, k) IN
    [ Image              |-> GetContainerImage(i, merged),
      NetworkAttachments |-> IF NeedsNetworkAttachments(Kind[i])
                             THEN merged["NetworkAttachments"] ELSE "empty",
      NodeSelector       |-> merged["NodeSelector"],
      Tolerations        |-> merged["Tolerations"],
      Resources          |-> merged["Resources"],
      SELinuxLevel       |-> merged["SELinuxLevel"],
      SecurityContext    |-> GetSecurityContext(Given(merged["Privileged"])),
      AutomountToken     |-> Given(merged["Privileged"]),
      Volumes            |-> GetVolumes(i, spec, k, mountCerts),
      VolumeMounts       |-> GetVolumeMounts(i, spec, k, mountCerts) ]

Values(s, field) == {s[n][field] : n \in DOMAIN s}
Distinct(s, field) == Cardinality(Values(s, field)) = Len(s)

(* What the volumes that are mounted come from.                            *)
Sources(pod) ==
    {pod.Volumes[n].source :
       n \in {m \in DOMAIN pod.Volumes :
                pod.Volumes[m].name \in Values(pod.VolumeMounts, "name")}}

(* What the API server asks of the pod.  What is copied from the spec as   *)
(* it is (resources, tolerations, ...) is taken to be valid.               *)
Accepted(i, pod) ==
    /\ pod.Image # "empty"
    /\ ContainerNameLength(i) <= DNS1123LabelMaxLength
    /\ Values(pod.Volumes, "name") \cap NotLabels = {}
    /\ Distinct(pod.Volumes, "name")
    /\ Distinct(pod.VolumeMounts, "path")
    /\ Values(pod.VolumeMounts, "name") \subseteq Values(pod.Volumes, "name")

(* What the kubelet waits for before it starts the pod: what the mounted   *)
(* volumes and the environment come from, with the keys that they take.    *)
Awaited(i, k, pod) ==
    LET envFrom == IF Kind[i] = "Tempest"
                   THEN {OwnConfigMap(i, x, k) : x \in {"custom-data", "env-vars"}}
                   ELSE {}
        keys    == {o \in UserObjects : Len(o) = 4 /\ SubSeq(o, 1, 3) \in Sources(pod)}
    IN  (Sources(pod) \cup envFrom \cup keys) \ {Elsewhere}
=============================================================================
