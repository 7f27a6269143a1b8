-------------------------------- MODULE Merge --------------------------------
(***************************************************************************)
(* The specs of the four kinds and of their workflow steps (api/v1beta1),  *)
(* and MergeSections (internal/controller/common.go), which lays a step    *)
(* over the spec before a pod is built from it.  What MergeSections does   *)
(* with a field depends on the Go type the field has in the step, so the   *)
(* fields are grouped by it.  The fields of TempestRun and TempestconfRun, *)
(* into which it descends, stand beside the others (RunParallel and        *)
(* ConfDebug are the Parallel and the Debug there).                        *)
(***************************************************************************)
EXTENDS Integers, Sequences, Resources

(* All pointers, in every step.                                            *)
WorkflowCommonOptions ==
    { "Privileged", "StorageClass", "SELinuxLevel", "BackoffLimit",
      "ExtraConfigmapsMounts", "NodeSelector", "Tolerations" }

(* Of the spec they have ExtraMounts besides.                              *)
CommonOptions == {"ExtraMounts"}

CommonOpenstackConfig == {"OpenStackConfigMap", "OpenStackConfigSecret"}

(* All pointers in a step, too.                                            *)
TempestRunSpec ==
    { "IncludeList", "ExcludeList", "ExpectedFailuresList", "Concurrency",
      "Smoke", "RunParallel", "Serial", "WorkerFile", "ExternalPlugin",
      "ExtraRPMs", "ExtraImages" }

TempestconfRunSpec ==
    { "Create", "CollectTiming", "Insecure", "NoDefaultDeployer", "ConfDebug",
      "Verbose", "NonAdmin", "RetryImage", "ConvertToRaw", "Out",
      "DeployerInput", "TestAccounts", "CreateAccountsFile", "Profile",
      "GenerateProfile", "ImageDiskFormat", "Image", "FlavorMinMem",
      "FlavorMinDisk", "NetworkID", "Append", "Remove", "Overrides",
      "Timeout" }

WorkflowTempestRunSpec == TempestRunSpec
WorkflowTempestconfRunSpec == TempestconfRunSpec

(* The fields of a step: nil ones (pointers) and strings, "" when omitted, *)
(* are empty then; a boolean is false then; the ones of an embedded struct *)
(* are those MergeSections does not descend into.                          *)
WorkflowTempestSpec ==
    [ nil    |-> WorkflowCommonOptions \cup WorkflowTempestRunSpec
                   \cup WorkflowTempestconfRunSpec
                   \cup { "Resources", "Parallel", "RerunFailedTests",
                          "RerunOverrideStatus", "TimingDataUrl",
                          "NetworkAttachments", "SSHKeySecretName",
                          "ConfigOverwrite" },
      string |-> {"ContainerImage"},
      bool   |-> {},
      struct |-> CommonOpenstackConfig ]

TobikoWorkflowSpec ==
    [ nil    |-> WorkflowCommonOptions
                   \cup { "Resources", "SkipRegexList", "PreventCreate",
                          "NumProcesses", "NetworkAttachments", "Patch" },
      string |-> { "ContainerImage", "Testenv", "PytestAddopts", "Version",
                   "Config", "PrivateKey", "PublicKey", "KubeconfigSecretName" },
      bool   |-> {},
      struct |-> CommonOpenstackConfig ]

AnsibleTestWorkflowSpec ==
    [ nil    |-> WorkflowCommonOptions \cup {"Resources"},
      string |-> { "ContainerImage", "ComputeSSHKeySecretName",
                   "WorkloadSSHKeySecretName", "AnsibleGitRepo",
                   "AnsibleGitBranch", "AnsiblePlaybookPath",
                   "AnsibleCollections", "AnsibleVarFiles", "AnsibleExtraVars",
                   "AnsibleInventory" },
      bool   |-> {"Debug"},
      struct |-> CommonOpenstackConfig ]

NoStep == [nil |-> {}, string |-> {}, bool |-> {}, struct |-> {}]

Step ==
    [ Tempest     |-> WorkflowTempestSpec,
      Tobiko      |-> TobikoWorkflowSpec,
      HorizonTest |-> NoStep,
      AnsibleTest |-> AnsibleTestWorkflowSpec ]

StepFields(kind) ==
    UNION {Step[kind].nil, Step[kind].string, Step[kind].bool, Step[kind].struct}

(* The custom resource definition fills an omitted BackoffLimit of a step  *)
(* in with 0.                                                              *)
DefaultedFields == {"BackoffLimit"}

(* The fields of a spec that its steps do not have.                        *)
TempestSpec == CommonOptions \cup {"Debug", "Cleanup"}
TobikoSpec == CommonOptions \cup {"Debug", "Parallel"}
AnsibleTestSpec == CommonOptions
HorizonTestSpec ==
    CommonOptions \cup WorkflowCommonOptions \cup CommonOpenstackConfig
      \cup {"ContainerImage", "Debug", "Parallel", "KubeconfigSecretName",
            "Resources", "ExtraFlag", "ProjectNameXpath", "ProjectTextXpath",
            "AdminUsername", "AdminPassword", "DashboardUrl", "AuthUrl",
            "RepoUrl", "HorizonRepoBranch", "ImageUrl", "ProjectName", "User",
            "Password", "FlavorName", "LogsDirectoryName", "HorizonTestDir"}

SpecOnlyFields ==
    [ Tempest     |-> TempestSpec,
      Tobiko      |-> TobikoSpec,
      HorizonTest |-> HorizonTestSpec,
      AnsibleTest |-> AnsibleTestSpec ]

Fields(kind) == StepFields(kind) \cup SpecOnlyFields[kind]

(* A value of the spec is zero or was given; a step may also omit it.      *)
SpecValues == {"empty", "main", "step"}
StepValues == {"omitted", "empty", "step"}

-----------------------------------------------------------------------------
(* IsEmpty knows strings, maps, pointers and slices; a boolean never is.   *)
IsEmpty(kind, field, value) ==
    \/ field \in Step[kind].nil /\ value = "omitted"
    \/ field \in Step[kind].string /\ value \in {"omitted", "empty"}

(* The step as the API server stores it, and as it is decoded: an omitted  *)
(* boolean is false.                                                       *)
Stored(field, value) ==
    IF field \in DefaultedFields /\ value = "omitted" THEN "empty" ELSE value

Zero(value) == IF value = "omitted" THEN "empty" ELSE value

MergeSections(kind, main, step) ==
    [f \in Fields(kind) |->
       IF \/ f \in SpecOnlyFields[kind] \cup Step[kind].struct
          \/ IsEmpty(kind, f, Stored(f, step[f]))
       THEN main[f]
       ELSE Zero(step[f])]

(* The spec a pod is built from: the step, if there is one, over the spec. *)
StepSpec(kind, spec, k) ==
    IF Config[kind].SupportsWorkflow /\ k < Len(spec.workflow)
    THEN MergeSections(kind, spec.main, spec.workflow[k + 1])
    ELSE spec.main
=============================================================================
