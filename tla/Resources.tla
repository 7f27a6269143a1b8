------------------------------ MODULE Resources ------------------------------
(***************************************************************************)
(* The four test custom resources and the TestResourceConfig that each     *)
(* controller hands to CommonReconcile.                                    *)
(***************************************************************************)

CONSTANTS
    Instances,  \* the test custom resources of one namespace, by UID
    Kind,       \* the kind of each
    Name        \* its metadata.name, unique within its kind only

Kinds == {"Tempest", "Tobiko", "HorizonTest", "AnsibleTest"}

ASSUME KindAssumption == Kind \in [Instances -> Kinds]
ASSUME NameAssumption ==
    \A i, j \in Instances : Kind[i] = Kind[j] /\ Name[i] = Name[j] => i = j

-----------------------------------------------------------------------------
TempestConfig ==
    [ NeedsNetworkAttachments |-> TRUE,
      NeedsConfigMaps         |-> TRUE,
      NeedsFinalizer          |-> TRUE,
      SupportsWorkflow        |-> TRUE,
      HasParallel             |-> TRUE,
      InitialConditions       |-> {"Ready", "InputReady", "ServiceConfigReady",
                                   "DeploymentReady", "NetworkAttachmentsReady"} ]

TobikoConfig ==
    [ NeedsNetworkAttachments |-> TRUE,
      NeedsConfigMaps         |-> TRUE,
      NeedsFinalizer          |-> FALSE,
      SupportsWorkflow        |-> TRUE,
      HasParallel             |-> TRUE,
      InitialConditions       |-> {"Ready", "InputReady", "ServiceConfigReady",
                                   "DeploymentReady", "NetworkAttachmentsReady"} ]

(* Mistake: the conditions of Tempest, one of which nobody ever sets.      *)
HorizonTestConfigOfTempest ==
    [ NeedsNetworkAttachments |-> FALSE,
      NeedsConfigMaps         |-> TRUE,
      NeedsFinalizer          |-> FALSE,
      SupportsWorkflow        |-> FALSE,
      HasParallel             |-> TRUE,
      InitialConditions       |-> TempestConfig.InitialConditions ]

HorizonTestConfig ==
    [ NeedsNetworkAttachments |-> FALSE,
      NeedsConfigMaps         |-> TRUE,
      NeedsFinalizer          |-> FALSE,
      SupportsWorkflow        |-> FALSE,
      HasParallel             |-> TRUE,
      InitialConditions       |-> {"Ready", "InputReady", "ServiceConfigReady",
                                   "DeploymentReady"} ]

(* GetParallel is nil: such a test is always serial.                       *)
AnsibleTestConfig ==
    [ NeedsNetworkAttachments |-> FALSE,
      NeedsConfigMaps         |-> FALSE,
      NeedsFinalizer          |-> FALSE,
      SupportsWorkflow        |-> TRUE,
      HasParallel             |-> FALSE,
      InitialConditions       |-> {"Ready", "InputReady", "DeploymentReady"} ]

Config == [ Tempest     |-> TempestConfig,
            Tobiko      |-> TobikoConfig,
            HorizonTest |-> HorizonTestConfig,
            AnsibleTest |-> AnsibleTestConfig ]

NeedsFinalizer(kind) == Config[kind].NeedsFinalizer

NeedsNetworkAttachments(kind) == Config[kind].NeedsNetworkAttachments

NeedsConfigMaps(kind) == Config[kind].NeedsConfigMaps

Finalized == {i \in Instances : NeedsFinalizer(Kind[i])}

(* Only a workflow step of Tempest has a Parallel field of its own.        *)
StepOverridesParallel(kind) == kind = "Tempest"
=============================================================================
