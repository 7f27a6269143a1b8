------------------------------ MODULE Admission ------------------------------
(***************************************************************************)
(* The admission webhooks (api/v1beta1): defaulting, and what is refused   *)
(* when a custom resource is created.  Updates and deletions are never     *)
(* refused, and warnings refuse nothing.  Names matter through their       *)
(* length.                                                                 *)
(***************************************************************************)
EXTENDS Merge

CONSTANTS
    NameLength,      \* the length of metadata.name of each instance
    StepNameLength   \* the length of the step names

ASSUME NameLengthAssumption ==
    /\ NameLength \in [Instances -> Nat \ {0}]
    /\ StepNameLength \in Nat \ {0}

DNS1123LabelMaxLength == 63

(* "-sXX-" between the name of the resource and the name of the step.      *)
InfixLength == 5

(* Only Tempest has defaults: an image, and Create for a TempestconfRun    *)
(* that says nothing at all.                                               *)
Default(kind, spec) ==
    LET noConf == \A f \in TempestconfRunSpec : spec.main[f] = "empty" IN
    IF kind # "Tempest"
    THEN spec
    ELSE [spec EXCEPT !.main = [f \in DOMAIN @ |->
            IF \/ f = "ContainerImage" /\ @[f] = "empty"
               \/ f = "Create" /\ noConf
            THEN "main" ELSE @[f]]]

PrivilegedRequired(main) == main["ExtraImages"] # "empty"

ValidatePodName(i) == NameLength[i] < DNS1123LabelMaxLength

ValidateWorkflowPodNames(i) ==
    NameLength[i] + StepNameLength + InfixLength < DNS1123LabelMaxLength

(* Mistake: debug mode and a workflow may go together.                     *)
ValidateNoDebugWorkflow(main) == TRUE

ValidateDebugWorkflow(main) == main["Debug"] = "empty"

ValidateTobiko(i, spec) ==
    /\ ValidatePodName(i)
    /\ spec.workflow # <<>> => /\ ValidateDebugWorkflow(spec.main)
                               /\ ValidateWorkflowPodNames(i)

ValidateTempest(i, spec) ==
    /\ ValidateTobiko(i, spec)
    /\ PrivilegedRequired(spec.main) => spec.main["Privileged"] # "empty"

(* Debug mode and a workflow do go together here.                          *)
ValidateAnsibleTest(i, spec) ==
    /\ ValidatePodName(i)
    /\ spec.workflow # <<>> => ValidateWorkflowPodNames(i)

(* A HorizonTest is not validated.                                         *)
ValidateCreate(i, spec) ==
    /\ Kind[i] = "Tempest"     => ValidateTempest(i, spec)
    /\ Kind[i] = "Tobiko"      => ValidateTobiko(i, spec)
    /\ Kind[i] = "AnsibleTest" => ValidateAnsibleTest(i, spec)
=============================================================================
