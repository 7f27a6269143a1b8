SPECIFICATION Spec
CONSTANTS
    tempest = tempest
    tempest2 = tempest2
    tobiko = tobiko
    ansible = ansible
    horizon = horizon
    NoOwner = NoOwner
    Instances = {tempest, ansible}
    Kind <- MCKind
    Name <- OwnNames
    Specs <- UpdatedSpecs
    Admitted = {}
    Networked = {}
    Missing <- NothingMissing
    Removable = {}
    Faults = {"lockCreate", "lockDelete", "podCreate", "podDelete", "prepare", "patch", "restart"}
    MaxFaults = 2
    MaxStep = 2
    Lagging = FALSE
    LaggingCR = {}
CHECK_DEADLOCK FALSE
INVARIANTS
    TypeOK
    SerialPodsOwnLock
    NoLostWakeup
PROPERTIES
    StepsInOrder
    DeploymentReadyEarned
    ImplementsLock
