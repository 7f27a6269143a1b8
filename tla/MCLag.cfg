SPECIFICATION FairSpec
CONSTANTS
    tempest = tempest
    tempest2 = tempest2
    tobiko = tobiko
    ansible = ansible
    horizon = horizon
    NoOwner = NoOwner
    Instances = {tempest}
    Kind <- MCKind
    Name <- OwnNames
    Specs <- SerialSpecs
    Admitted = {}
    Networked = {}
    Missing <- NothingMissing
    Removable = {tempest}
    Faults = {"lockCreate", "lockDelete", "podCreate", "podDelete", "prepare", "patch", "restart", "podCreateReply"}
    MaxFaults = 1
    MaxStep = 2
    Lagging = TRUE
    LaggingCR = {tempest}
CHECK_DEADLOCK FALSE
INVARIANTS
    NoLostWakeup
PROPERTIES
    StepsInOrder
    DeploymentReadyEarned
    ResultKept
    EventuallyFinished
    GoneIsCleaned
